---------------------------- MODULE SessionsProofs ----------------------------
(***************************************************************************)
(* Proofs about what the sessions of many threads share: the connections   *)
(* they check out (ConnectionPool) and the identifiers they give to new    *)
(* entities (HiloIds).                                                     *)
(***************************************************************************)
EXTENDS ConnectionPool, HiloIds, FiniteSetTheorems, TLAPS

(***************************************************************************)
(* ConnectionPool, for any number of sessions, also infinitely many, every *)
(* size of the pool and every number of handles beyond it.                 *)
(***************************************************************************)

Works == Clients \X Nat

TypeOK ==
    /\ initialized \in BOOLEAN /\ down \in BOOLEAN
    /\ idle \subseteq [h : Handles, oop : {FALSE}]
    /\ open \subseteq Handles
    /\ auto \in [Handles -> BOOLEAN]
    /\ pending \in [Handles -> SUBSET Works]
    /\ pc \in [Clients -> {"none", "ready", "checkout", "run", "crashed"}]
    /\ conn \in [Clients -> [h : Handles \cup {NoHandle}, oop : BOOLEAN]]
    /\ tran \in [Clients -> BOOLEAN]
    /\ op \in [Clients -> Ops]
    /\ tries \in [Clients -> Nat]
    /\ made \in [Clients -> Nat]
    /\ committed \subseteq Works \X Clients
    /\ abandoned \subseteq Handles

Has(c, h) == conn[c].h = h
Holders   == {c \in Clients : Pooled(c)}

(* A handle is in one place: with one session or in the queue, and open    *)
(* there.  Only a session without a connection checks one out.             *)
Places ==
    /\ \A c \in Clients : conn[c].h # NoHandle =>
          /\ conn[c].h \in open
          /\ \A w \in idle : w.h # conn[c].h
          /\ \A d \in Clients : d # c => conn[d].h # conn[c].h
    /\ \A w \in idle : w.h \in open
    /\ \A c \in Clients : pc[c] \in {"none", "checkout"} => conn[c] = NoConn

(* Every open handle is in one of them. *)
NoneLost ==
    ~down => \A h \in open : (\E w \in idle : w.h = h) \/ (\E c \in Clients : Has(c, h))

(* The pool's wrappers, idle or held, are as many as it made at most. *)
Sized ==
    /\ IsFiniteSet(idle) /\ IsFiniteSet(Holders)
    /\ Cardinality(idle) + Cardinality(Holders) <= PoolSize

(* Until a session gives a connection back in the middle of a transaction, *)
(* or cannot turn autocommit on again at its end,                          *)
(* a handle whose autocommit is off, or that has pending work, is held by  *)
(* a session inside a transaction, and the work is that session's.         *)
Mine ==
    abandoned = {} =>
        /\ \A h \in open : ~auto[h] => \E c \in Clients : Has(c, h) /\ tran[c]
        /\ \A h \in Handles : \A w \in pending[h] : Has(w[1], h) /\ tran[w[1]]
        /\ \A x \in committed : x[1][1] = x[2]

IInv == TypeOK /\ Places /\ NoneLost /\ Sized /\ Mine

-------------------------------------------------------------------------------
USE DEF Handles, NoHandle, NoConn, Ops

LEMMA InitImplies == Init => IInv
<1>1. SUFFICES ASSUME NEW n \in 0 .. PoolSize,
                      initialized = (n > 0),
                      idle = {[h |-> k, oop |-> FALSE] : k \in 1 .. n},
                      open = 1 .. n,
                      auto = [h \in Handles |-> TRUE],
                      pending = [h \in Handles |-> {}],
                      pc = [c \in Clients |-> "none"],
                      conn = [c \in Clients |-> NoConn],
                      tran = [c \in Clients |-> FALSE],
                      op = [c \in Clients |-> "none"],
                      tries = [c \in Clients |-> 0],
                      made = [c \in Clients |-> 0],
                      committed = {}, abandoned = {}, down = FALSE
               PROVE  IInv
  BY DEF Init
<1>2. n \in Nat /\ n <= PoolSize /\ PoolSize \in Nat /\ Extra \in Nat
  BY PoolAssumption
<1>3. TypeOK
  <2>1. idle \subseteq [h : Handles, oop : {FALSE}]
    <3>1. \A k \in 1 .. n : k \in Handles
      BY <1>2
    <3> HIDE DEF Handles
    <3>2. SUFFICES ASSUME NEW w \in idle PROVE w \in [h : Handles, oop : {FALSE}]
      OBVIOUS
    <3>3. PICK k \in 1 .. n : w = [h |-> k, oop |-> FALSE]
      BY <1>1
    <3> QED BY <3>1, <3>3
  <2>2. open \subseteq Handles
    BY <1>1, <1>2
  <2> HIDE DEF Handles
  <2>3. initialized \in BOOLEAN
    BY <1>1, <1>2, (n > 0) \in BOOLEAN, Zenon
  <2> QED BY <1>1, <2>1, <2>2, <2>3 DEF TypeOK, Works
<1>4. Places /\ NoneLost /\ Mine
  <2>1. \A c \in Clients : conn[c] = NoConn /\ conn[c].h = NoHandle
    BY <1>1
  <2>2. /\ \A k \in open : [h |-> k, oop |-> FALSE] \in idle
        /\ \A k \in Handles : auto[k]
    BY <1>1
  <2>3. \A w \in idle : w.h \in open
    BY <1>1
  <2>4. \A k \in open : k \in Handles
    BY <1>1, <1>2
  <2>5. ASSUME NEW k \in open PROVE \E w \in idle : w.h = k
    <3>1. [h |-> k, oop |-> FALSE].h = k
      OBVIOUS
    <3> QED BY <2>2, <3>1
  <2> HIDE DEF Handles
  <2> QED BY <1>1, <2>1, <2>2, <2>3, <2>4, <2>5 DEF Places, NoneLost, Mine
<1>5. IsFiniteSet(idle) /\ Cardinality(idle) <= n
  <2> DEFINE f == [k \in 1 .. n |-> [h |-> k, oop |-> FALSE]]
  <2>1. f \in Surjection(1 .. n, idle)
    BY <1>1 DEF Surjection
  <2>2. IsFiniteSet(1 .. n) /\ Cardinality(1 .. n) <= n
    BY <1>2, FS_Interval, 1 \in Int, n \in Int
  <2>3. IsFiniteSet(idle) /\ Cardinality(idle) <= Cardinality(1 .. n)
    BY <2>1, <2>2, FS_Surjection
  <2>4. Cardinality(idle) \in Nat /\ Cardinality(1 .. n) \in Nat
    BY <2>2, <2>3, FS_CardinalityType
  <2> QED BY <2>2, <2>3, <2>4, <1>2
<1>6. Holders = {}
  BY <1>1 DEF Holders, Pooled
<1>7. Sized
  BY <1>2, <1>5, <1>6, FS_EmptySet, FS_CardinalityType DEF Sized
<1> QED BY <1>3, <1>4, <1>7 DEF IInv

-------------------------------------------------------------------------------
(* Steps that leave the pool's wrappers where they are. *)
LEMMA Unmoved ==
    ASSUME IInv, UNCHANGED <<idle, open, conn, down>>,
           \A c \in Clients : pc'[c] \in {"none", "checkout"} => conn[c] = NoConn
    PROVE  Places' /\ NoneLost' /\ Sized'
<1>1. Places' /\ NoneLost'
  BY DEF IInv, Places, NoneLost, Has
<1>2. Holders' = Holders
  BY DEF Holders, Pooled
<1> QED BY <1>1, <1>2 DEF IInv, Sized

(* A wrapper of the pool is known by its handle, and is not NoConn. *)
LEMMA Wrapper ==
    ASSUME NEW v \in [h : Handles, oop : {FALSE}], NEW w \in [h : Handles, oop : {FALSE}]
    PROVE  /\ v.h = w.h => v = w
           /\ w.h \in Handles /\ w.h # NoHandle /\ w # NoConn /\ w.oop = FALSE
<1>1. /\ v = [h |-> v.h, oop |-> v.oop] /\ v.oop = FALSE
      /\ w = [h |-> w.h, oop |-> w.oop] /\ w.oop = FALSE /\ w.h \in Handles
  OBVIOUS
<1>2. w.h # NoHandle
  BY <1>1, PoolAssumption
<1>3. w # NoConn
  BY <1>2
<1> QED BY <1>1, <1>2, <1>3

(* A connection that comes to a session without one is nobody's work. *)
LEMMA Unheld ==
    ASSUME IInv, NEW c \in Clients, conn[c] = NoConn,
           \A d \in Clients : d # c => conn'[d] = conn[d],
           UNCHANGED <<pending, committed, abandoned, tran>>,
           \A h \in open' : ~auto'[h] => h \in open /\ ~auto[h]
    PROVE  Mine'
<1>1. \A d \in Clients, h \in Handles : Has(d, h) => conn'[d].h = h
  BY PoolAssumption DEF Has
<1>2. \A h \in Handles : \A w \in pending[h] : w[1] \in Clients
  BY DEF IInv, TypeOK, Works
<1> SUFFICES ASSUME abandoned = {}
             PROVE  /\ \A h \in open' : ~auto'[h] => \E d \in Clients : conn'[d].h = h /\ tran[d]
                    /\ \A h \in Handles : \A w \in pending[h] : conn'[w[1]].h = h /\ tran[w[1]]
                    /\ \A x \in committed : x[1][1] = x[2]
  BY DEF Mine, Has
<1>3. \A h \in open' : ~auto'[h] => \E d \in Clients : Has(d, h) /\ tran[d] /\ h \in Handles
  BY DEF IInv, TypeOK, Mine
<1>4. \A h \in Handles : \A w \in pending[h] : Has(w[1], h) /\ tran[w[1]]
  BY DEF IInv, Mine
<1>5. \A x \in committed : x[1][1] = x[2]
  BY DEF IInv, Mine
<1> HIDE DEF Handles
<1> QED BY <1>1, <1>2, <1>3, <1>4, <1>5

LEMMA GetImplKeeps == ASSUME IInv, NEW c \in Clients, GetImpl(c) PROVE IInv'
<1> USE DEF GetImpl, database
<1>1. TypeOK'
  BY DEF IInv, TypeOK
<1>2. Places' /\ NoneLost' /\ Sized'
  BY Unmoved DEF IInv, TypeOK, Places
<1>3. Mine'
  BY DEF IInv, Mine, Has
<1> QED BY <1>1, <1>2, <1>3 DEF IInv

LEMMA CallKeeps ==
    ASSUME IInv, NEW c \in Clients, NEW o \in Ops \ {"none"}, Call(c, o) PROVE IInv'
<1> USE DEF Call, database
<1>1. TypeOK'
  BY DEF IInv, TypeOK
<1>2. Places' /\ NoneLost' /\ Sized'
  BY Unmoved DEF IInv, TypeOK, Places
<1>3. Mine'
  BY DEF IInv, Mine, Has
<1> QED BY <1>1, <1>2, <1>3 DEF IInv

LEMMA DequeueKeeps == ASSUME IInv, NEW c \in Clients, Dequeue(c) PROVE IInv'
<1>1. CASE idle = {} /\ UNCHANGED <<idle, conn, pc>> /\ tries' = [tries EXCEPT ![c] = @ + 1]
  <2> USE <1>1 DEF Dequeue, database
  <2>1. TypeOK'
    BY DEF IInv, TypeOK
  <2>2. Places' /\ NoneLost' /\ Sized'
    BY Unmoved DEF IInv, Places
  <2>3. Mine'
    BY DEF IInv, Mine, Has
  <2> QED BY <2>1, <2>2, <2>3 DEF IInv
<1>2. CASE \E w \in idle : /\ idle' = idle \ {w}
                           /\ conn' = [conn EXCEPT ![c] = w]
                           /\ pc' = [pc EXCEPT ![c] = "run"]
                           /\ tries' = [tries EXCEPT ![c] = 0]
  <2>1. PICK w \in idle : /\ idle' = idle \ {w}
                          /\ conn' = [conn EXCEPT ![c] = w]
                          /\ pc' = [pc EXCEPT ![c] = "run"]
                          /\ tries' = [tries EXCEPT ![c] = 0]
    BY <1>2
  <2>2. /\ pc[c] = "checkout" /\ conn[c] = NoConn /\ w \in [h : Handles, oop : {FALSE}]
        /\ UNCHANGED <<initialized, open, auto, pending, committed, abandoned, tran, op, made, down>>
    BY DEF Dequeue, database, IInv, TypeOK, Places
  <2>3. w.h \in Handles /\ w.h # NoHandle /\ w # NoConn /\ w.oop = FALSE
    BY <2>2, Wrapper
  <2>4. /\ conn'[c] = w
        /\ \A d \in Clients : d # c => conn'[d] = conn[d]
        /\ \A d \in Clients : conn[d] = NoConn \/ conn'[d] = conn[d]
    BY <2>1, <2>2 DEF IInv, TypeOK
  <2>5. TypeOK'
    BY <2>1, <2>2 DEF IInv, TypeOK
  <2>6. \A v \in idle : v # w => v.h # w.h
    BY <2>2, Wrapper DEF IInv, TypeOK
  <2>7. Places'
    <3>0. Places
      BY DEF IInv
    <3>1. ASSUME NEW d \in Clients, conn'[d].h # NoHandle
          PROVE  /\ conn'[d].h \in open'
                 /\ \A v \in idle' : v.h # conn'[d].h
                 /\ \A b \in Clients : b # d => conn'[b].h # conn'[d].h
      <4>1. CASE d = c
        <5>1. w.h \in open /\ \A b \in Clients : b # c => conn[b].h # w.h
          BY <2>3, <3>0 DEF Places
        <5> QED BY <2>1, <2>2, <2>4, <2>6, <4>1, <5>1
      <4>2. CASE d # c
        <5>1. conn'[d] = conn[d] /\ conn[d].h # NoHandle
          BY <2>4, <3>1, <4>2
        <5>2. /\ conn[d].h \in open
              /\ \A v \in idle : v.h # conn[d].h
              /\ \A b \in Clients : b # d => conn[b].h # conn[d].h
          BY <3>0, <5>1 DEF Places
        <5> QED BY <2>1, <2>2, <2>4, <4>2, <5>1, <5>2
      <4> QED BY <4>1, <4>2
    <3>2. \A v \in idle' : v.h \in open'
      BY <2>1, <2>2, <3>0 DEF Places
    <3>3. ASSUME NEW d \in Clients, pc'[d] \in {"none", "checkout"} PROVE conn'[d] = NoConn
      <4>1. d # c /\ pc'[d] = pc[d]
        BY <2>1, <3>3 DEF IInv, TypeOK
      <4> QED BY <2>4, <3>0, <3>3, <4>1 DEF Places
    <3> QED BY <3>1, <3>2, <3>3 DEF Places
  <2>8. NoneLost'
    <3> SUFFICES ASSUME ~down, NEW k \in open
                 PROVE  (\E v \in idle' : v.h = k) \/ (\E d \in Clients : conn'[d].h = k)
      BY <2>2 DEF NoneLost, Has
    <3>1. (\E v \in idle : v.h = k) \/ (\E d \in Clients : conn[d].h = k)
      BY DEF IInv, NoneLost, Has
    <3>2. conn[c].h = NoHandle /\ k # NoHandle
      BY <2>2, PoolAssumption DEF IInv, TypeOK
    <3> QED BY <2>1, <2>4, <3>1, <3>2
  <2>9. Sized'
    <3>1. Holders' = Holders \cup {c} /\ c \notin Holders
      BY <2>2, <2>3, <2>4 DEF Holders, Pooled
    <3>2. /\ IsFiniteSet(Holders') /\ Cardinality(Holders') = Cardinality(Holders) + 1
          /\ IsFiniteSet(idle') /\ Cardinality(idle') = Cardinality(idle) - 1
      BY <2>1, <3>1, FS_AddElement, FS_RemoveElement DEF IInv, Sized
    <3>3. Cardinality(idle) \in Nat /\ Cardinality(Holders) \in Nat
      BY FS_CardinalityType DEF IInv, Sized
    <3> QED BY <3>2, <3>3, PoolAssumption DEF IInv, Sized
  <2>10. Mine'
    BY <2>2, <2>4, Unheld
  <2> QED BY <2>5, <2>7, <2>8, <2>9, <2>10 DEF IInv
<1> QED BY <1>1, <1>2 DEF Dequeue

(* A connection made beyond the pool, with a handle or without, is not one *)
(* of the pool's wrappers.                                                 *)
LEMMA NewConnectionKeeps == ASSUME IInv, NEW c \in Clients, NewConnection(c) PROVE IInv'
<1>0. /\ pc[c] = "checkout" /\ conn[c] = NoConn
      /\ UNCHANGED <<initialized, idle, pending, committed, abandoned, tran, made, down>>
      /\ tries' = [tries EXCEPT ![c] = 0]
  BY DEF NewConnection, IInv, Places
<1>1. ASSUME NEW k, conn' = [conn EXCEPT ![c] = [h |-> k, oop |-> TRUE]]
      PROVE  /\ conn'[c] = [h |-> k, oop |-> TRUE]
             /\ \A d \in Clients : d # c => conn'[d] = conn[d]
             /\ Holders' = Holders
  <2>1. /\ conn'[c] = [h |-> k, oop |-> TRUE]
        /\ \A d \in Clients : d # c => conn'[d] = conn[d]
    BY <1>1 DEF IInv, TypeOK
  <2>2. ~Pooled(c) /\ ~(Pooled(c)')
    BY <1>0, <2>1 DEF Pooled
  <2> QED BY <2>1, <2>2 DEF Holders, Pooled
<1>2. CASE /\ conn' = [conn EXCEPT ![c] = [h |-> NoHandle, oop |-> TRUE]]
           /\ pc' = [pc EXCEPT ![c] = "ready"]
           /\ op' = [op EXCEPT ![c] = "none"]
           /\ UNCHANGED <<open, auto>>
  <2>1. /\ conn'[c] = [h |-> NoHandle, oop |-> TRUE]
        /\ \A d \in Clients : d # c => conn'[d] = conn[d]
        /\ Holders' = Holders
    BY <1>1, <1>2
  <2>2. TypeOK'
    BY <1>0, <1>2 DEF IInv, TypeOK
  <2>3. conn[c].h = NoHandle /\ conn'[c].h = NoHandle /\ pc'[c] = "ready"
    BY <1>0, <1>2, <2>1 DEF IInv, TypeOK
  <2>4. \A d \in Clients : conn'[d].h = conn[d].h /\ (d # c => pc'[d] = pc[d])
    BY <1>2, <2>1, <2>3 DEF IInv, TypeOK
  <2>5. Places'
    BY <1>0, <1>2, <2>1, <2>3, <2>4 DEF IInv, Places
  <2>6. NoneLost'
    BY <1>0, <1>2, <2>4 DEF IInv, NoneLost, Has
  <2>7. Sized'
    BY <1>0, <2>1 DEF IInv, Sized
  <2>8. Mine'
    BY <1>0, <1>2, <2>1, Unheld
  <2> QED BY <2>2, <2>5, <2>6, <2>7, <2>8 DEF IInv
<1>3. ASSUME NEW k \in Handles \ open,
             open' = open \cup {k},
             auto' = [auto EXCEPT ![k] = TRUE],
             conn' = [conn EXCEPT ![c] = [h |-> k, oop |-> TRUE]],
             pc' = [pc EXCEPT ![c] = "run"],
             UNCHANGED op
      PROVE  IInv'
  <2>1. /\ conn'[c] = [h |-> k, oop |-> TRUE]
        /\ \A d \in Clients : d # c => conn'[d] = conn[d]
        /\ Holders' = Holders
    BY <1>1, <1>3
  <2>2. TypeOK'
    BY <1>0, <1>3 DEF IInv, TypeOK
  <2>3. /\ conn[c].h = NoHandle /\ conn'[c].h = k /\ k # NoHandle
        /\ pc'[c] = "run" /\ \A d \in Clients : d # c => pc'[d] = pc[d]
    BY <1>0, <1>3, <2>1, PoolAssumption DEF IInv, TypeOK
  <2>4. Places'
    <3>1. \A d \in Clients : d # c => conn'[d].h # k
      BY <1>3, <2>1, <2>3 DEF IInv, Places
    <3>2. \A w \in idle : w.h # k /\ w.h \in open'
      BY <1>3 DEF IInv, Places
    <3>3. k \in open' /\ open \subseteq open'
      BY <1>3
    <3> HIDE DEF Handles
    <3> QED BY <1>0, <2>1, <2>3, <3>1, <3>2, <3>3 DEF IInv, Places
  <2>5. NoneLost'
    <3> SUFFICES ASSUME ~down, NEW i \in open'
                 PROVE  (\E w \in idle : w.h = i) \/ (\E d \in Clients : conn'[d].h = i)
      BY <1>0 DEF NoneLost, Has
    <3>1. CASE i = k
      BY <3>1, <2>3
    <3>2. CASE i \in open
      <4>1. (\E w \in idle : w.h = i) \/ (\E d \in Clients : conn[d].h = i)
        BY <3>2 DEF IInv, NoneLost, Has
      <4>2. i # NoHandle
        BY <3>2, PoolAssumption DEF IInv, TypeOK
      <4> QED BY <2>1, <2>3, <4>1, <4>2
    <3> QED BY <1>3, <3>1, <3>2
  <2>6. Sized'
    BY <1>0, <2>1 DEF IInv, Sized
  <2>7. Mine'
    <3>1. \A i \in open' : ~auto'[i] => i \in open /\ ~auto[i]
      BY <1>3 DEF IInv, TypeOK
    <3> QED BY <1>0, <2>1, <3>1, Unheld
  <2> QED BY <2>2, <2>4, <2>5, <2>6, <2>7 DEF IInv
<1> QED BY <1>2, <1>3 DEF NewConnection

-------------------------------------------------------------------------------
LEMMA StartTransactionKeeps ==
    ASSUME IInv, NEW c \in Clients, StartTransaction(c) PROVE IInv'
<1> USE DEF StartTransaction, Return
<1>1. TypeOK'
  BY DEF IInv, TypeOK
<1>2. Places' /\ NoneLost' /\ Sized'
  BY Unmoved DEF IInv, TypeOK, Places
<1>3. Mine'
  <2>1. \A d \in Clients : tran[d] => tran'[d]
    BY DEF IInv, TypeOK
  <2>2. tran'[c]
    BY DEF IInv, TypeOK
  <2>3. \A h \in open : ~auto'[h] => ~auto[h] \/ conn[c].h = h
    BY DEF IInv, TypeOK
  <2>4. \A h \in Handles : \A w \in pending[h] : w[1] \in Clients
    BY DEF IInv, TypeOK, Works
  <2> HIDE DEF Handles
  <2> QED BY <2>1, <2>2, <2>3, <2>4 DEF IInv, Mine, Has
<1> QED BY <1>1, <1>2, <1>3 DEF IInv

LEMMA ExecuteKeeps == ASSUME IInv, NEW c \in Clients, Execute(c) PROVE IInv'
<1> DEFINE h == conn[c].h
           w == <<c, made[c] + 1>>
<1>0. /\ w \in Works /\ w[1] = c
      /\ \/ h = NoHandle /\ UNCHANGED <<pending, committed>>
         \/ h \in Handles /\ auto[h] /\ committed' = committed \cup {<<w, c>>} /\ UNCHANGED pending
         \/ /\ h \in Handles /\ ~auto[h]
            /\ pending' = [pending EXCEPT ![h] = @ \cup {w}] /\ UNCHANGED committed
  BY DEF Execute, IInv, TypeOK, Works
<1>1. TypeOK'
  <2> HIDE DEF Handles, h, w
  <2>1. pending \in [Handles -> SUBSET Works] /\ committed \subseteq Works \X Clients
    BY DEF IInv, TypeOK
  <2>2. pending' \in [Handles -> SUBSET Works]
    BY <1>0, <2>1
  <2>3. committed' \subseteq Works \X Clients
    BY <1>0, <2>1
  <2>4. made' \in [Clients -> Nat]
    BY DEF Execute, IInv, TypeOK
  <2> QED BY <2>2, <2>3, <2>4 DEF Execute, Return, IInv, TypeOK
<1>2. Places' /\ NoneLost' /\ Sized'
  BY Unmoved DEF Execute, Return, IInv, TypeOK, Places
<1>3. Mine'
  <2>1. UNCHANGED <<open, auto, conn, tran, abandoned>>
    BY DEF Execute
  <2>2. SUFFICES ASSUME abandoned = {}
                 PROVE  /\ \A k \in Handles : \A v \in pending'[k] : Has(v[1], k) /\ tran[v[1]]
                        /\ \A x \in committed' : x[1][1] = x[2]
    BY <2>1 DEF IInv, Mine, Has
  <2>3. \A x \in committed' : x[1][1] = x[2]
    BY <1>0, <2>2 DEF IInv, Mine
  <2>4. ASSUME NEW k \in Handles, NEW v \in pending'[k] PROVE Has(v[1], k) /\ tran[v[1]]
    <3>1. CASE v \in pending[k]
      BY <2>2, <3>1 DEF IInv, Mine
    <3>2. CASE v = w /\ k = h /\ h \in Handles /\ ~auto[h]
      <4>1. h \in open /\ h # NoHandle
        BY <3>2, PoolAssumption DEF IInv, Places
      <4>2. PICK d \in Clients : Has(d, h) /\ tran[d]
        BY <2>2, <3>2, <4>1 DEF IInv, Mine
      <4>3. d = c
        BY <4>1, <4>2 DEF IInv, Places, Has
      <4> QED BY <1>0, <3>2, <4>2, <4>3
    <3>3. pending \in [Handles -> SUBSET Works]
      BY DEF IInv, TypeOK
    <3> HIDE DEF Handles, h, w
    <3>4. v \in pending[k] \/ (v = w /\ k = h /\ h \in Handles /\ ~auto[h])
      BY <1>0, <2>4, <3>3
    <3> QED BY <3>1, <3>2, <3>4
  <2> QED BY <2>3, <2>4
<1> QED BY <1>1, <1>2, <1>3 DEF IInv

LEMMA EndTransactionKeeps ==
    ASSUME IInv, NEW c \in Clients, EndTransaction(c) PROVE IInv'
<1> DEFINE h == conn[c].h
<1>0. \/ h = NoHandle /\ UNCHANGED <<auto, pending, committed>>
      \/ /\ h \in Handles
         /\ auto' = [auto EXCEPT ![h] = TRUE] \/ (abandoned' # {} /\ UNCHANGED auto)
         /\ pending' = [pending EXCEPT ![h] = {}] \/ (abandoned' # {} /\ UNCHANGED pending)
         /\ \/ committed' = committed \cup {<<w, c>> : w \in pending[h]}
            \/ UNCHANGED committed
  <2>1. h \in Handles \cup {NoHandle}
    BY DEF IInv, TypeOK
  <2>2. h # NoHandle => h \in Handles
    BY <2>1
  <2> HIDE DEF Handles
  <2>3. CASE h = NoHandle
    BY <2>3 DEF EndTransaction, database
  <2>4. CASE h # NoHandle
    <3>1. \/ /\ auto' = [auto EXCEPT ![h] = TRUE]
             /\ pending' = [pending EXCEPT ![h] = {}]
             /\ \/ committed' = committed \cup {<<w, c>> : w \in pending[h]}
                \/ UNCHANGED committed
          \/ /\ abandoned' = abandoned \cup {h} /\ UNCHANGED auto
             /\ pending' = [pending EXCEPT ![h] = {}] \/ UNCHANGED pending
             /\ \/ committed' = committed \cup {<<w, c>> : w \in pending[h]}
                \/ UNCHANGED committed
      BY <2>4 DEF EndTransaction, Commits
    <3> HIDE DEF h
    <3> QED BY <2>2, <2>4, <3>1
  <2> QED BY <2>3, <2>4
<1>01. abandoned' \subseteq Handles /\ (abandoned' = {} => abandoned = {})
  <2>1. abandoned' = abandoned \/ (h # NoHandle /\ abandoned' = abandoned \cup {h})
    BY DEF EndTransaction, database
  <2>2. h \in Handles \cup {NoHandle} /\ abandoned \subseteq Handles
    BY DEF IInv, TypeOK
  <2> HIDE DEF Handles, h
  <2> QED BY <2>1, <2>2
<1>1. TypeOK'
  <2> HIDE DEF Handles, h
  <2>1. /\ auto \in [Handles -> BOOLEAN] /\ pending \in [Handles -> SUBSET Works]
        /\ committed \subseteq Works \X Clients
    BY DEF IInv, TypeOK
  <2>2. auto' \in [Handles -> BOOLEAN] /\ pending' \in [Handles -> SUBSET Works]
    BY <1>0, <2>1
  <2>3. committed' \subseteq Works \X Clients
    BY <1>0, <2>1
  <2> QED BY <1>01, <2>2, <2>3 DEF EndTransaction, Return, IInv, TypeOK
<1>2. Places' /\ NoneLost' /\ Sized'
  BY Unmoved DEF EndTransaction, Return, IInv, TypeOK, Places
<1>3. Mine'
  <2> SUFFICES ASSUME abandoned' = {} PROVE Mine'
    BY DEF Mine
  <2>0. abandoned = {}
    BY <1>01
  <2>1. /\ UNCHANGED <<open, conn>>
        /\ \A d \in Clients : d # c => tran'[d] = tran[d]
    BY DEF EndTransaction, IInv, TypeOK
  <2>2. \A k \in Handles : k # h => auto'[k] = auto[k] /\ pending'[k] = pending[k]
    BY <1>0 DEF IInv, TypeOK
  <2>3. h \in Handles => auto'[h] /\ pending'[h] = {}
    BY <1>0, PoolAssumption DEF IInv, TypeOK
  <2>4. \A k \in Handles : \A v \in pending[k] : v[1] \in Clients
    BY DEF IInv, TypeOK, Works
  <2>5. \A x \in committed' : x[1][1] = x[2]
    BY <1>0, <2>0, <2>4 DEF IInv, Mine, Has, Places
  <2>6. open \subseteq Handles
    BY DEF IInv, TypeOK
  <2> HIDE DEF Handles, h
  <2>7. ASSUME NEW k \in open, ~auto'[k]
        PROVE  \E d \in Clients : conn[d].h = k /\ tran'[d]
    <3>1. k # h /\ ~auto[k]
      BY <2>2, <2>3, <2>6, <2>7
    <3>2. PICK d \in Clients : conn[d].h = k /\ tran[d]
      BY <2>0, <2>7, <3>1 DEF IInv, Mine, Has
    <3> QED BY <2>1, <3>1, <3>2 DEF h
  <2>8. ASSUME NEW k \in Handles, NEW v \in pending'[k]
        PROVE  conn[v[1]].h = k /\ tran'[v[1]]
    <3>1. k # h /\ v \in pending[k]
      BY <2>2, <2>3, <2>8
    <3>2. conn[v[1]].h = k /\ tran[v[1]] /\ v[1] \in Clients
      BY <2>0, <2>4, <2>8, <3>1 DEF IInv, Mine, Has
    <3> QED BY <2>1, <3>1, <3>2 DEF h
  <2> QED BY <2>1, <2>5, <2>7, <2>8 DEF Mine, Has
<1> QED BY <1>1, <1>2, <1>3 DEF IInv

LEMMA CleanImplKeeps == ASSUME IInv, NEW c \in Clients, CleanImpl(c) PROVE IInv'
<1>0. /\ UNCHANGED <<initialized, op, tries, made, committed, down>>
      /\ tran' = [tran EXCEPT ![c] = FALSE]
      /\ tran' \in [Clients -> BOOLEAN] /\ \A d \in Clients : d # c => tran'[d] = tran[d]
  BY DEF CleanImpl, IInv, TypeOK
<1>a. \A k \in Handles : \A v \in pending[k] : v[1] \in Clients
  BY DEF IInv, TypeOK, Works
<1>b. open \subseteq Handles
  BY DEF IInv, TypeOK
<1>1. CASE conn[c] = NoConn
  <2>1. /\ pc' = [k \in Clients |-> "crashed"]
        /\ UNCHANGED <<idle, open, auto, pending, conn, abandoned>>
    BY <1>1 DEF CleanImpl
  <2>2. TypeOK'
    BY <1>0, <2>1 DEF IInv, TypeOK
  <2>3. Places' /\ NoneLost' /\ Sized'
    BY <1>0, <2>1, Unmoved
  <2>4. \A d \in Clients, k \in Handles : conn[d].h = k => d # c
    BY <1>1, PoolAssumption
  <2>5. Mine'
    <3> HIDE DEF Handles
    <3> QED BY <1>0, <1>a, <1>b, <2>1, <2>4 DEF IInv, Mine, Has
  <2> QED BY <2>2, <2>3, <2>5 DEF IInv
<1>2. CASE conn[c] # NoConn
  <2>1. /\ pc' = [pc EXCEPT ![c] = "none"]
        /\ conn' = [conn EXCEPT ![c] = NoConn]
        /\ auto' = auto
    BY <1>2 DEF CleanImpl, Release
  <2>2. /\ conn'[c] = NoConn /\ conn'[c].h = NoHandle
        /\ \A d \in Clients : d # c => conn'[d] = conn[d] /\ pc'[d] = pc[d]
    BY <2>1 DEF IInv, TypeOK
  <2>3. CASE conn[c].oop
    <3>1. /\ open' = open \ {conn[c].h}
          /\ pending' = [h \in Handles |-> IF h = conn[c].h THEN {} ELSE pending[h]]
          /\ UNCHANGED <<idle, abandoned>>
      BY <1>2, <2>3 DEF CleanImpl, Release
    <3>2. TypeOK'
      <4>1. pending' \in [Handles -> SUBSET Works]
        BY <3>1 DEF IInv, TypeOK
      <4> QED BY <1>0, <2>1, <3>1, <4>1 DEF IInv, TypeOK
    <3>3. \A k \in open : k # NoHandle
      BY PoolAssumption DEF IInv, TypeOK
    <3>4. Places'
      BY <2>2, <3>1, <3>3 DEF IInv, Places
    <3>5. NoneLost'
      BY <1>0, <2>2, <3>1 DEF IInv, NoneLost, Has
    <3>6. Holders' = Holders
      BY <2>2, <2>3 DEF Holders, Pooled
    <3>7. Sized'
      BY <3>1, <3>6 DEF IInv, Sized
    <3>8. Mine'
      <4>1. \A k \in Handles : k # conn[c].h => pending'[k] = pending[k]
        BY <3>1
      <4>2. \A k \in Handles : k = conn[c].h => pending'[k] = {}
        BY <3>1
      <4>3. ASSUME abandoned = {}, NEW k \in open', ~auto[k]
            PROVE  \E d \in Clients : conn'[d].h = k /\ tran'[d]
        <5>1. k \in open /\ k # conn[c].h
          BY <3>1, <4>3
        <5>2. PICK d \in Clients : conn[d].h = k /\ tran[d]
          BY <4>3, <5>1 DEF IInv, Mine, Has
        <5> QED BY <1>0, <2>2, <5>1, <5>2
      <4>4. ASSUME abandoned = {}, NEW k \in Handles, NEW v \in pending'[k]
            PROVE  conn'[v[1]].h = k /\ tran'[v[1]]
        <5>1. k # conn[c].h /\ v \in pending[k]
          BY <4>1, <4>2, <4>4
        <5>2. conn[v[1]].h = k /\ tran[v[1]] /\ v[1] \in Clients
          BY <1>a, <4>4, <5>1 DEF IInv, Mine, Has
        <5> QED BY <1>0, <2>2, <5>1, <5>2
      <4> HIDE DEF Handles
      <4> QED BY <1>0, <2>1, <3>1, <4>3, <4>4 DEF IInv, Mine, Has
    <3> QED BY <3>2, <3>4, <3>5, <3>7, <3>8 DEF IInv
  <2>4. CASE ~conn[c].oop
    <3>1. /\ idle' = idle \cup {conn[c]}
          /\ abandoned' = IF tran[c] THEN abandoned \cup {conn[c].h} ELSE abandoned
          /\ UNCHANGED <<open, pending>>
      BY <1>2, <2>4 DEF CleanImpl, Release
    <3>2. conn[c] \in [h : Handles, oop : {FALSE}] /\ conn[c].h \in Handles
      <4>1. conn[c] \in [h : Handles \cup {NoHandle}, oop : BOOLEAN]
        BY DEF IInv, TypeOK
      <4>2. conn[c] = [h |-> conn[c].h, oop |-> FALSE]
        BY <2>4, <4>1
      <4>3. conn[c].h # NoHandle
        BY <1>2, <4>2
      <4>4. conn[c].h \in Handles
        BY <4>1, <4>3
      <4>5. \A k \in Handles : [h |-> k, oop |-> FALSE] \in [h : Handles, oop : {FALSE}]
        OBVIOUS
      <4> QED BY <4>2, <4>4, <4>5, Zenon
    <3>3. TypeOK'
      <4> HIDE DEF Handles
      <4> QED BY <1>0, <2>1, <3>1, <3>2 DEF IInv, TypeOK
    <3>4. conn[c].h # NoHandle /\ conn[c].h \in open /\ conn[c] \notin idle
      BY <3>2, PoolAssumption DEF IInv, Places
    <3>5. Places'
      BY <2>2, <3>1, <3>4 DEF IInv, Places
    <3>6. NoneLost'
      BY <1>0, <2>2, <3>1 DEF IInv, NoneLost, Has
    <3>7. Sized'
      <4>1. Holders' = Holders \ {c} /\ c \in Holders
        BY <1>2, <2>2, <2>4 DEF Holders, Pooled
      <4>2. /\ IsFiniteSet(Holders') /\ Cardinality(Holders') = Cardinality(Holders) - 1
            /\ IsFiniteSet(idle') /\ Cardinality(idle') = Cardinality(idle) + 1
        BY <3>1, <3>4, <4>1, FS_AddElement, FS_RemoveElement DEF IInv, Sized
      <4>3. Cardinality(idle) \in Nat /\ Cardinality(Holders) \in Nat
        BY FS_CardinalityType DEF IInv, Sized
      <4> QED BY <4>2, <4>3, PoolAssumption DEF IInv, Sized
    <3>8. Mine'
      <4> SUFFICES ASSUME abandoned' = {} PROVE Mine'
        BY DEF Mine
      <4>1. abandoned = {} /\ ~tran[c]
        BY <3>1
      <4>2. \A d \in Clients : tran[d] => conn'[d] = conn[d] /\ tran'[d]
        BY <1>0, <2>2, <4>1
      <4> HIDE DEF Handles
      <4> QED BY <1>0, <1>a, <2>1, <3>1, <4>1, <4>2 DEF IInv, Mine, Has
    <3> QED BY <3>3, <3>5, <3>6, <3>7, <3>8 DEF IInv
  <2> QED BY <2>3, <2>4
<1> QED BY <1>1, <1>2

LEMMA DestroyPoolKeeps == ASSUME IInv, DestroyPool PROVE IInv'
<1> USE DEF DestroyPool, database
<1>1. TypeOK'
  BY DEF IInv, TypeOK
<1>2. Places' /\ NoneLost' /\ Mine'
  BY DEF IInv, Places, NoneLost, Mine, Has
<1>3. Sized'
  <2>1. Holders' = Holders
    BY DEF Holders, Pooled
  <2>2. IsFiniteSet(idle') /\ Cardinality(idle') = 0
    BY FS_EmptySet
  <2>3. Cardinality(idle) \in Nat /\ Cardinality(Holders) \in Nat
    BY FS_CardinalityType DEF IInv, Sized
  <2> QED BY <2>1, <2>2, <2>3, PoolAssumption DEF IInv, Sized
<1> QED BY <1>1, <1>2, <1>3 DEF IInv

LEMMA NextImplies == IInv /\ [Next]_vars => IInv'
<1> SUFFICES ASSUME IInv, [Next]_vars PROVE IInv'
  OBVIOUS
<1>1. ASSUME NEW c \in Clients, Step(c) PROVE IInv'
  BY <1>1, DequeueKeeps, NewConnectionKeeps, StartTransactionKeeps, ExecuteKeeps,
     EndTransactionKeeps DEF Step
<1>2. ASSUME NEW c \in Clients, GetImpl(c) PROVE IInv'
  BY <1>2, GetImplKeeps
<1>3. ASSUME NEW c \in Clients, CleanImpl(c) PROVE IInv'
  BY <1>3, CleanImplKeeps
<1>4. ASSUME NEW c \in Clients, NEW o \in Ops \ {"none"}, Call(c, o) PROVE IInv'
  BY <1>4, CallKeeps
<1>5. CASE DestroyPool
  BY <1>5, DestroyPoolKeeps
<1>6. CASE UNCHANGED vars
  <2>1. TypeOK' /\ Places' /\ NoneLost' /\ Mine'
    BY <1>6 DEF vars, IInv, TypeOK, Places, NoneLost, Mine, Has
  <2>2. Holders' = Holders
    BY <1>6 DEF vars, Holders, Pooled
  <2> QED BY <1>6, <2>1, <2>2 DEF vars, IInv, Sized
<1> QED BY <1>1, <1>2, <1>3, <1>4, <1>5, <1>6 DEF Next

LEMMA Inductive == Spec => []IInv
BY InitImplies, NextImplies, PTL DEF Spec

-------------------------------------------------------------------------------
(* checkout and release share nothing but a lock-free queue, and yet no    *)
(* handle is with two sessions, or with one and in the queue, and none is  *)
(* lost: however many sessions there are, the pool keeps its size.         *)
THEOREM OneOwnerHolds == Spec => []OneOwner
<1>1. IInv => OneOwner
  <2> SUFFICES ASSUME IInv PROVE OneOwner
    OBVIOUS
  <2> HIDE DEF Handles
  <2>1. ASSUME NEW c \in Clients
        PROVE  /\ HeldBy(c) \subseteq open
               /\ HeldBy(c) \cap IdleHandles = {}
               /\ \A d \in Clients \ {c} : HeldBy(c) \cap HeldBy(d) = {}
    BY DEF IInv, Places, HeldBy, IdleHandles
  <2>2. ASSUME ~down
        PROVE  open = IdleHandles \cup UNION {HeldBy(c) : c \in Clients}
    <3>1. ASSUME NEW k \in open PROVE k \in IdleHandles \cup UNION {HeldBy(c) : c \in Clients}
      <4>1. k # NoHandle
        BY PoolAssumption DEF IInv, TypeOK, Handles
      <4> QED BY <2>2, <4>1 DEF IInv, NoneLost, Has, HeldBy, IdleHandles
    <3>2. ASSUME NEW k \in IdleHandles \cup UNION {HeldBy(c) : c \in Clients} PROVE k \in open
      BY <2>1 DEF IInv, Places, IdleHandles
    <3> QED BY <3>1, <3>2
  <2>3. Cardinality(idle) + Cardinality({c \in Clients : Pooled(c)}) <= PoolSize
    BY DEF IInv, Sized, Holders
  <2> QED BY <2>1, <2>2, <2>3 DEF OneOwner
<1> QED BY <1>1, Inductive, PTL

(* As long as no session has given its connection back in the middle of a  *)
(* transaction, or failed to turn autocommit on at its end, what the       *)
(* database commits for a session is that session's own work: those are    *)
(* the only ways for work to pass to another.                              *)
THEOREM OwnWorkHolds == Spec => []OwnWork
<1>1. IInv => OwnWork
  BY DEF IInv, Mine, OwnWork
<1> QED BY <1>1, Inductive, PTL

-------------------------------------------------------------------------------
(***************************************************************************)
(* HiloIds, for any processes, threads, block size and number of blocks,   *)
(* for both kinds of entity in the database and any number of statements   *)
(* that fail.                                                              *)
(*                                                                         *)
(* That no identifier is given twice follows from what is known of the     *)
(* blocks: those that a thread has reserved and not yet installed and      *)
(* those in the memory of the processes are disjoint, and nothing in them  *)
(* has been given.  Of a table row this holds until an update misses or    *)
(* fails.  The block of a failed query, from -1, is no block here: its     *)
(* identifiers are negative.                                               *)
(***************************************************************************)

Labels == {"closed", "reserve", "update", "install", "open", "next"}

\* The types of the state
HiloTypeOK ==
    /\ db \in Nat
    /\ ids \in [Processes -> Int] /\ top \in [Processes -> Int]
    /\ at \in [Agents -> Labels]
    /\ hi \in [Agents -> Int]
    /\ outer \in [Agents -> BOOLEAN]
    /\ given \in [Id -> Nat]
    /\ missed \in BOOLEAN /\ unsaved \in Nat /\ failed \in Nat

Installing(a) == at[a] = "install" /\ hi[a] >= 0
HasBlock(p)   == ids[p] >= 0

\* Only a failed query leads to a block from -1.
Sources ==
    /\ \A a \in Agents : at[a] \in {"update", "install"} =>
         hi[a] \in Nat \/ (hi[a] = None /\ failed > 0)
    /\ \A p \in Processes :
         IF HasBlock(p) THEN ids[p] <= top[p]
                        ELSE top[p] = None /\ (ids[p] = None \/ failed > 0)

\* Whatever is reserved, in memory or given lies below db, until an update fails.
Below ==
    /\ unsaved = 0 =>
         /\ \A a \in Agents : at[a] = "update" => hi[a] <= db
         /\ \A a \in Agents : Installing(a) => hi[a] < db
         /\ \A p \in Processes : HasBlock(p) => top[p] < db * Low
    /\ Reserved

\* Reading the sequence is one statement: it cannot miss, and there is no update.
NeverMissed ==
    EntityType = "sequence" =>
        ~missed /\ unsaved = 0 /\ \A a \in Agents : at[a] # "update"

\* Nothing of a block that is reserved or in memory has been given.
Ungiven ==
    /\ \A a \in Agents : Installing(a) =>
         \A i \in Id : hi[a] * Low <= i /\ i < (hi[a] + 1) * Low => given[i] = 0
    /\ \A p \in Processes : HasBlock(p) =>
         \A i \in Id : ids[p] <= i /\ i <= top[p] => given[i] = 0

\* Blocks that are reserved or in memory do not overlap.
Apart ==
    /\ \A a, b \in Agents : a # b /\ Installing(a) /\ Installing(b) => hi[a] # hi[b]
    /\ \A a \in Agents, p \in Processes : Installing(a) /\ HasBlock(p) =>
         top[p] < hi[a] * Low \/ (hi[a] + 1) * Low <= ids[p]
    /\ \A p, q \in Processes : p # q /\ HasBlock(p) /\ HasBlock(q) =>
         top[p] < ids[q] \/ top[q] < ids[p]

Exclusive == ~missed /\ unsaved = 0 => Ungiven /\ Apart
HiloInv  == HiloTypeOK /\ Sources /\ Below /\ NeverMissed /\ Exclusive /\ Once /\ Negative
HiloIInv == HiloAssumption /\ HiloInv

-----------------------------------------------------------------------------
(* Arithmetic of blocks *)

LEMMA LowPositive == HiloAssumption => Low \in Nat /\ Low > 0
  BY DEF HiloAssumption

\* The blocks of two high values do not overlap.
LEMMA BlocksApart ==
    ASSUME NEW L \in Nat, L > 0, NEW h \in Nat, NEW k \in Nat, h < k
    PROVE  (h + 1) * L <= k * L
<1>1. h + 1 <= k
  OBVIOUS
<1>2. \A x, y \in Nat : x <= y => x * L <= y * L
  OBVIOUS
<1> QED BY <1>1, <1>2

\* A block is not empty and ends where the next one begins.
LEMMA BlockBounds ==
    ASSUME NEW L \in Nat, L > 0, NEW h \in Nat
    PROVE  /\ h * L \in Nat /\ (h + 1) * L \in Nat
           /\ (h + 1) * L = h * L + L
  OBVIOUS

\* Agents are pairs whose first component is a process.
LEMMA AgentProcess == \A a \in Agents : a[1] \in Processes
  BY DEF Agents

LEMMA IdsAreIntegers == HiloAssumption => \A i \in Id : i \in Int
  BY DEF HiloAssumption, Id

-----------------------------------------------------------------------------
(* Steps of a thread that touch neither blocks nor identifiers *)

LEMMA HiloUnmoved ==
    ASSUME HiloIInv,
           UNCHANGED <<db, ids, top, hi, given, missed, unsaved, failed>>,
           at' \in [Agents -> Labels], outer' \in [Agents -> BOOLEAN],
           \A a \in Agents : at'[a] = "update" => at[a] = "update",
           \A a \in Agents : at'[a] = "install" =>
              at[a] = "install" \/ (at[a] = "update" /\ hi[a] = None)
    PROVE  HiloIInv'
<1> USE DEF HiloIInv, HiloInv
<1>0. \A a \in Agents : Installing(a)' => Installing(a)
  BY DEF Installing, None
<1>1. HiloTypeOK' /\ Sources'
  BY DEF HiloTypeOK, Sources, HasBlock
<1>2. Below'
  BY <1>0 DEF Below, HasBlock, Reserved
<1>3. NeverMissed'
  BY DEF NeverMissed
<1>4. Exclusive'
  BY <1>0 DEF Exclusive, Ungiven, Apart, HasBlock
<1>5. Once' /\ Negative'
  BY DEF Once, Negative
<1> QED BY <1>1, <1>2, <1>3, <1>4, <1>5

LEMMA QuietKeeps ==
    ASSUME HiloIInv, NEW a \in Agents, OpenSource(a) \/ Insert(a) \/ CloseSource(a) \/ NextUsedUp(a)
    PROVE  HiloIInv'
<1>1. /\ UNCHANGED <<db, ids, top, hi, given, missed, unsaved, failed>>
      /\ at' \in [Agents -> Labels] /\ outer' \in [Agents -> BOOLEAN]
      /\ \A b \in Agents : at'[b] \in {"update", "install"} => at'[b] = at[b]
  BY DEF OpenSource, Insert, CloseSource, NextUsedUp, Goto, HiloIInv, HiloInv, HiloTypeOK,
         Labels, events
<1> QED BY <1>1, HiloUnmoved

-----------------------------------------------------------------------------
(* Reservations *)

\* The database only moves on: what lay below db still does.
LEMMA DbMovesOn ==
    ASSUME HiloIInv, db' \in {db, db + 1}, UNCHANGED <<ids, top, given, unsaved>>
    PROVE  /\ db' \in Nat /\ Reserved'
           /\ unsaved' = 0 => \A p \in Processes : HasBlock(p)' => top'[p] < db' * Low
<1> USE DEF HiloIInv, HiloInv
<1> DEFINE m == db * Low
           n == db' * Low
<1>1. Low \in Nat /\ Low > 0 /\ db \in Nat /\ db' \in Nat
  BY LowPositive DEF HiloTypeOK
<1>2. m \in Nat /\ n \in Nat /\ m <= n
  <2>1. CASE db' = db
    BY <1>1, <2>1, BlockBounds
  <2>2. CASE db' = db + 1
    BY <1>1, <2>2, BlockBounds
  <2> QED BY <2>1, <2>2
<1>3. \A i \in Id : i \in Int
  BY IdsAreIntegers
<1>4. \A i \in Id : given[i] > 0 => i < 0 \/ i < m \/ unsaved > 0
  BY DEF Below, Reserved
<1>5. unsaved = 0 => \A p \in Processes : HasBlock(p) => top[p] < m
  BY DEF Below
<1>6. \A p \in Processes : top[p] \in Int
  BY DEF HiloTypeOK
<1> HIDE DEF m, n
<1>7. \A i \in Id : given[i] > 0 => i < 0 \/ i < n \/ unsaved > 0
  BY <1>2, <1>3, <1>4
<1>8. unsaved = 0 => \A p \in Processes : HasBlock(p) => top[p] < n
  BY <1>2, <1>5, <1>6
<1> QED BY <1>1, <1>7, <1>8 DEF n, Reserved, HasBlock

\* A reservation moves db on by one and takes the block at its old value:
\* everything known lies below that block.
LEMMA TakesNextBlock ==
    ASSUME HiloIInv, NEW a \in Agents,
           hi' \in [Agents -> Int], hi'[a] = db, db' = db + 1,
           \A b \in Agents : b # a => hi'[b] = hi[b] /\ at'[b] = at[b],
           at' \in [Agents -> Labels], at'[a] = "install",
           UNCHANGED <<ids, top, outer, given, missed, unsaved, failed>>
    PROVE  HiloIInv'
<1> USE DEF HiloIInv, HiloInv
<1>1. Low \in Nat /\ Low > 0 /\ db \in Nat
  BY LowPositive DEF HiloTypeOK
<1> DEFINE m == db * Low
           n == (db + 1) * Low
<1>3. m \in Nat /\ n \in Nat /\ n = m + Low /\ m < n
  BY <1>1, BlockBounds
<1>4. HiloTypeOK' /\ Sources'
  BY DEF HiloTypeOK, Sources, HasBlock
<1>5. Below'
  <2>1. (\A b \in Agents : at[b] = "update" => hi[b] <= db)' \/ unsaved # 0
    <3> SUFFICES ASSUME unsaved = 0, NEW b \in Agents, at'[b] = "update" PROVE hi'[b] <= db'
      OBVIOUS
    <3>1. b # a /\ hi[b] <= db /\ hi[b] \in Int
      BY DEF Below, HiloTypeOK
    <3> QED BY <1>1, <3>1
  <2>2. (\A b \in Agents : Installing(b) => hi[b] < db)' \/ unsaved # 0
    <3> SUFFICES ASSUME unsaved = 0, NEW b \in Agents, Installing(b)' PROVE hi'[b] < db'
      OBVIOUS
    <3>1. CASE b = a
      BY <1>1, <3>1
    <3>2. CASE b # a
      BY <1>1, <3>2 DEF Below, Installing, HiloTypeOK
    <3> QED BY <3>1, <3>2
  <2> QED BY <2>1, <2>2, DbMovesOn DEF Below
<1>6. NeverMissed'
  BY DEF NeverMissed
<1>7. Exclusive'
  <2> SUFFICES ASSUME ~missed, unsaved = 0 PROVE (Ungiven /\ Apart)'
    BY DEF Exclusive
  <2>0. Ungiven /\ Apart
    BY DEF Exclusive
  <2>1. \A i \in Id : m <= i => given[i] = 0
    <3>1. \A i \in Id : given[i] > 0 => i < 0 \/ i < m
      BY DEF Below, Reserved
    <3>2. \A i \in Id : i \in Int /\ given[i] \in Nat
      BY IdsAreIntegers DEF HiloTypeOK
    <3> HIDE DEF m
    <3> QED BY <1>3, <3>1, <3>2
  <2>2. hi'[a] * Low = m /\ (hi'[a] + 1) * Low = n
    OBVIOUS
  <2>3. \A p \in Processes : HasBlock(p) => top[p] < m
    BY DEF Below
  <2>4. \A b \in Agents : Installing(b) => hi[b] # db
    BY <1>1 DEF Below
  <2>5. Ungiven'
    BY <2>0, <2>1, <2>2 DEF Ungiven, Installing, HasBlock
  <2>6. Apart'
    BY <2>0, <2>2, <2>3, <2>4 DEF Apart, Installing, HasBlock
  <2> QED BY <2>5, <2>6
<1>8. Once' /\ Negative'
  BY DEF Once, Negative
<1> QED BY <1>4, <1>5, <1>6, <1>7, <1>8

\* A query that fails reserves nothing.
LEMMA TakesNoBlock ==
    ASSUME HiloIInv, NEW a \in Agents, EntityType = "sequence" => at'[a] # "update",
           hi' \in [Agents -> Int], hi'[a] = None, db' \in {db, db + 1}, failed' = failed + 1,
           \A b \in Agents : b # a => hi'[b] = hi[b] /\ at'[b] = at[b],
           at' \in [Agents -> Labels], at'[a] \in {"update", "install"},
           UNCHANGED <<ids, top, outer, given, missed, unsaved>>
    PROVE  HiloIInv'
<1> USE DEF HiloIInv, HiloInv
<1>1. \A b \in Agents : Installing(b)' => b # a /\ Installing(b)
  BY DEF Installing, None
<1>2. db \in Nat /\ db' \in Nat /\ db <= db' /\ failed \in Nat /\ failed' \in Nat /\ failed' > 0
  BY DbMovesOn DEF HiloTypeOK
<1>3. HiloTypeOK'
  BY <1>2 DEF HiloTypeOK
<1>4. Sources'
  BY <1>2 DEF Sources, HasBlock
<1>5. Below'
  <2>1. unsaved = 0 => (\A b \in Agents : at[b] = "update" => hi[b] <= db)'
    <3> SUFFICES ASSUME unsaved = 0, NEW b \in Agents, at'[b] = "update" PROVE hi'[b] <= db'
      OBVIOUS
    <3>1. CASE b = a
      BY <1>2, <3>1 DEF None
    <3>2. CASE b # a
      <4>1. hi[b] <= db /\ hi[b] \in Int /\ hi'[b] = hi[b]
        BY <3>2 DEF Below, HiloTypeOK
      <4> QED BY <1>2, <4>1
    <3> QED BY <3>1, <3>2
  <2>2. unsaved = 0 => (\A b \in Agents : Installing(b) => hi[b] < db)'
    <3> SUFFICES ASSUME unsaved = 0, NEW b \in Agents, Installing(b)' PROVE hi'[b] < db'
      OBVIOUS
    <3>1. hi[b] < db /\ hi[b] \in Int /\ hi'[b] = hi[b]
      BY <1>1 DEF Below, HiloTypeOK
    <3> QED BY <1>2, <3>1
  <2> QED BY <2>1, <2>2, DbMovesOn DEF Below
<1>6. NeverMissed'
  BY DEF NeverMissed
<1>7. Exclusive'
  BY <1>1 DEF Exclusive, Ungiven, Apart, HasBlock
<1>8. Once' /\ Negative'
  BY <1>2 DEF Once, Negative
<1> QED BY <1>3, <1>4, <1>5, <1>6, <1>7, <1>8

LEMMA NextInSequenceKeeps ==
    ASSUME HiloIInv, NEW a \in Agents, NextInSequence(a) PROVE HiloIInv'
<1>1. /\ \A b \in Agents : b # a => hi'[b] = hi[b] /\ at'[b] = at[b]
      /\ hi' \in [Agents -> Int]
      /\ at' \in [Agents -> Labels] /\ at'[a] = "install"
      /\ UNCHANGED <<ids, top, outer, given, missed, unsaved>>
  BY DEF NextInSequence, Goto, HiloIInv, HiloInv, HiloTypeOK, Labels, None
<1>2. \/ hi'[a] = db /\ db' = db + 1 /\ failed' = failed
      \/ hi'[a] = None /\ db' \in {db, db + 1} /\ failed' = failed + 1
  BY DEF NextInSequence, HiloIInv, HiloInv, HiloTypeOK
<1>3. CASE hi'[a] = db /\ db' = db + 1 /\ failed' = failed
  BY <1>1, <1>3, TakesNextBlock
<1>4. CASE hi'[a] = None /\ db' \in {db, db + 1} /\ failed' = failed + 1
  BY <1>1, <1>4, TakesNoBlock
<1> QED BY <1>2, <1>3, <1>4

LEMMA SelectHiKeeps ==
    ASSUME HiloIInv, NEW a \in Agents, SelectHi(a) PROVE HiloIInv'
<1> USE DEF HiloIInv, HiloInv
<1>1. /\ hi' \in [Agents -> Int] /\ EntityType # "sequence"
      /\ \A b \in Agents : b # a => hi'[b] = hi[b] /\ at'[b] = at[b]
      /\ at' \in [Agents -> Labels] /\ at'[a] = "update"
      /\ UNCHANGED <<db, ids, top, outer, given, missed, unsaved>>
  BY DEF SelectHi, Goto, HiloTypeOK, Labels, None
<1>2. \/ hi'[a] = db /\ failed' = failed
      \/ hi'[a] = None /\ failed' = failed + 1
  BY DEF SelectHi, HiloTypeOK
<1>3. CASE hi'[a] = None /\ failed' = failed + 1
  BY <1>1, <1>3, TakesNoBlock
<1>4. CASE hi'[a] = db /\ failed' = failed
  <2>0. \A b \in Agents : Installing(b)' => b # a /\ Installing(b)
    BY <1>1 DEF Installing
  <2>1. HiloTypeOK' /\ Sources'
    BY <1>1, <1>4 DEF HiloTypeOK, Sources, HasBlock
  <2>2. Below'
    <3>1. unsaved = 0 => (\A b \in Agents : at[b] = "update" => hi[b] <= db)'
      BY <1>1, <1>4 DEF Below, HiloTypeOK
    <3>2. unsaved = 0 => (\A b \in Agents : Installing(b) => hi[b] < db)'
      BY <1>1, <2>0 DEF Below
    <3> QED BY <1>1, <3>1, <3>2 DEF Below, HasBlock, Reserved
  <2>3. NeverMissed'
    BY <1>1 DEF NeverMissed
  <2>4. Exclusive'
    BY <1>1, <2>0 DEF Exclusive, Ungiven, Apart, HasBlock
  <2>5. Once' /\ Negative'
    BY <1>1, <1>4 DEF Once, Negative
  <2> QED BY <2>1, <2>2, <2>3, <2>4, <2>5
<1> QED BY <1>2, <1>3, <1>4

LEMMA UpdateHiKeeps ==
    ASSUME HiloIInv, NEW a \in Agents, UpdateHi(a) PROVE HiloIInv'
<1> USE DEF HiloIInv, HiloInv
<1>1. /\ at[a] = "update" /\ at' \in [Agents -> Labels] /\ at'[a] = "install"
      /\ \A b \in Agents : b # a => at'[b] = at[b]
      /\ UNCHANGED <<ids, top, hi, outer, given, failed>>
      /\ hi[a] \in Nat \/ hi[a] = None
      /\ db \in Nat /\ unsaved \in Nat /\ hi[a] \in Int
      /\ EntityType # "sequence" /\ (unsaved = 0 => hi[a] <= db)
  BY DEF UpdateHi, Goto, HiloTypeOK, Labels, Sources, Below, NeverMissed
<1>2. CASE hi[a] \in Nat /\ db = hi[a] /\ db' = hi[a] + 1 /\ missed' = missed /\ unsaved' = unsaved
  BY <1>1, <1>2, TakesNextBlock DEF HiloTypeOK
<1>3. CASE hi[a] = None /\ db' = db /\ missed' = missed /\ unsaved' = unsaved
  BY <1>1, <1>3, HiloUnmoved DEF HiloTypeOK
<1>4. CASE /\ hi[a] \in Nat /\ db # hi[a] /\ db' = db /\ missed' = TRUE
           /\ unsaved' = unsaved
  <2>1. HiloTypeOK' /\ Sources'
    BY <1>1, <1>4 DEF HiloTypeOK, Sources, HasBlock
  <2>2. Below'
    <3>1. unsaved = 0 => (\A b \in Agents : Installing(b) => hi[b] < db)'
      BY <1>1, <1>4 DEF Below, Installing
    <3> QED BY <1>1, <1>4, <3>1 DEF Below, HasBlock, Reserved
  <2>3. NeverMissed' /\ Exclusive' /\ Once' /\ Negative'
    BY <1>1, <1>4 DEF NeverMissed, Exclusive, Once, Negative
  <2> QED BY <2>1, <2>2, <2>3
<1>5. CASE /\ hi[a] # None /\ unsaved' = unsaved + 1 /\ db' = db /\ missed' = missed
  <2>1. unsaved' \in Nat /\ unsaved' > 0
    BY <1>1, <1>5
  <2>2. HiloTypeOK' /\ Sources'
    BY <1>1, <1>5, <2>1 DEF HiloTypeOK, Sources, HasBlock
  <2>3. Below' /\ NeverMissed' /\ Exclusive' /\ Once' /\ Negative'
    BY <1>1, <2>1 DEF Below, Reserved, NeverMissed, Exclusive, Once, Negative
  <2> QED BY <2>2, <2>3
<1>6. None \notin Nat
  BY DEF None
<1> QED BY <1>1, <1>2, <1>3, <1>4, <1>5, <1>6 DEF UpdateHi, HiloTypeOK

-----------------------------------------------------------------------------
(* The block in memory *)

\* The block of a failed query holds negative identifiers only.
LEMMA InstallNegativeKeeps ==
    ASSUME HiloIInv, NEW a \in Agents, InstallBlock(a), hi[a] = None PROVE HiloIInv'
<1> USE DEF HiloIInv, HiloInv
<1> DEFINE p == a[1]
<1>0. p \in Processes /\ Low \in Nat /\ Low > 0
  BY AgentProcess, LowPositive
<1>1. failed > 0
  BY DEF InstallBlock, Sources, None
<1>2. hi[a] * Low = -Low /\ (hi[a] + 1) * Low - 1 = -1 /\ -Low < 0 /\ -Low \in Int
  BY <1>0 DEF None
<1>3. /\ ids' = [ids EXCEPT ![p] = -Low] /\ top' = [top EXCEPT ![p] = None]
      /\ hi' \in [Agents -> Int] /\ at' \in [Agents -> Labels]
      /\ \A b \in Agents : b # a => at'[b] = at[b] /\ hi'[b] = hi[b]
      /\ at'[a] \notin {"update", "install"}
      /\ UNCHANGED <<db, outer, given, missed, unsaved, failed>>
  BY <1>2 DEF InstallBlock, Goto, HiloTypeOK, Labels, None, events
<1>4. /\ ids' \in [Processes -> Int] /\ top' \in [Processes -> Int]
      /\ ids'[p] = -Low /\ top'[p] = None
      /\ \A q \in Processes : q # p => ids'[q] = ids[q] /\ top'[q] = top[q]
  BY <1>0, <1>2, <1>3 DEF HiloTypeOK, None
<1> HIDE DEF p
<1>5. /\ \A b \in Agents : Installing(b)' => b # a /\ Installing(b) /\ hi'[b] = hi[b]
      /\ \A q \in Processes : HasBlock(q)' => q # p /\ HasBlock(q)
  BY <1>2, <1>3, <1>4 DEF Installing, HasBlock
<1>6. HiloTypeOK' /\ Sources'
  BY <1>1, <1>2, <1>3, <1>4 DEF HiloTypeOK, Sources, HasBlock
<1>7. Below'
  BY <1>3, <1>4, <1>5 DEF Below, Reserved
<1>8. NeverMissed' /\ Once' /\ Negative'
  BY <1>3 DEF NeverMissed, Once, Negative
<1>9. Exclusive'
  BY <1>3, <1>4, <1>5 DEF Exclusive, Ungiven, Apart
<1> QED BY <1>6, <1>7, <1>8, <1>9

LEMMA InstallBlockKeeps ==
    ASSUME HiloIInv, NEW a \in Agents, InstallBlock(a), hi[a] # None PROVE HiloIInv'
<1> USE DEF HiloIInv, HiloInv
<1> DEFINE p == a[1]
           m == hi[a] * Low
           n == (hi[a] + 1) * Low
<1>0. p \in Processes /\ Low \in Nat /\ Low > 0
  BY AgentProcess, LowPositive
<1>1. Installing(a) /\ hi[a] \in Nat /\ db \in Nat /\ (unsaved = 0 => hi[a] < db)
  BY DEF InstallBlock, Sources, Below, Installing, HiloTypeOK
<1>2. m \in Nat /\ n \in Nat /\ n = m + Low /\ db * Low \in Nat
  BY <1>0, <1>1, BlockBounds
<1>21. unsaved = 0 => n <= db * Low
  BY <1>0, <1>1, BlocksApart
<1>3. /\ ids' = [ids EXCEPT ![p] = m] /\ top' = [top EXCEPT ![p] = n - 1]
      /\ hi' \in [Agents -> Int] /\ at' \in [Agents -> Labels]
      /\ \A b \in Agents : b # a => at'[b] = at[b] /\ hi'[b] = hi[b]
      /\ at'[a] \notin {"update", "install"}
      /\ UNCHANGED <<db, outer, given, missed, unsaved, failed>>
  BY DEF InstallBlock, Goto, HiloTypeOK, Labels, None, events
<1>4. /\ ids' \in [Processes -> Int] /\ top' \in [Processes -> Int]
      /\ ids'[p] = m /\ top'[p] = n - 1 /\ m >= 0
      /\ \A q \in Processes : q # p => ids'[q] = ids[q] /\ top'[q] = top[q]
  BY <1>0, <1>2, <1>3 DEF HiloTypeOK, None
<1>41. \A b \in Agents : Installing(b)' => b # a /\ Installing(b) /\ hi'[b] = hi[b]
  BY <1>3 DEF Installing
<1>5. HiloTypeOK' /\ Sources'
  <2> HIDE DEF m, n, p
  <2>1. HiloTypeOK'
    BY <1>3, <1>4 DEF HiloTypeOK
  <2>2. (\A b \in Agents : at[b] \in {"update", "install"} =>
            hi[b] \in Nat \/ (hi[b] = None /\ failed > 0))'
    BY <1>3 DEF Sources
  <2>3. (\A q \in Processes :
            IF HasBlock(q) THEN ids[q] <= top[q]
                           ELSE top[q] = None /\ (ids[q] = None \/ failed > 0))'
    BY <1>0, <1>2, <1>3, <1>4 DEF Sources, HasBlock
  <2> QED BY <2>1, <2>2, <2>3 DEF Sources
<1>6. Below'
  <2>1. unsaved = 0 => (\A q \in Processes : HasBlock(q) => top[q] < db * Low)'
    <3> HIDE DEF m, n, p
    <3> QED BY <1>0, <1>2, <1>21, <1>3, <1>4 DEF Below, HasBlock
  <2> QED BY <1>3, <1>41, <2>1 DEF Below, Reserved
<1>7. NeverMissed' /\ Once' /\ Negative'
  BY <1>3 DEF NeverMissed, Once, Negative
<1>8. Exclusive'
  <2> SUFFICES ASSUME ~missed, unsaved = 0 PROVE (Ungiven /\ Apart)'
    BY <1>3 DEF Exclusive
  <2>0. Ungiven /\ Apart
    BY DEF Exclusive
  <2>1. \A i \in Id : m <= i /\ i <= n - 1 => given[i] = 0
    <3>1. \A i \in Id : i \in Int
      BY IdsAreIntegers
    <3>2. \A i \in Id : m <= i /\ i < n => given[i] = 0
      BY <1>1, <2>0 DEF Ungiven
    <3> HIDE DEF m, n
    <3> QED BY <1>2, <3>1, <3>2
  <2>2. Ungiven'
    <3> HIDE DEF m, n, p
    <3> QED BY <1>3, <1>4, <1>41, <2>0, <2>1 DEF Ungiven, HasBlock
  <2>3. \A b \in Agents : b # a /\ Installing(b) => n - 1 < hi[b] * Low \/ (hi[b] + 1) * Low <= m
    <3> SUFFICES ASSUME NEW b \in Agents, b # a, Installing(b)
                 PROVE  n - 1 < hi[b] * Low \/ (hi[b] + 1) * Low <= m
      OBVIOUS
    <3>1. hi[b] \in Nat /\ hi[b] # hi[a]
      BY <1>1, <2>0 DEF Apart, Installing, HiloTypeOK
    <3>2. CASE hi[a] < hi[b]
      <4>1. n <= hi[b] * Low
        BY <1>0, <1>1, <3>1, <3>2, BlocksApart
      <4>2. hi[b] * Low \in Nat
        BY <1>0, <3>1
      <4> HIDE DEF m, n
      <4> QED BY <1>2, <4>1, <4>2
    <3>3. CASE hi[b] < hi[a]
      BY <1>0, <1>1, <3>1, <3>3, BlocksApart
    <3> QED BY <1>1, <3>1, <3>2, <3>3
  <2>4. \A q \in Processes : q # p /\ HasBlock(q) => top[q] < m \/ n - 1 < ids[q]
    <3>1. \A q \in Processes : HasBlock(q) => top[q] < m \/ n <= ids[q]
      BY <1>1, <2>0 DEF Apart
    <3>2. \A q \in Processes : ids[q] \in Int
      BY DEF HiloTypeOK
    <3> HIDE DEF m, n, p
    <3> QED BY <1>2, <3>1, <3>2
  <2>5. Apart'
    <3> HIDE DEF m, n, p
    <3>1. (\A b \in Agents, q \in Processes : Installing(b) /\ HasBlock(q) =>
              top[q] < hi[b] * Low \/ (hi[b] + 1) * Low <= ids[q])'
      BY <1>3, <1>4, <1>41, <2>0, <2>3 DEF Apart, HasBlock
    <3>2. (\A q, r \in Processes : q # r /\ HasBlock(q) /\ HasBlock(r) =>
              top[q] < ids[r] \/ top[r] < ids[q])'
      BY <1>3, <1>4, <2>0, <2>4 DEF Apart, HasBlock
    <3>3. (\A b, c \in Agents : b # c /\ Installing(b) /\ Installing(c) => hi[b] # hi[c])'
      BY <1>41, <2>0 DEF Apart
    <3> QED BY <3>1, <3>2, <3>3 DEF Apart
  <2> QED BY <2>2, <2>5
<1> QED BY <1>5, <1>6, <1>7, <1>8

LEMMA NextIdKeeps ==
    ASSUME HiloIInv, NEW a \in Agents, NextId(a) PROVE HiloIInv'
<1> USE DEF HiloIInv, HiloInv
<1> DEFINE p == a[1]
           v == IF outer[a] THEN UsedUp ELSE ids[p]
           m == db * Low
<1>0. p \in Processes /\ m \in Nat /\ Low \in Nat /\ Low > 0
  BY AgentProcess, LowPositive DEF HiloTypeOK
<1>1. /\ ids[p] + 1 < top[p] /\ ids[p] \in Int /\ top[p] \in Int
  BY <1>0 DEF NextId, Free, HiloTypeOK
<1>2. \/ HasBlock(p) /\ (unsaved = 0 => top[p] < m)
      \/ ids[p] < -2 /\ top[p] = None /\ failed > 0
  BY <1>0, <1>1 DEF Sources, Below, HasBlock, None
<1>3. /\ ids' = [ids EXCEPT ![p] = @ + 1]
      /\ Give(v)
      /\ at' \in [Agents -> Labels] /\ outer' \in [Agents -> BOOLEAN]
      /\ \A b \in Agents : b # a => at'[b] = at[b]
      /\ at'[a] \notin {"update", "install"}
      /\ UNCHANGED <<db, top, hi, missed, unsaved, failed>>
  BY DEF NextId, Goto, HiloTypeOK, Labels, events
<1>4. /\ ids' \in [Processes -> Int] /\ ids'[p] = ids[p] + 1
      /\ \A q \in Processes : q # p => ids'[q] = ids[q]
      /\ ids'[p] <= top[p]
  BY <1>0, <1>1, <1>3 DEF HiloTypeOK
<1>41. /\ \A q \in Processes : HasBlock(q)' => HasBlock(q)
       /\ \A b \in Agents : Installing(b)' => Installing(b)
  BY <1>1, <1>2, <1>3, <1>4 DEF HasBlock, Installing
<1>5. v \in Int /\ (v = UsedUp \/ v = ids[p]) /\ UsedUp = -2
  BY <1>0, <1>1, <1>2 DEF UsedUp
<1> HIDE DEF v, m, p
<1>51. v < 0 => v = UsedUp \/ failed > 0
  BY <1>1, <1>2, <1>5 DEF HasBlock
<1>52. v >= 0 => v = ids[p] /\ HasBlock(p) /\ (unsaved = 0 => v < m)
  BY <1>0, <1>1, <1>2, <1>5 DEF HasBlock
<1>6. /\ given' \in [Id -> Nat]
      /\ \A i \in Id : i # v => given'[i] = given[i]
      /\ \A i \in Id : i = v /\ given[i] = 0 => given'[i] = 1
  <2>1. given \in [Id -> Nat] /\ given' = [given EXCEPT ![v] = IF @ = 0 \/ v < 0 THEN 1 ELSE 2]
    BY <1>3 DEF HiloTypeOK, Give
  <2> QED BY <2>1
<1>7. HiloTypeOK' /\ Sources'
  <2>1. HiloTypeOK'
    BY <1>3, <1>4, <1>6 DEF HiloTypeOK
  <2>2. (\A b \in Agents : at[b] \in {"update", "install"} =>
            hi[b] \in Nat \/ (hi[b] = None /\ failed > 0))'
    BY <1>3 DEF Sources
  <2>3. (\A q \in Processes :
            IF HasBlock(q) THEN ids[q] <= top[q]
                           ELSE top[q] = None /\ (ids[q] = None \/ failed > 0))'
    BY <1>1, <1>2, <1>3, <1>4 DEF Sources, HasBlock
  <2> QED BY <2>1, <2>2, <2>3 DEF Sources
<1>8. Below'
  <2>1. Reserved'
    <3> SUFFICES ASSUME NEW i \in Id, given'[i] > 0 PROVE i < 0 \/ i < m \/ unsaved > 0
      BY <1>3 DEF Reserved, m
    <3>1. CASE i = v
      BY <1>5, <1>52, <3>1 DEF HiloTypeOK
    <3>2. CASE i # v
      BY <1>6, <3>2 DEF Below, Reserved, m
    <3> QED BY <3>1, <3>2
  <2>2. unsaved = 0 => (\A q \in Processes : HasBlock(q) => top[q] < db * Low)'
    BY <1>3, <1>41 DEF Below
  <2> QED BY <1>3, <1>41, <2>1, <2>2 DEF Below
<1>9. NeverMissed'
  BY <1>3 DEF NeverMissed
<1>10. Exclusive'
  <2> SUFFICES ASSUME ~missed, unsaved = 0 PROVE (Ungiven /\ Apart)'
    BY <1>3 DEF Exclusive
  <2>0. Ungiven /\ Apart
    BY DEF Exclusive
  <2>1. \A b \in Agents : Installing(b) => ~(hi[b] * Low <= v /\ v < (hi[b] + 1) * Low)
    <3> SUFFICES ASSUME NEW b \in Agents, Installing(b)
                 PROVE  ~(hi[b] * Low <= v /\ v < (hi[b] + 1) * Low)
      OBVIOUS
    <3> DEFINE x == hi[b] * Low
               y == (hi[b] + 1) * Low
    <3>1. x \in Nat /\ y \in Nat
      BY <1>0 DEF Installing, HiloTypeOK
    <3>2. HasBlock(p) => top[p] < x \/ y <= ids[p]
      BY <1>0, <2>0 DEF Apart
    <3> HIDE DEF x, y
    <3>3. ~(x <= v /\ v < y)
      BY <1>1, <1>5, <1>52, <3>1, <3>2
    <3> QED BY <3>3 DEF x, y
  <2>2. \A q \in Processes : HasBlock(q)' => ~(ids'[q] <= v /\ v <= top[q])
    <3> SUFFICES ASSUME NEW q \in Processes, HasBlock(q)'
                 PROVE  ~(ids'[q] <= v /\ v <= top[q])
      OBVIOUS
    <3>1. CASE q = p
      BY <1>1, <1>4, <1>5, <1>52, <3>1 DEF HasBlock
    <3>2. CASE q # p
      <4>1. HasBlock(q) /\ ids'[q] = ids[q] /\ ids[q] >= 0
        BY <1>4, <3>2 DEF HasBlock
      <4>2. HasBlock(p) => top[q] < ids[p] \/ top[p] < ids[q]
        BY <1>0, <2>0, <3>2, <4>1 DEF Apart
      <4>3. ids[q] \in Int /\ top[q] \in Int
        BY DEF HiloTypeOK
      <4> QED BY <1>1, <1>5, <1>52, <4>1, <4>2, <4>3
    <3> QED BY <3>1, <3>2
  <2>3. Ungiven'
    <3>1. (\A b \in Agents : Installing(b) =>
             \A i \in Id : hi[b] * Low <= i /\ i < (hi[b] + 1) * Low => given[i] = 0)'
      BY <1>3, <1>41, <1>6, <2>0, <2>1 DEF Ungiven
    <3>2. \A q \in Processes : HasBlock(q)' =>
             \A i \in Id : ids'[q] <= i /\ i <= top[q] => given[i] = 0
      <4>1. \A i \in Id : i \in Int
        BY IdsAreIntegers
      <4>2. HasBlock(p) => \A i \in Id : ids[p] <= i /\ i <= top[p] => given[i] = 0
        BY <1>0, <2>0 DEF Ungiven
      <4>3. HasBlock(p) => \A i \in Id : ids'[p] <= i /\ i <= top[p] => given[i] = 0
        BY <1>1, <1>4, <4>1, <4>2
      <4> QED BY <1>4, <1>41, <2>0, <4>3 DEF Ungiven
    <3>3. (\A q \in Processes : HasBlock(q) =>
             \A i \in Id : ids[q] <= i /\ i <= top[q] => given[i] = 0)'
      BY <1>3, <1>6, <2>2, <3>2
    <3> QED BY <3>1, <3>3 DEF Ungiven
  <2>4. Apart'
    <3>1. (\A b \in Agents, q \in Processes : Installing(b) /\ HasBlock(q) =>
              top[q] < hi[b] * Low \/ (hi[b] + 1) * Low <= ids[q])'
      <4> SUFFICES ASSUME NEW b \in Agents, NEW q \in Processes, Installing(b)', HasBlock(q)'
                   PROVE  top[q] < hi[b] * Low \/ (hi[b] + 1) * Low <= ids'[q]
        BY <1>3
      <4>1. Installing(b) /\ HasBlock(q)
        BY <1>41
      <4>2. CASE q = p
        <5> DEFINE y == (hi[b] + 1) * Low
        <5>1. y \in Nat /\ (top[p] < hi[b] * Low \/ y <= ids[p])
          BY <1>0, <2>0, <4>1, <4>2 DEF Apart, Installing, HiloTypeOK
        <5> HIDE DEF y
        <5>2. top[p] < hi[b] * Low \/ y <= ids'[p]
          BY <1>1, <1>4, <5>1
        <5> QED BY <4>2, <5>2 DEF y
      <4>3. CASE q # p
        BY <1>4, <2>0, <4>1, <4>3 DEF Apart
      <4> QED BY <4>2, <4>3
    <3>2. (\A q, r \in Processes : q # r /\ HasBlock(q) /\ HasBlock(r) =>
              top[q] < ids[r] \/ top[r] < ids[q])'
      <4>1. \A q \in Processes : ids[q] \in Int /\ top[q] \in Int
        BY DEF HiloTypeOK
      <4> QED BY <1>1, <1>3, <1>4, <1>41, <2>0, <4>1 DEF Apart
    <3>3. (\A b, c \in Agents : b # c /\ Installing(b) /\ Installing(c) => hi[b] # hi[c])'
      BY <1>3, <1>41, <2>0 DEF Apart
    <3> QED BY <3>1, <3>2, <3>3 DEF Apart
  <2> QED BY <2>3, <2>4
<1>11. Once'
  <2> SUFFICES ASSUME ~missed, ~(unsaved > 0), NEW i \in Id, ~(i < 0), given'[i] > 1 PROVE FALSE
    BY <1>3 DEF Once
  <2>1. CASE i = v
    <3>1. i = ids[p] /\ HasBlock(p) /\ ids[p] <= i /\ i <= top[p]
      BY <1>1, <1>5, <1>52, <2>1
    <3>2. unsaved = 0
      BY DEF HiloTypeOK
    <3>3. given[i] = 0
      BY <1>0, <3>1, <3>2 DEF Exclusive, Ungiven
    <3> QED BY <1>6, <2>1, <3>3
  <2>2. CASE i # v
    BY <1>6, <2>2 DEF Once
  <2> QED BY <2>1, <2>2
<1>12. Negative'
  <2> SUFFICES ASSUME NEW i \in Id, given'[i] > 0, i < 0 PROVE i = UsedUp \/ failed > 0
    BY <1>3 DEF Negative
  <2>1. CASE i = v
    BY <1>51, <2>1
  <2>2. CASE i # v
    BY <1>6, <2>2 DEF Negative
  <2> QED BY <2>1, <2>2
<1> QED BY <1>7, <1>8, <1>9, <1>10, <1>11, <1>12

\* A restart forgets blocks and reservations; what is left stays apart.
LEMMA RestartKeeps ==
    ASSUME HiloIInv, NEW p \in Processes, Restart(p) PROVE HiloIInv'
<1> USE DEF HiloIInv, HiloInv
<1>1. /\ ids' = [ids EXCEPT ![p] = None] /\ top' = [top EXCEPT ![p] = None]
      /\ at' = [a \in Agents |-> IF a[1] = p THEN "closed" ELSE at[a]]
      /\ hi' = [a \in Agents |-> IF a[1] = p THEN None ELSE hi[a]]
      /\ outer' = [a \in Agents |-> IF a[1] = p THEN FALSE ELSE outer[a]]
      /\ UNCHANGED <<db, given, missed, unsaved, failed>>
  BY DEF Restart, events
<1>2. None \in Int /\ None < 0
  BY DEF None
<1>3. /\ ids' \in [Processes -> Int] /\ ids'[p] = None
      /\ \A q \in Processes : q # p => ids'[q] = ids[q]
  BY <1>1, <1>2 DEF HiloTypeOK
<1>4. /\ top' \in [Processes -> Int] /\ top'[p] = None
      /\ \A q \in Processes : q # p => top'[q] = top[q]
  BY <1>1, <1>2 DEF HiloTypeOK
<1>5. at' \in [Agents -> Labels] /\ hi' \in [Agents -> Int] /\ outer' \in [Agents -> BOOLEAN]
  BY <1>1, <1>2 DEF HiloTypeOK, Labels
<1>6. \A b \in Agents : at'[b] = "closed" \/ (at'[b] = at[b] /\ hi'[b] = hi[b])
  BY <1>1
<1>7. /\ \A b \in Agents : Installing(b)' => Installing(b) /\ hi'[b] = hi[b]
      /\ \A q \in Processes : HasBlock(q)' => q # p /\ HasBlock(q)
  BY <1>2, <1>3, <1>6 DEF Installing, HasBlock
<1>8. HiloTypeOK'
  BY <1>1, <1>3, <1>4, <1>5 DEF HiloTypeOK
<1>9. Sources'
  BY <1>1, <1>2, <1>3, <1>4, <1>6 DEF Sources, HasBlock
<1>10. Below'
  BY <1>1, <1>4, <1>6, <1>7 DEF Below, Reserved
<1>11. NeverMissed' /\ Once' /\ Negative'
  BY <1>1, <1>6 DEF NeverMissed, Once, Negative
<1>12. Exclusive'
  BY <1>1, <1>3, <1>4, <1>7 DEF Exclusive, Ungiven, Apart
<1> QED BY <1>8, <1>9, <1>10, <1>11, <1>12

-----------------------------------------------------------------------------
(* The invariant *)

LEMMA HiloInitImplies == HiloAssumption /\ HiloInit => HiloIInv
<1> SUFFICES ASSUME HiloAssumption, HiloInit PROVE HiloIInv
  OBVIOUS
<1>1. HiloTypeOK
  <2>1. None \in Int
    BY DEF None
  <2>2. at \in [Agents -> Labels] /\ outer \in [Agents -> BOOLEAN]
    BY DEF HiloInit, Labels
  <2> QED BY <2>1, <2>2 DEF HiloInit, HiloTypeOK
<1>2. Sources /\ Below
  BY DEF HiloInit, Sources, Below, Installing, HasBlock, Reserved, None
<1>3. NeverMissed /\ Exclusive /\ Once /\ Negative
  BY DEF HiloInit, NeverMissed, Exclusive, Once, Negative, Ungiven, Apart, Installing,
         HasBlock, None
<1> QED BY <1>1, <1>2, <1>3 DEF HiloIInv, HiloInv

LEMMA HiloNextImplies == HiloIInv /\ [HiloNext]_hiloVars => HiloIInv'
<1> SUFFICES ASSUME HiloIInv, [HiloNext]_hiloVars PROVE HiloIInv'
  OBVIOUS
<1>1. CASE UNCHANGED hiloVars
  BY <1>1, HiloUnmoved DEF hiloVars, HiloIInv, HiloInv, HiloTypeOK
<1>2. ASSUME NEW a \in Agents, OpenSource(a) \/ Reserve(a) \/ Insert(a) \/ NextId(a)
                              \/ NextUsedUp(a) \/ CloseSource(a) PROVE HiloIInv'
  BY <1>2, QuietKeeps, NextInSequenceKeeps, SelectHiKeeps, UpdateHiKeeps, InstallBlockKeeps,
     InstallNegativeKeeps, NextIdKeeps DEF Reserve
<1>3. ASSUME NEW p \in Processes, Restart(p) PROVE HiloIInv'
  BY <1>3, RestartKeeps
<1> QED BY <1>1, <1>2, <1>3 DEF HiloNext

\* Blocks held in memory, read from the row or reserved do not meet, whatever the
\* processes do and whenever one restarts: HiloIInv holds in every reachable state.
THEOREM HiloInductive == HiloAssumption /\ HiloSpec => []HiloIInv
  BY HiloInitImplies, HiloNextImplies, PTL DEF HiloSpec

\* The variables keep their types.
THEOREM HiloTypeCorrect == HiloAssumption /\ HiloSpec => []HiloTypeOK
<1>1. HiloIInv => HiloTypeOK
  BY DEF HiloIInv, HiloInv
<1> QED BY <1>1, HiloInductive, PTL

\* No identifier from 0 on goes to two entities, whatever reservations overlap,
\* whenever a process restarts and whichever queries fail, unless an update of
\* the table row missed or failed; one that is in use lies below every block the
\* database has still to give; and a negative one comes from a used-up block
\* (-2) or from a query that failed.
THEOREM UniqueHolds == HiloAssumption /\ HiloSpec => []Unique
<1>1. HiloIInv => Unique
  BY DEF HiloIInv, HiloInv, Below, Unique
<1> QED BY <1>1, HiloInductive, PTL

\* With a sequence no identifier from 0 on is ever given twice, also when queries
\* fail and processes restart; only negative ones are (-2 of a used-up block, and
\* those of a block from -1 after a failed query).
THEOREM SequenceIsUnique ==
    HiloAssumption /\ EntityType = "sequence" /\ HiloSpec
        => [](\A i \in Id : i >= 0 => given[i] <= 1 /\ (given[i] > 0 => i < db * Low))
<1>1. HiloIInv /\ EntityType = "sequence" =>
        \A i \in Id : i >= 0 => given[i] <= 1 /\ (given[i] > 0 => i < db * Low)
  <2> SUFFICES ASSUME HiloIInv, EntityType = "sequence", NEW i \in Id, i >= 0
               PROVE  given[i] <= 1 /\ (given[i] > 0 => i < db * Low)
    OBVIOUS
  <2>1. ~missed /\ unsaved = 0 /\ given[i] \in Nat /\ i \in Int
    BY IdsAreIntegers DEF HiloIInv, HiloInv, NeverMissed, HiloTypeOK
  <2>2. given[i] <= 1
    BY <2>1 DEF HiloIInv, HiloInv, Once
  <2>3. given[i] > 0 => i < db * Low
    BY <2>1 DEF HiloIInv, HiloInv, Below, Reserved
  <2> QED BY <2>2, <2>3
<1>2. EntityType = "sequence" /\ [HiloNext]_hiloVars => (EntityType = "sequence")'
  OBVIOUS
<1> QED BY <1>1, <1>2, HiloInductive, PTL DEF HiloSpec
===============================================================================
