------------------------------ MODULE CacheMap ------------------------------
(***************************************************************************)
(* The distributed cache: threads of an application that call it through a *)
(* connection they share (DistoCacheClientUtils, PooledDistoCacheConnec-   *)
(* tionFactory), one server thread per connection that runs one query      *)
(* after the other (DistoCacheServiceHandler::run), and CacheMap, whose    *)
(* methods are interleaved between any two of their critical sections.     *)
(*                                                                         *)
(* A container and its mutex are created together and share a number.      *)
(* valueLocks is read without the mutex that its writers hold; a read that *)
(* overlaps a write, a look-up that yields a null pointer and a use of     *)
(* freed memory are undefined: the model stops there, with `undefined'.    *)
(***************************************************************************)
EXTENDS CacheContainers

CONSTANTS Callers, Conns,
          Home,      \* [Callers -> Conns]: the connection a caller is given
          Keys,
          Plans,
          Commands,  \* [Plans -> [Callers -> the commands it may send]]
          MaxCalls,  \* [Plans -> Nat]: bound on the calls of one caller
          MaxObjects, \* bound: how many containers can be made
          NoConn

ASSUME CallersAssumption ==
  /\ Home \in [Callers -> Conns]
  /\ MaxCalls \in [Plans -> Nat] /\ MaxObjects \in Nat
  /\ \A p \in Plans : DOMAIN Commands[p] = Callers
  /\ \A p \in Plans : \A t \in Callers : \A cmd \in Commands[p][t] :
       DOMAIN cmd = {"op", "key", "n", "v", "r"} /\ cmd.key \in Keys /\ cmd.op \in Ops
  /\ NoConn \notin Conns

Objects == 1..MaxObjects

VARIABLES
  plan,        \* what the application uses the cache for
  cacheMap,    \* [Keys -> Objects or 0]; valueLocks has the same entries
  valueTypes,  \* [Keys -> Types or ""]
  heap,        \* [Objects -> the container: its type and its elements]
  freed,       \* the objects deallocate has deleted
  owner,       \* [Objects -> the connection whose thread holds its mutex]
  made,        \* how many objects exist
  objCacheMap, \* [Keys -> value or NoValue]
  mutex,       \* the thread that changes the maps, or NoConn
  srv,         \* [Conns -> state of its server thread]
  cli,         \* [Callers -> state of the caller]
  undefined,
  disturbed    \* history: the threads whose query a change of the maps overlaps

maps == <<cacheMap, valueTypes, made, freed>>
vars == <<plan, maps, heap, owner, objCacheMap, mutex, srv, cli, undefined, disturbed>>

Idle == [pc |-> "idle", cmd |-> NoValue, obj |-> 0, lock |-> 0, type |-> "",
         sized |-> FALSE, msg |-> "", value |-> NoValue]

NewBox(type) == [type |-> type, val |-> <<>>]

Init == /\ plan \in Plans
        /\ cacheMap = [k \in Keys |-> 0]
        /\ valueTypes = [k \in Keys |-> ""]
        /\ heap = [o \in Objects |-> NewBox("")]
        /\ freed = {}
        /\ owner = [o \in Objects |-> NoConn]
        /\ made = 0
        /\ objCacheMap = [k \in Keys |-> NoValue]
        /\ mutex = NoConn
        /\ srv = [c \in Conns |-> Idle]
        /\ cli = [t \in Callers |-> [pc |-> "idle", cmd |-> NoValue, calls |-> 0,
                                     ok |-> TRUE, value |-> NoValue]]
        /\ undefined = FALSE
        /\ disturbed = {}

-----------------------------------------------------------------------------
\* The caller.  Every connection of the pool is free for ever (inUse is never
\* set), so all threads of a process share one, and its lock is held from the
\* send to the last byte of the response.

Call(t) == \E cmd \in Commands[plan][t] :
  /\ cli[t].pc = "idle" /\ cli[t].calls < MaxCalls[plan]
  /\ cli' = [cli EXCEPT ![t].pc = "waiting", ![t].cmd = Query(cmd), ![t].calls = @ + 1]
  /\ UNCHANGED <<maps, heap, owner, objCacheMap, mutex, srv, undefined, disturbed>>

Send(t) ==
  /\ cli[t].pc = "waiting"
  /\ \A u \in Callers : Home[u] = Home[t] => cli[u].pc # "calling"
  /\ cli' = [cli EXCEPT ![t].pc = "calling"]
  /\ srv' = [srv EXCEPT ![Home[t]] = [Idle EXCEPT !.pc = "exists", !.cmd = cli[t].cmd]]
  /\ disturbed' = IF mutex = NoConn THEN disturbed ELSE disturbed \cup {Home[t]}
  /\ UNCHANGED <<maps, heap, owner, objCacheMap, mutex, undefined>>

\* readValueOrThrowExp throws whatever is not SUCCESS, and deletes the response.
\* isEmpty reads its answer from the deleted response: any value may come.
Receive(t) ==
  LET r == srv[Home[t]]
  IN /\ cli[t].pc = "calling" /\ r.pc = "answer"
     /\ \E value \in Read(cli[t].cmd, r.msg = "SUCCESS", r.value) :
          cli' = [cli EXCEPT ![t].pc = "idle", ![t].cmd = NoValue,
                             ![t].ok = r.msg = "SUCCESS", ![t].value = value]
     /\ srv' = [srv EXCEPT ![Home[t]] = Idle]
     /\ disturbed' = disturbed \ {Home[t]}
     /\ UNCHANGED <<maps, heap, owner, objCacheMap, mutex, undefined>>

-----------------------------------------------------------------------------
\* The server thread of connection c.

\* A positional command runs CacheMap::size first.
Sizing(s) == s.cmd.op \in Positional /\ ~s.sized
Doing(s) == IF Sizing(s) THEN [s.cmd EXCEPT !.op = "size"] ELSE s.cmd

Answer(s, msg, value) == [s EXCEPT !.pc = "answer", !.msg = msg, !.value = value]
\* Mutant: the catch clause forgets to set responseMsg.
ThrowForgotten(s, msg) == Answer(s, "SUCCESS", NoValue)
Throw(s, msg) == Answer(s, Caught(s.cmd.op, msg), NoValue)
Goto(c, s) == srv' = [srv EXCEPT ![c] = s]

Undefined == /\ undefined' = TRUE
             /\ UNCHANGED <<maps, heap, owner, objCacheMap, mutex, srv, cli, disturbed>>

ObjectEntry(c) ==
  LET s == srv[c]  k == s.cmd.key  v == objCacheMap[k]
  IN /\ s.pc = "exists" /\ s.cmd.op \in ObjectOps
     /\ objCacheMap' = CASE s.cmd.op = "addobj" -> [objCacheMap EXCEPT ![k] = s.cmd.v]
                         [] s.cmd.op = "removeobj" -> [objCacheMap EXCEPT ![k] = NoValue]
                         [] OTHER -> objCacheMap
     /\ Goto(c, IF s.cmd.op # "getobj" THEN Answer(s, "SUCCESS", NoValue)
                ELSE IF v = NoValue THEN Throw(s, "ERR_NOVALUEFOUND")
                ELSE Answer(s, "SUCCESS", v))
     /\ UNCHANGED <<maps, heap, owner, mutex, cli, undefined, disturbed>>

\* checkExistance of allocate and deallocate.
Existance(c) ==
  LET s == srv[c]  exists == cacheMap[s.cmd.key] # 0
  IN /\ s.pc = "exists" /\ s.cmd.op \in {"allocate", "deallocate"} /\ mutex = NoConn
     /\ Goto(c, CASE s.cmd.op = "allocate" /\ exists -> Throw(s, "ERR_ALLOCENTEXISTS")
                  [] s.cmd.op = "allocate" /\ ~exists /\ s.cmd.v \notin Types
                       -> Throw(s, "ERR_INVCONTAINER")
                  [] s.cmd.op = "deallocate" /\ ~exists -> Throw(s, "ERR_NOKEYCACHEMAP")
                  [] OTHER -> [s EXCEPT !.pc = "change"])
     /\ UNCHANGED <<maps, heap, owner, objCacheMap, mutex, cli, undefined, disturbed>>

EnterChange(c) == /\ srv[c].pc = "change" /\ mutex = NoConn
                  /\ mutex' = c
                  /\ srv' = [srv EXCEPT ![c].pc = "changing"]
                  /\ disturbed' = disturbed \cup {d \in Conns \ {c} : srv[d].pc # "idle"}
                  /\ UNCHANGED <<maps, heap, owner, objCacheMap, cli, undefined>>

\* Mutant: the maps' mutex is not released.
AllocateKeepsMutex(c) ==
  LET s == srv[c]
  IN /\ s.pc = "changing" /\ s.cmd.op = "allocate"
     /\ made < MaxObjects /\ made' = made + 1
     /\ cacheMap' = [cacheMap EXCEPT ![s.cmd.key] = made + 1]
     /\ valueTypes' = [valueTypes EXCEPT ![s.cmd.key] = s.cmd.v]
     /\ heap' = [heap EXCEPT ![made + 1] = NewBox(s.cmd.v)]
     /\ Goto(c, Answer(s, "SUCCESS", NoValue))
     /\ UNCHANGED <<mutex, freed, owner, objCacheMap, cli, undefined, disturbed>>

\* The maps' new entries of allocate, on top of whatever is there by now.
Allocate(c) ==
  LET s == srv[c]
  IN /\ s.pc = "changing" /\ s.cmd.op = "allocate"
     /\ made < MaxObjects /\ made' = made + 1
     /\ cacheMap' = [cacheMap EXCEPT ![s.cmd.key] = made + 1]
     /\ valueTypes' = [valueTypes EXCEPT ![s.cmd.key] = s.cmd.v]
     /\ heap' = [heap EXCEPT ![made + 1] = NewBox(s.cmd.v)]
     /\ mutex' = NoConn
     /\ Goto(c, Answer(s, "SUCCESS", NoValue))
     /\ UNCHANGED <<freed, owner, objCacheMap, cli, undefined, disturbed>>

Deallocate(c) ==
  LET s == srv[c]
  IN /\ s.pc = "changing" /\ s.cmd.op = "deallocate"
     /\ freed' = freed \cup ({cacheMap[s.cmd.key]} \ {0})
     /\ cacheMap' = [cacheMap EXCEPT ![s.cmd.key] = 0]
     /\ valueTypes' = [valueTypes EXCEPT ![s.cmd.key] = ""]
     /\ mutex' = NoConn
     /\ Goto(c, Answer(s, "SUCCESS", NoValue))
     /\ UNCHANGED <<heap, made, owner, objCacheMap, cli, undefined, disturbed>>

\* Mutant: a key without an entry is not refused.
ExistanceUnchecked(c) ==
  LET s == srv[c]
  IN /\ s.pc = "exists" /\ s.cmd.op \notin ObjectOps \cup {"allocate", "deallocate"}
     /\ mutex = NoConn
     /\ Goto(c, [s EXCEPT !.pc = "fetch", !.type = valueTypes[s.cmd.key]])
     /\ UNCHANGED <<maps, heap, owner, objCacheMap, mutex, cli, undefined, disturbed>>

\* checkExistance with a type, or checkExistanceAndGetType and the dispatch.
ExistanceAndType(c) ==
  LET s == srv[c]  op == Doing(s).op  type == valueTypes[s.cmd.key]
  IN /\ s.pc = "exists" /\ s.cmd.op \notin ObjectOps \cup {"allocate", "deallocate"}
     /\ mutex = NoConn
     /\ Goto(c, CASE cacheMap[s.cmd.key] = 0 -> Throw(s, Absent(op))
                  [] cacheMap[s.cmd.key] # 0 /\ type \notin Accepts(op) -> Throw(s, Refusal(op, type))
                  [] OTHER -> [s EXCEPT !.pc = "fetch", !.type = type])
     /\ UNCHANGED <<maps, heap, owner, objCacheMap, mutex, cli, undefined, disturbed>>

\* cacheMap[cacheKey], in a critical section of its own.
Fetch(c) ==
  LET s == srv[c]  o == cacheMap[s.cmd.key]
  IN /\ s.pc = "fetch" /\ mutex = NoConn
     /\ IF o = 0 THEN Undefined
        ELSE /\ Goto(c, [s EXCEPT !.pc = "lookup", !.obj = o])
             /\ UNCHANGED <<maps, heap, owner, objCacheMap, mutex, cli, undefined, disturbed>>

\* valueLocks[cacheKey] of the call of lock.
LookUp(c) ==
  LET s == srv[c]  l == cacheMap[s.cmd.key]
  IN /\ s.pc = "lookup"
     /\ \/ l # 0 /\ Goto(c, [s EXCEPT !.pc = "acquire", !.lock = l])
                 /\ UNCHANGED <<maps, heap, owner, objCacheMap, mutex, cli, undefined, disturbed>>
        \/ (l = 0 \/ mutex # NoConn) /\ Undefined

Acquire(c) ==
  LET s == srv[c]
  IN /\ s.pc = "acquire"
     /\ IF s.lock \in freed THEN Undefined
        ELSE /\ owner[s.lock] = NoConn
             /\ owner' = [owner EXCEPT ![s.lock] = c]
             /\ Goto(c, [s EXCEPT !.pc = "body"])
             /\ UNCHANGED <<maps, heap, objCacheMap, mutex, cli, undefined, disturbed>>

\* The method's work; an exception thrown inside leaves without an unlock.  The
\* pointer was cast to the type that was read before it.
Work(c) ==
  LET s == srv[c]
      cmd == Doing(s)
      e == Body(cmd, s.type, heap[s.obj].val)
  IN /\ s.pc = "body"
     /\ IF s.obj \in freed \/ heap[s.obj].type # s.type THEN Undefined
        ELSE /\ heap' = [heap EXCEPT ![s.obj].val = e.val]
             /\ Goto(c, IF ThrowsLocked(cmd, e) THEN Throw(s, e.msg)
                        ELSE [s EXCEPT !.pc = "unlock", !.msg = e.msg, !.value = e.value])
             /\ UNCHANGED <<maps, owner, objCacheMap, mutex, cli, undefined, disturbed>>

\* The handler goes on with the method's return or exception.
AfterCall(s) ==
  CASE Sizing(s) /\ InRange(s.cmd, s.value)
         -> [s EXCEPT !.pc = "exists", !.sized = TRUE, !.obj = 0, !.lock = 0, !.value = NoValue]
    [] Sizing(s) /\ ~InRange(s.cmd, s.value) -> Answer(s, RangeError(s.cmd, s.value), NoValue)
    [] ~Sizing(s) /\ s.msg # "SUCCESS" -> Throw(s, s.msg)
    [] OTHER -> Answer(s, s.msg, s.value)

\* valueLocks[cacheKey], looked up a second time, and its unlock.
Unlock(c) ==
  LET s == srv[c]  l == cacheMap[s.cmd.key]
  IN /\ s.pc = "unlock"
     /\ \/ /\ l = s.lock
           /\ owner' = [owner EXCEPT ![l] = NoConn]
           /\ Goto(c, AfterCall(s))
           /\ UNCHANGED <<maps, heap, objCacheMap, mutex, cli, undefined, disturbed>>
        \/ (l # s.lock \/ mutex # NoConn) /\ Undefined

ServerStep(c) == \/ ObjectEntry(c) \/ Existance(c) \/ EnterChange(c) \/ Allocate(c)
                 \/ Deallocate(c) \/ ExistanceAndType(c) \/ Fetch(c) \/ LookUp(c)
                 \/ Acquire(c) \/ Work(c) \/ Unlock(c)

Next == /\ ~undefined /\ UNCHANGED plan
        /\ \/ \E t \in Callers : Call(t) \/ Send(t) \/ Receive(t)
           \/ \E c \in Conns : ServerStep(c)

\* The server's threads and the callers' run on; no mutex is released and
\* taken again for ever, since the calls are bounded.
Fairness == /\ \A c \in Conns : WF_vars(~undefined /\ UNCHANGED plan /\ ServerStep(c))
            /\ \A t \in Callers :
                 WF_vars(~undefined /\ UNCHANGED plan /\ (Send(t) \/ Receive(t)))

Spec == Init /\ [][Next]_vars
FairSpec == Spec /\ Fairness

-----------------------------------------------------------------------------
Inside(c) == srv[c].pc \in {"body", "unlock"}

\* Nothing is undefined unless an allocate or deallocate of another caller
\* overlaps a query that is being served: the methods' unlocked look-ups and
\* the pointers they keep are safe while the set of containers is at rest,
\* however often it changed before.
UndefinedOnlyByOverlap == undefined => disturbed # {}

\* A container's mutex is held by a thread that has gone on to other things.
Abandoned == \E o \in Objects :
  owner[o] # NoConn /\ ~(Inside(owner[o]) /\ srv[owner[o]].lock = o)

\* Every call returns, through the lock of the connection, the maps' mutex and
\* the container's, unless one of the three map methods has thrown with the
\* container's mutex locked: then whoever calls it next waits for ever.
EveryCallReturns == \A t \in Callers :
  (cli[t].pc # "idle") ~> (cli[t].pc = "idle" \/ undefined \/ Abandoned)

-----------------------------------------------------------------------------
\* The refinement: a call takes effect when its method does its work.

Decided(s) == \/ s.pc = "answer"
              \/ s.pc = "unlock" /\ (Sizing(s) => ~InRange(s.cmd, s.value))

StageOf(t) == CASE cli[t].pc = "idle" -> "idle"
                [] cli[t].pc = "calling" /\ Decided(srv[Home[t]]) -> "applied"
                [] OTHER -> "called"

Reported(s) == IF Sizing(s) \/ s.msg # "SUCCESS" THEN [ok |-> FALSE, value |-> NoValue]
                                                  ELSE [ok |-> TRUE, value |-> s.value]
ResultOf(t) == IF StageOf(t) = "applied" THEN Reported(srv[Home[t]])
               ELSE [ok |-> cli[t].ok, value |-> cli[t].value]

Boxes == [k \in Keys |-> IF cacheMap[k] = 0 THEN NewBox("") ELSE heap[cacheMap[k]]]
Calls == [t \in Callers |-> [stage |-> StageOf(t), cmd |-> cli[t].cmd]]
Results == [t \in Callers |-> ResultOf(t)]

AllCommands == [t \in Callers |-> UNION {Commands[p][t] : p \in Plans}]

Atomic == INSTANCE AtomicContainers WITH
  Commands <- AllCommands,
  boxes <- Boxes, objects <- objCacheMap, call <- Calls, result <- Results

\* A thread whose check no longer holds: the entry it is about to make is there
\* by now, or the one it is about to delete is gone, or the container it works
\* on was replaced by a second allocate (and is never freed).
Overtaken(c) ==
  LET s == srv[c]  o == cacheMap[s.cmd.key]
  IN \/ s.pc = "changing" /\ (s.cmd.op = "allocate" <=> o # 0)
     \/ s.pc = "body" /\ s.obj \notin freed \cup {o}

\* All that its step changes for the callers is its own key and its own call.
Stray(c) ==
  /\ Overtaken(c) /\ UNCHANGED objCacheMap
  /\ \A k \in Keys : k # srv[c].cmd.key => Boxes'[k] = Boxes[k]
  /\ \A t \in Callers : Home[t] # c => Calls'[t] = Calls[t] /\ Results'[t] = Results[t]

\* The calls of all callers look as if each took effect at one moment, although
\* CacheMap's check, fetch, lock, work and unlock are separate critical sections,
\* and a call that reports an error has changed nothing.  The exception is the
\* moment at which a thread acts on a check that was overtaken: two allocates of
\* one key that both found no entry, of which the second replaces the container
\* that calls have already changed, and two deallocates that both found one.
\* Every other step, before and after, is atomic.  What is applied is the query
\* the client sends, which pushes at the other end (Query).
Implements == Atomic!AInit /\ [][Atomic!ANext \/ \E c \in Conns : Stray(c)]_(Atomic!avars)
=============================================================================
