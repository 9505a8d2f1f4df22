--------------------------- MODULE CacheMapProofs ---------------------------
(***************************************************************************)
(* Proofs about CacheMap, for any number of callers, connections and keys  *)
(* and any commands, and at the end about MemoryCache, for any keys and    *)
(* any size.                                                               *)
(***************************************************************************)
EXTENDS Caches, FiniteSetTheorems, SequenceTheorems, TLAPS

-----------------------------------------------------------------------------
(* The inductive invariant *)

Pcs     == {"idle", "exists", "change", "changing", "fetch", "lookup", "acquire",
            "body", "unlock", "answer"}
Locking == {"acquire", "body", "unlock"}

IsCommand(cmd) == /\ DOMAIN cmd = {"op", "key", "n", "v", "r"}
                  /\ cmd.key \in Keys /\ cmd.op \in Ops
Slots == {"pc", "cmd", "obj", "lock", "type", "sized", "msg", "value"}

\* What a caller sends and holds, what a server thread keeps.
IsCaller(u) == /\ DOMAIN u = {"pc", "cmd", "calls", "ok", "value"}
               /\ u.pc # "idle" => IsCommand(u.cmd)
IsThread(s) == /\ DOMAIN s = Slots /\ s.pc \in Pcs
               /\ s.pc # "idle" => IsCommand(s.cmd)

TypeOK ==
  /\ plan \in Plans
  /\ made \in 0 .. MaxObjects
  /\ cacheMap \in [Keys -> 0 .. made] /\ DOMAIN valueTypes = Keys
  /\ freed \subseteq 1 .. made
  /\ mutex \in Conns \cup {NoConn}
  /\ disturbed \subseteq Conns
  /\ DOMAIN owner = Objects
  /\ DOMAIN heap = Objects /\ \A o \in Objects : DOMAIN heap[o] = {"type", "val"}
  /\ DOMAIN cli = Callers /\ \A t \in Callers : IsCaller(cli[t])
  /\ DOMAIN srv = Conns
  /\ \A c \in Conns : /\ IsThread(srv[c])
                      /\ srv[c].pc \in Locking => srv[c].lock \in 1 .. made

\* A thread works only for a caller that waits for it: nobody sends it a second
\* query.
Called == \A c \in Conns : srv[c].pc # "idle" =>
            \E t \in Callers : Home[t] = c /\ cli[t].pc = "calling"

\* The maps' mutex is held by the thread that changes them, and every other query
\* that is being served meanwhile is recorded as disturbed.
Changer == \A c \in Conns : srv[c].pc = "changing" <=> mutex = c
Watched == \A c \in Conns : mutex \notin {NoConn, c} /\ srv[c].pc # "idle" => c \in disturbed

\* Keys do not share a container, the maps hold no freed one, and valueTypes is the
\* type it was made with.
Live == /\ \A k, l \in Keys : cacheMap[k] = cacheMap[l] /\ cacheMap[k] # 0 => k = l
        /\ \A k \in Keys : cacheMap[k] \notin freed
        /\ \A k \in Keys : cacheMap[k] # 0 => heap[cacheMap[k]].type = valueTypes[k]

\* What a thread has read of the maps is what they still say.
Steady(s) ==
  LET o == cacheMap[s.cmd.key]
  IN /\ s.pc \in {"fetch", "lookup"} \cup Locking => o # 0 /\ s.type = valueTypes[s.cmd.key]
     /\ s.pc \in {"lookup"} \cup Locking => s.obj = o
     /\ s.pc \in Locking => s.lock = o
Undisturbed == \A c \in Conns : c \notin disturbed => Steady(srv[c])

IInv == /\ TypeOK /\ Called /\ Changer /\ Watched /\ Live /\ Undisturbed
        /\ UndefinedOnlyByOverlap

\* Containers keep their types.
SameTypes == /\ DOMAIN heap' = Objects
             /\ \A o \in Objects : DOMAIN heap'[o] = DOMAIN heap[o] /\ heap'[o].type = heap[o].type

LEMMA IdleFields == DOMAIN Idle = Slots /\ Idle.pc = "idle"
  BY DEF Idle, Slots

\* An entry of the maps is a container that was made.
LEMMA MapsPoint ==
  ASSUME IInv
  PROVE  \A k \in Keys : cacheMap[k] # 0 => cacheMap[k] \in 1 .. made /\ cacheMap[k] \in Objects
  BY CallersAssumption DEF IInv, TypeOK, Objects

LEMMA SameHeap == ASSUME IInv, heap' = heap PROVE SameTypes
  BY DEF IInv, TypeOK, SameTypes

-----------------------------------------------------------------------------
(* Steps of a server thread that leave the maps alone *)

\* The thread goes on with the same query.
LEMMA Goes ==
  ASSUME IInv, NEW c \in Conns, srv[c].pc \notin {"idle", "changing"},
         NEW z, Goto(c, z), DOMAIN z = Slots, z.cmd = srv[c].cmd,
         z.pc \in Pcs \ {"idle", "changing"},
         c \notin disturbed => Steady(z),
         z.pc \in Locking => z.lock \in 1 .. made,
         UNCHANGED <<plan, maps, mutex, cli, undefined, disturbed>>,
         DOMAIN owner' = Objects, SameTypes
  PROVE  IInv'
<1>1. /\ srv'[c] = z /\ DOMAIN srv' = Conns
      /\ \A d \in Conns : d # c => srv'[d] = srv[d]
  BY DEF Goto, IInv, TypeOK
<1>2. UNCHANGED <<cacheMap, valueTypes, made, freed>>
  BY DEF maps
<1>3. IsThread(z)
  BY DEF IsThread, IInv, TypeOK
<1>4. TypeOK'
  BY <1>1, <1>2, <1>3 DEF IInv, TypeOK, SameTypes
<1>5. Called'
  BY <1>1 DEF IInv, Called
<1>6. Changer' /\ Watched'
  BY <1>1 DEF IInv, Changer, Watched
<1>7. Live' /\ UndefinedOnlyByOverlap'
  <2>1. \A k \in Keys : cacheMap[k] # 0 => cacheMap[k] \in Objects
    BY MapsPoint
  <2> QED BY <1>2, <2>1 DEF IInv, Live, UndefinedOnlyByOverlap, SameTypes
<1>8. Undisturbed'
  BY <1>1, <1>2 DEF IInv, Undisturbed, Steady
<1> QED BY <1>4, <1>5, <1>6, <1>7, <1>8 DEF IInv

\* A query ends in an answer.
LEMMA Answers ==
  ASSUME IInv, NEW c \in Conns, srv[c].pc \notin {"idle", "changing"}, NEW msg, NEW value,
         Goto(c, Answer(srv[c], msg, value)),
         UNCHANGED <<plan, maps, mutex, cli, undefined, disturbed>>,
         DOMAIN owner' = Objects, SameTypes
  PROVE  IInv'
<1> DEFINE z == Answer(srv[c], msg, value)
<1>1. DOMAIN z = Slots /\ z.cmd = srv[c].cmd /\ z.pc = "answer"
  BY DEF Answer, IInv, TypeOK, IsThread, Slots
<1> HIDE DEF z
<1>2. Steady(z) /\ z.pc \notin Locking /\ z.pc \in Pcs \ {"idle", "changing"}
  BY <1>1 DEF Steady, Locking, Pcs
<1>3. Goto(c, z)
  BY DEF z
<1> QED BY <1>1, <1>2, <1>3, Goes

\* An undefined step is one of a query that a change of the maps overlaps.
LEMMA Undefines ==
  ASSUME IInv, NEW c \in disturbed, Undefined, UNCHANGED plan
  PROVE  IInv'
<1>1. undefined' /\ UNCHANGED <<plan, cacheMap, valueTypes, made, freed, heap, owner, mutex, srv,
                                cli, disturbed>>
  BY DEF Undefined, maps
<1> QED BY <1>1 DEF IInv, TypeOK, Called, Changer, Watched, Live, Undisturbed, Steady,
                    UndefinedOnlyByOverlap

LEMMA Looks ==
  ASSUME IInv, ~undefined, NEW c \in Conns, UNCHANGED plan,
         ObjectEntry(c) \/ Existance(c) \/ ExistanceAndType(c)
  PROVE  IInv'
<1> DEFINE s == srv[c]
<1>1. s.pc = "exists" /\ UNCHANGED <<plan, maps, heap, owner, mutex, cli, undefined, disturbed>>
  BY DEF ObjectEntry, Existance, ExistanceAndType
<1>2. DOMAIN s = Slots /\ DOMAIN owner' = Objects /\ s.cmd.key \in Keys /\ SameTypes
  BY <1>1, SameHeap DEF IInv, TypeOK, IsThread, IsCommand
<1>3. \/ \E msg, value : Goto(c, Answer(s, msg, value))
      \/ Goto(c, [s EXCEPT !.pc = "change"])
      \/ /\ cacheMap[s.cmd.key] # 0
         /\ Goto(c, [s EXCEPT !.pc = "fetch", !.type = valueTypes[s.cmd.key]])
  <2>1. CASE ObjectEntry(c)
    BY <2>1 DEF ObjectEntry, Throw
  <2>2. CASE Existance(c)
    BY <2>2 DEF Existance, Throw
  <2>3. CASE ExistanceAndType(c)
    BY <2>3 DEF ExistanceAndType, Throw
  <2> QED BY <2>1, <2>2, <2>3
<1>4. CASE \E msg, value : Goto(c, Answer(s, msg, value))
  BY <1>1, <1>2, <1>4, Answers
<1>5. CASE Goto(c, [s EXCEPT !.pc = "change"])
  <2> DEFINE z == [s EXCEPT !.pc = "change"]
  <2>1. DOMAIN z = Slots /\ z.cmd = s.cmd /\ z.pc = "change"
    BY <1>2 DEF Slots
  <2>2. Steady(z) /\ z.pc \notin Locking /\ z.pc \in Pcs \ {"idle", "changing"}
    BY <2>1 DEF Steady, Locking, Pcs
  <2> QED BY <1>1, <1>2, <1>5, <2>1, <2>2, Goes
<1>6. CASE /\ cacheMap[s.cmd.key] # 0
           /\ Goto(c, [s EXCEPT !.pc = "fetch", !.type = valueTypes[s.cmd.key]])
  <2> DEFINE z == [s EXCEPT !.pc = "fetch", !.type = valueTypes[s.cmd.key]]
  <2>1. DOMAIN z = Slots /\ z.cmd = s.cmd /\ z.pc = "fetch" /\ z.type = valueTypes[s.cmd.key]
    BY <1>2 DEF Slots
  <2> HIDE DEF z
  <2>2. Steady(z) /\ z.pc \notin Locking /\ z.pc \in Pcs \ {"idle", "changing"}
    BY <1>6, <2>1 DEF Steady, Locking, Pcs
  <2>3. Goto(c, z)
    BY <1>6 DEF z
  <2> QED BY <1>1, <1>2, <2>1, <2>2, <2>3, Goes
<1> QED BY <1>3, <1>4, <1>5, <1>6

\* A query that reads the maps while another thread changes them is disturbed.
LEMMA Overlapped ==
  ASSUME IInv, NEW c \in Conns, srv[c].pc \notin {"idle", "changing"}, mutex # NoConn
  PROVE  c \in disturbed
  BY DEF IInv, Changer, Watched

LEMMA FetchKeeps ==
  ASSUME IInv, ~undefined, NEW c \in Conns, UNCHANGED plan, Fetch(c)
  PROVE  IInv'
<1> DEFINE s == srv[c]
           o == cacheMap[s.cmd.key]
<1>1. s.pc = "fetch" /\ DOMAIN s = Slots
  BY DEF Fetch, IInv, TypeOK, IsThread
<1>2. CASE o = 0
  <2>1. c \in disturbed
    BY <1>1, <1>2 DEF IInv, Undisturbed, Steady
  <2> QED BY <1>2, <2>1, Undefines DEF Fetch
<1>3. CASE o # 0
  <2> DEFINE z == [s EXCEPT !.pc = "lookup", !.obj = o]
  <2>1. /\ Goto(c, z)
        /\ UNCHANGED <<plan, maps, heap, owner, mutex, cli, undefined, disturbed>>
    BY <1>3 DEF Fetch
  <2>2. /\ DOMAIN z = Slots /\ z.cmd = s.cmd /\ z.pc = "lookup" /\ z.obj = o
        /\ z.type = s.type
    BY <1>1 DEF Slots
  <2> HIDE DEF z
  <2>3. /\ c \notin disturbed => Steady(z)
        /\ z.pc \notin Locking /\ z.pc \in Pcs \ {"idle", "changing"}
    BY <1>1, <1>3, <2>2 DEF IInv, Undisturbed, Steady, Locking, Pcs
  <2>4. DOMAIN owner' = Objects /\ SameTypes
    BY <2>1, SameHeap DEF IInv, TypeOK
  <2> QED BY <1>1, <2>1, <2>2, <2>3, <2>4, Goes
<1> QED BY <1>2, <1>3

LEMMA LookUpKeeps ==
  ASSUME IInv, ~undefined, NEW c \in Conns, UNCHANGED plan, LookUp(c)
  PROVE  IInv'
<1> DEFINE s == srv[c]
           o == cacheMap[s.cmd.key]
<1>1. s.pc = "lookup" /\ DOMAIN s = Slots /\ s.cmd.key \in Keys
  BY DEF LookUp, IInv, TypeOK, IsThread, IsCommand
<1>2. CASE (o = 0 \/ mutex # NoConn) /\ Undefined
  <2>1. CASE o = 0
    <3>1. c \in disturbed
      BY <1>1, <2>1 DEF IInv, Undisturbed, Steady
    <3> QED BY <1>2, <3>1, Undefines
  <2>2. CASE mutex # NoConn
    BY <1>1, <1>2, <2>2, Overlapped, Undefines
  <2> QED BY <1>2, <2>1, <2>2
<1>3. CASE /\ o # 0 /\ Goto(c, [s EXCEPT !.pc = "acquire", !.lock = o])
           /\ UNCHANGED <<maps, heap, owner, objCacheMap, mutex, cli, undefined, disturbed>>
  <2> DEFINE z == [s EXCEPT !.pc = "acquire", !.lock = o]
  <2>1. o \in 1 .. made
    BY <1>1, <1>3 DEF IInv, TypeOK
  <2>2. /\ DOMAIN z = Slots /\ z.cmd = s.cmd /\ z.pc = "acquire" /\ z.obj = s.obj /\ z.lock = o
        /\ z.type = s.type
    BY <1>1 DEF Slots
  <2>3. Goto(c, z)
    BY <1>3
  <2> HIDE DEF z
  <2>4. c \notin disturbed => Steady(z)
    <3>1. c \notin disturbed => s.obj = o /\ s.type = valueTypes[s.cmd.key]
      BY <1>1 DEF IInv, Undisturbed, Steady
    <3> QED BY <1>3, <2>2, <3>1 DEF Steady
  <2>5. z.pc \in Pcs \ {"idle", "changing"}
    BY <2>2 DEF Pcs
  <2>6. DOMAIN owner' = Objects /\ SameTypes
    BY <1>3, SameHeap DEF IInv, TypeOK
  <2> QED BY <1>1, <1>3, <2>1, <2>2, <2>3, <2>4, <2>5, <2>6, Goes
<1> QED BY <1>2, <1>3 DEF LookUp

LEMMA AcquireKeeps ==
  ASSUME IInv, ~undefined, NEW c \in Conns, UNCHANGED plan, Acquire(c)
  PROVE  IInv'
<1> DEFINE s == srv[c]
<1>1. s.pc = "acquire" /\ DOMAIN s = Slots /\ s.cmd.key \in Keys /\ s.lock \in 1 .. made
  BY DEF Acquire, IInv, TypeOK, IsThread, IsCommand, Locking
<1>2. CASE s.lock \in freed
  <2>1. c \in disturbed
    BY <1>1, <1>2 DEF IInv, Undisturbed, Steady, Locking, Live
  <2> QED BY <1>2, <2>1, Undefines DEF Acquire
<1>3. CASE s.lock \notin freed
  <2> DEFINE z == [s EXCEPT !.pc = "body"]
  <2>1. /\ Goto(c, z) /\ owner' = [owner EXCEPT ![s.lock] = c]
        /\ UNCHANGED <<plan, maps, heap, mutex, cli, undefined, disturbed>>
    BY <1>3 DEF Acquire
  <2>2. /\ DOMAIN z = Slots /\ z.cmd = s.cmd /\ z.pc = "body" /\ z.obj = s.obj /\ z.lock = s.lock
        /\ z.type = s.type
    BY <1>1 DEF Slots
  <2> HIDE DEF z
  <2>4. c \notin disturbed => Steady(z)
    BY <1>1, <2>2 DEF IInv, Undisturbed, Steady, Locking
  <2>5. z.pc \in Pcs \ {"idle", "changing"}
    BY <2>2 DEF Pcs
  <2>6. DOMAIN owner' = Objects /\ SameTypes
    BY <2>1, SameHeap DEF IInv, TypeOK
  <2> QED BY <1>1, <2>1, <2>2, <2>4, <2>5, <2>6, Goes
<1> QED BY <1>2, <1>3

LEMMA WorkKeeps ==
  ASSUME IInv, ~undefined, NEW c \in Conns, UNCHANGED plan, Work(c)
  PROVE  IInv'
<1> DEFINE s == srv[c]
           e == Body(Doing(s), s.type, heap[s.obj].val)
<1>1. s.pc = "body" /\ DOMAIN s = Slots /\ s.cmd.key \in Keys /\ s.lock \in 1 .. made
  BY DEF Work, IInv, TypeOK, IsThread, IsCommand, Locking
<1>2. CASE s.obj \in freed \/ heap[s.obj].type # s.type
  <2>1. c \in disturbed
    BY <1>1, <1>2 DEF IInv, Undisturbed, Steady, Locking, Live
  <2> QED BY <1>2, <2>1, Undefines DEF Work
<1>3. CASE ~(s.obj \in freed \/ heap[s.obj].type # s.type)
  <2>1. /\ Goto(c, IF ThrowsLocked(Doing(s), e) THEN Throw(s, e.msg)
                   ELSE [s EXCEPT !.pc = "unlock", !.msg = e.msg, !.value = e.value])
        /\ heap' = [heap EXCEPT ![s.obj].val = e.val]
        /\ UNCHANGED <<plan, maps, owner, mutex, cli, undefined, disturbed>>
    BY <1>3 DEF Work
  <2> HIDE DEF e
  <2>2. DOMAIN owner' = Objects /\ SameTypes
    BY <2>1 DEF IInv, TypeOK, SameTypes
  <2>3. CASE ThrowsLocked(Doing(s), e)
    <3>1. Goto(c, Answer(s, Caught(s.cmd.op, e.msg), NoValue))
      BY <2>1, <2>3 DEF Throw
    <3> QED BY <1>1, <2>1, <2>2, <3>1, Answers
  <2>4. CASE ~ThrowsLocked(Doing(s), e)
    <3> DEFINE z == [s EXCEPT !.pc = "unlock", !.msg = e.msg, !.value = e.value]
    <3>1. /\ DOMAIN z = Slots /\ z.cmd = s.cmd /\ z.pc = "unlock" /\ z.obj = s.obj
          /\ z.lock = s.lock /\ z.type = s.type
      BY <1>1 DEF Slots
    <3>2. Goto(c, z)
      BY <2>1, <2>4
    <3> HIDE DEF z
    <3>3. c \notin disturbed => Steady(z)
      BY <1>1, <3>1 DEF IInv, Undisturbed, Steady, Locking
    <3>4. z.pc \in Pcs \ {"idle", "changing"}
      BY <3>1 DEF Pcs
    <3> QED BY <1>1, <2>1, <2>2, <3>1, <3>2, <3>3, <3>4, Goes
  <2> QED BY <2>3, <2>4
<1> QED BY <1>2, <1>3

LEMMA UnlockKeeps ==
  ASSUME IInv, ~undefined, NEW c \in Conns, UNCHANGED plan, Unlock(c)
  PROVE  IInv'
<1> DEFINE s == srv[c]
           l == cacheMap[s.cmd.key]
<1>1. s.pc = "unlock" /\ DOMAIN s = Slots
  BY DEF Unlock, IInv, TypeOK, IsThread
<1>2. CASE (l # s.lock \/ mutex # NoConn) /\ Undefined
  <2>1. CASE l # s.lock
    <3>1. c \in disturbed
      BY <1>1, <2>1 DEF IInv, Undisturbed, Steady, Locking
    <3> QED BY <1>2, <3>1, Undefines
  <2>2. CASE mutex # NoConn
    BY <1>1, <1>2, <2>2, Overlapped, Undefines
  <2> QED BY <1>2, <2>1, <2>2
<1>3. CASE /\ owner' = [owner EXCEPT ![l] = NoConn] /\ Goto(c, AfterCall(s))
           /\ UNCHANGED <<maps, heap, objCacheMap, mutex, cli, undefined, disturbed>>
  <2>1. DOMAIN owner' = Objects /\ SameTypes
    BY <1>3, SameHeap DEF IInv, TypeOK
  <2>2. \/ \E msg, value : AfterCall(s) = Answer(s, msg, value)
        \/ AfterCall(s) = [s EXCEPT !.pc = "exists", !.sized = TRUE, !.obj = 0, !.lock = 0,
                                    !.value = NoValue]
    BY DEF AfterCall, Throw
  <2>3. CASE \E msg, value : AfterCall(s) = Answer(s, msg, value)
    BY <1>1, <1>3, <2>1, <2>3, Answers
  <2>4. CASE AfterCall(s) = [s EXCEPT !.pc = "exists", !.sized = TRUE, !.obj = 0, !.lock = 0,
                                      !.value = NoValue]
    <3> DEFINE z == [s EXCEPT !.pc = "exists", !.sized = TRUE, !.obj = 0, !.lock = 0,
                              !.value = NoValue]
    <3>1. DOMAIN z = Slots /\ z.cmd = s.cmd /\ z.pc = "exists"
      BY <1>1 DEF Slots
    <3>2. Goto(c, z)
      BY <1>3, <2>4
    <3> HIDE DEF z
    <3>3. Steady(z) /\ z.pc \notin Locking /\ z.pc \in Pcs \ {"idle", "changing"}
      BY <3>1 DEF Steady, Locking, Pcs
    <3> QED BY <1>1, <1>3, <2>1, <3>1, <3>2, <3>3, Goes
  <2> QED BY <2>2, <2>3, <2>4
<1> QED BY <1>2, <1>3 DEF Unlock

-----------------------------------------------------------------------------
(* Steps that change the maps *)

LEMMA EnterChangeKeeps ==
  ASSUME IInv, ~undefined, NEW c \in Conns, UNCHANGED plan, EnterChange(c)
  PROVE  IInv'
<1>1. /\ srv[c].pc = "change" /\ mutex = NoConn /\ mutex' = c
      /\ srv' = [srv EXCEPT ![c].pc = "changing"]
      /\ disturbed' = disturbed \cup {d \in Conns \ {c} : srv[d].pc # "idle"}
      /\ UNCHANGED <<plan, cacheMap, valueTypes, made, freed, heap, owner, cli, undefined>>
  BY DEF EnterChange, maps
<1>2. /\ DOMAIN srv' = Conns /\ DOMAIN srv'[c] = Slots
      /\ srv'[c].pc = "changing" /\ srv'[c].cmd = srv[c].cmd
      /\ \A d \in Conns : d # c => srv'[d] = srv[d]
  BY <1>1 DEF IInv, TypeOK, IsThread, Slots
<1>3. \A d \in Conns : srv[d].pc # "changing"
  BY <1>1, CallersAssumption DEF IInv, Changer
<1>4. TypeOK'
  <2>1. IsThread(srv'[c]) /\ srv'[c].pc \notin Locking
    BY <1>1, <1>2 DEF IInv, TypeOK, IsThread, Pcs, Locking
  <2>2. disturbed' \subseteq Conns /\ mutex' \in Conns \cup {NoConn}
    BY <1>1 DEF IInv, TypeOK
  <2> QED BY <1>1, <1>2, <2>1, <2>2 DEF IInv, TypeOK
<1>5. Called'
  BY <1>1, <1>2 DEF IInv, Called
<1>6. Changer' /\ Watched'
  BY <1>1, <1>2, <1>3 DEF Changer, Watched
<1>7. Live' /\ UndefinedOnlyByOverlap'
  BY <1>1 DEF IInv, Live, UndefinedOnlyByOverlap
<1>8. Undisturbed'
  BY <1>1, <1>2 DEF IInv, Undisturbed, Steady, Locking
<1> QED BY <1>4, <1>5, <1>6, <1>7, <1>8 DEF IInv

\* While a thread changes the maps no other query is undisturbed.
LEMMA ChangeEnds ==
  ASSUME IInv, ~undefined, NEW c \in Conns, srv[c].pc = "changing",
         Goto(c, Answer(srv[c], "SUCCESS", NoValue)),
         UNCHANGED <<plan, owner, cli, undefined, disturbed>>, mutex' = NoConn,
         made' \in 0 .. MaxObjects, made <= made', cacheMap' \in [Keys -> 0 .. made'],
         freed' \subseteq 1 .. made', DOMAIN valueTypes' = Keys, DOMAIN heap' = Objects,
         \A o \in Objects : DOMAIN heap'[o] = {"type", "val"}, Live'
  PROVE  IInv'
<1> DEFINE z == Answer(srv[c], "SUCCESS", NoValue)
<1>1. DOMAIN z = Slots /\ z.cmd = srv[c].cmd /\ z.pc = "answer"
  BY DEF Answer, IInv, TypeOK, IsThread, Slots
<1>2. srv' = [srv EXCEPT ![c] = z]
  BY DEF Goto
<1> HIDE DEF z
<1>3. /\ srv'[c] = z /\ DOMAIN srv' = Conns
      /\ \A d \in Conns : d # c => srv'[d] = srv[d]
  BY <1>2 DEF IInv, TypeOK
<1>4. mutex = c /\ \A d \in Conns : d # c => srv[d].pc = "idle" \/ d \in disturbed
  BY CallersAssumption DEF IInv, Changer, Watched
<1>5. TypeOK'
  <2>1. IsThread(z) /\ z.pc \notin Locking
    BY <1>1 DEF IInv, TypeOK, IsThread, Pcs, Locking
  <2>2. made \in Nat /\ made' \in Nat
    BY CallersAssumption DEF IInv, TypeOK
  <2>3. \A d \in Conns : srv[d].pc \in Locking => srv[d].lock \in 1 .. made'
    BY <2>2 DEF IInv, TypeOK
  <2> QED BY <1>3, <2>1, <2>3 DEF IInv, TypeOK
<1>6. Called'
  BY <1>1, <1>3 DEF IInv, Called
<1>7. Changer' /\ Watched'
  BY <1>1, <1>3, <1>4, CallersAssumption DEF IInv, Changer, Watched
<1>8. UndefinedOnlyByOverlap'
  BY DEF IInv, UndefinedOnlyByOverlap
<1>9. Undisturbed'
  BY <1>1, <1>3, <1>4 DEF Undisturbed, Steady, Locking
<1> QED BY <1>5, <1>6, <1>7, <1>8, <1>9 DEF IInv

LEMMA AllocateKeeps ==
  ASSUME IInv, ~undefined, NEW c \in Conns, UNCHANGED plan, Allocate(c)
  PROVE  IInv'
<1> DEFINE k == srv[c].cmd.key
<1>1. /\ srv[c].pc = "changing" /\ made < MaxObjects /\ made' = made + 1 /\ freed' = freed
      /\ cacheMap' = [cacheMap EXCEPT ![k] = made + 1]
      /\ valueTypes' = [valueTypes EXCEPT ![k] = srv[c].cmd.v]
      /\ heap' = [heap EXCEPT ![made + 1] = NewBox(srv[c].cmd.v)]
      /\ mutex' = NoConn /\ Goto(c, Answer(srv[c], "SUCCESS", NoValue))
      /\ UNCHANGED <<plan, owner, cli, undefined, disturbed>>
  BY DEF Allocate
<1>2. /\ k \in Keys /\ made \in Nat /\ MaxObjects \in Nat /\ made \in 0 .. MaxObjects
      /\ cacheMap \in [Keys -> 0 .. made] /\ freed \subseteq 1 .. made
  BY <1>1, CallersAssumption DEF IInv, TypeOK, IsThread, IsCommand
<1> HIDE DEF k
<1>3. made' \in 0 .. MaxObjects /\ made <= made'
  BY <1>1, <1>2
<1>4. cacheMap' \in [Keys -> 0 .. made'] /\ freed' \subseteq 1 .. made'
  BY <1>1, <1>2
<1>5. /\ cacheMap'[k] = made + 1 /\ made + 1 \notin freed
      /\ \A l \in Keys : l # k => cacheMap'[l] = cacheMap[l] /\ cacheMap[l] # made + 1
  BY <1>1, <1>2
<1>6. /\ DOMAIN valueTypes' = Keys /\ valueTypes'[k] = srv[c].cmd.v
      /\ \A l \in Keys : l # k => valueTypes'[l] = valueTypes[l]
  BY <1>1, <1>2 DEF IInv, TypeOK
<1>7. /\ made + 1 \in Objects /\ DOMAIN heap' = Objects /\ heap'[made + 1] = NewBox(srv[c].cmd.v)
      /\ \A o \in Objects : o # made + 1 => heap'[o] = heap[o]
  BY <1>1, <1>2 DEF IInv, TypeOK, Objects
<1>8. \A o \in Objects : DOMAIN heap'[o] = {"type", "val"}
  BY <1>7 DEF IInv, TypeOK, NewBox
<1>9. Live'
  <2>1. \A l, m \in Keys : cacheMap'[l] = cacheMap'[m] /\ cacheMap'[l] # 0 => l = m
    BY <1>5 DEF IInv, Live
  <2>2. \A l \in Keys : cacheMap'[l] \notin freed'
    BY <1>1, <1>5 DEF IInv, Live
  <2>3. \A l \in Keys : cacheMap'[l] # 0 => heap'[cacheMap'[l]].type = valueTypes'[l]
    BY <1>5, <1>6, <1>7, MapsPoint DEF IInv, Live, NewBox
  <2> QED BY <2>1, <2>2, <2>3 DEF Live
<1> QED BY <1>1, <1>3, <1>4, <1>6, <1>7, <1>8, <1>9, ChangeEnds

LEMMA DeallocateKeeps ==
  ASSUME IInv, ~undefined, NEW c \in Conns, UNCHANGED plan, Deallocate(c)
  PROVE  IInv'
<1> DEFINE k == srv[c].cmd.key
<1>1. /\ srv[c].pc = "changing" /\ made' = made
      /\ freed' = freed \cup ({cacheMap[k]} \ {0})
      /\ cacheMap' = [cacheMap EXCEPT ![k] = 0]
      /\ valueTypes' = [valueTypes EXCEPT ![k] = ""] /\ heap' = heap
      /\ mutex' = NoConn /\ Goto(c, Answer(srv[c], "SUCCESS", NoValue))
      /\ UNCHANGED <<plan, owner, cli, undefined, disturbed>>
  BY DEF Deallocate
<1>2. /\ k \in Keys /\ made \in Nat /\ made \in 0 .. MaxObjects
      /\ cacheMap \in [Keys -> 0 .. made] /\ freed \subseteq 1 .. made
  <2>1. made \in 0 .. MaxObjects /\ MaxObjects \in Nat
    BY CallersAssumption DEF IInv, TypeOK
  <2>2. k \in Keys
    BY <1>1 DEF IInv, TypeOK, IsThread, IsCommand
  <2> QED BY <2>1, <2>2 DEF IInv, TypeOK
<1> HIDE DEF k
<1>3. cacheMap' \in [Keys -> 0 .. made'] /\ freed' \subseteq 1 .. made' /\ made <= made'
  <2>1. cacheMap[k] \in 0 .. made /\ 0 \in 0 .. made /\ made <= made
    BY <1>2
  <2>2. {cacheMap[k]} \ {0} \subseteq 1 .. made
    BY <1>2, <2>1
  <2>3. cacheMap' \in [Keys -> 0 .. made]
    BY <1>1, <1>2, <2>1, Zenon
  <2> QED BY <1>1, <1>2, <2>1, <2>2, <2>3
<1>4. /\ cacheMap'[k] = 0 /\ DOMAIN valueTypes' = Keys
      /\ \A l \in Keys : l # k => cacheMap'[l] = cacheMap[l] /\ valueTypes'[l] = valueTypes[l]
  BY <1>1, <1>2 DEF IInv, TypeOK
<1>5. 0 \notin freed'
  <2>1. 0 \notin freed
    BY <1>2
  <2> QED BY <1>1, <2>1
<1>6. Live'
  <2>1. \A l, m \in Keys : cacheMap'[l] = cacheMap'[m] /\ cacheMap'[l] # 0 => l = m
    BY <1>4 DEF IInv, Live
  <2>2. \A l \in Keys : cacheMap'[l] \notin freed'
    BY <1>1, <1>2, <1>4, <1>5 DEF IInv, Live
  <2>3. \A l \in Keys : cacheMap'[l] # 0 => heap'[cacheMap'[l]].type = valueTypes'[l]
    <3> SUFFICES ASSUME NEW l \in Keys, cacheMap'[l] # 0
                 PROVE  heap'[cacheMap'[l]].type = valueTypes'[l]
      OBVIOUS
    <3>1. l # k /\ cacheMap'[l] = cacheMap[l] /\ valueTypes'[l] = valueTypes[l]
      BY <1>4
    <3>2. heap' = heap
      BY <1>1
    <3>3. cacheMap[l] # 0 => heap[cacheMap[l]].type = valueTypes[l]
      BY DEF IInv, Live
    <3> QED BY <3>1, <3>2, <3>3
  <2> QED BY <2>1, <2>2, <2>3 DEF Live
<1>7. DOMAIN heap' = Objects /\ \A o \in Objects : DOMAIN heap'[o] = {"type", "val"}
  BY <1>1 DEF IInv, TypeOK
<1> QED BY <1>1, <1>2, <1>3, <1>4, <1>6, <1>7, ChangeEnds

-----------------------------------------------------------------------------
(* Steps of a caller *)

\* The client's query is a command for the same key.
LEMMA QueryIsCommand ==
  ASSUME NEW x, IsCommand(x)
  PROVE  IsCommand(Query(x))
<1>1. CASE x.op = "pushback"
  BY <1>1 DEF IsCommand, Query, Ops
<1>2. CASE x.op = "pushfront"
  BY <1>2 DEF IsCommand, Query, Ops
<1>3. CASE x.op \notin {"pushback", "pushfront"}
  BY <1>3 DEF Query
<1> QED BY <1>1, <1>2, <1>3

LEMMA CallKeeps ==
  ASSUME IInv, ~undefined, NEW t \in Callers, UNCHANGED plan, Call(t)
  PROVE  IInv'
<1>0. PICK x \in Commands[plan][t] :
        /\ cli[t].pc = "idle"
        /\ cli' = [cli EXCEPT ![t].pc = "waiting", ![t].cmd = Query(x), ![t].calls = @ + 1]
        /\ UNCHANGED <<cacheMap, valueTypes, made, freed, heap, owner, mutex, srv, undefined, disturbed>>
  BY DEF Call, maps
<1> DEFINE cmd == Query(x)
<1>2. IsCommand(cmd)
  <2>1. IsCommand(x)
    BY CallersAssumption DEF IInv, TypeOK, IsCommand
  <2> QED BY <2>1, QueryIsCommand
<1>1. /\ cli[t].pc = "idle"
      /\ cli' = [cli EXCEPT ![t].pc = "waiting", ![t].cmd = cmd, ![t].calls = @ + 1]
      /\ UNCHANGED <<cacheMap, valueTypes, made, freed, heap, owner, mutex, srv, undefined, disturbed>>
  BY <1>0
<1> HIDE DEF cmd
<1>3. /\ DOMAIN cli' = Callers /\ cli'[t].pc = "waiting" /\ cli'[t].cmd = cmd
      /\ DOMAIN cli'[t] = DOMAIN cli[t]
      /\ \A u \in Callers : u # t => cli'[u] = cli[u]
  BY <1>1 DEF IInv, TypeOK, IsCaller
<1>4. \A u \in Callers : IsCaller(cli'[u])
  BY <1>2, <1>3 DEF IInv, TypeOK, IsCaller
<1>5. TypeOK'
  BY <1>1, <1>3, <1>4 DEF IInv, TypeOK
<1>6. Called'
  BY <1>1, <1>3 DEF IInv, Called
<1>7. Changer' /\ Watched' /\ Live' /\ UndefinedOnlyByOverlap' /\ Undisturbed'
  BY <1>1 DEF IInv, Changer, Watched, Live, UndefinedOnlyByOverlap, Undisturbed, Steady
<1> QED BY <1>5, <1>6, <1>7 DEF IInv

LEMMA SendKeeps ==
  ASSUME IInv, ~undefined, NEW t \in Callers, UNCHANGED plan, Send(t)
  PROVE  IInv'
<1> DEFINE c == Home[t]
           z == [Idle EXCEPT !.pc = "exists", !.cmd = cli[t].cmd]
<1>1. /\ cli[t].pc = "waiting" /\ \A u \in Callers : Home[u] = c => cli[u].pc # "calling"
      /\ cli' = [cli EXCEPT ![t].pc = "calling"]
      /\ srv' = [srv EXCEPT ![c] = z]
      /\ disturbed' = IF mutex = NoConn THEN disturbed ELSE disturbed \cup {c}
      /\ UNCHANGED <<cacheMap, valueTypes, made, freed, heap, owner, mutex, undefined>>
  BY DEF Send, maps
<1>2. c \in Conns
  BY CallersAssumption
<1>3. srv[c].pc = "idle" /\ mutex # c
  BY <1>1, <1>2 DEF IInv, Called, Changer
<1>4. DOMAIN z = Slots /\ z.pc = "exists" /\ z.cmd = cli[t].cmd
  BY IdleFields DEF Slots
<1> HIDE DEF c, z
<1>5. /\ DOMAIN srv' = Conns /\ srv'[c] = z
      /\ \A d \in Conns : d # c => srv'[d] = srv[d]
  BY <1>1, <1>2 DEF IInv, TypeOK
<1>6. /\ DOMAIN cli' = Callers /\ cli'[t].pc = "calling" /\ cli'[t].cmd = cli[t].cmd
      /\ DOMAIN cli'[t] = DOMAIN cli[t]
      /\ \A u \in Callers : u # t => cli'[u] = cli[u]
  BY <1>1 DEF IInv, TypeOK, IsCaller
<1>7. TypeOK'
  <2>1. IsCommand(cli[t].cmd)
    BY <1>1 DEF IInv, TypeOK, IsCaller
  <2>2. \A u \in Callers : IsCaller(cli'[u])
    BY <1>6, <2>1 DEF IInv, TypeOK, IsCaller
  <2>3. IsThread(z) /\ z.pc \notin Locking
    BY <1>4, <2>1 DEF IsThread, Pcs, Locking
  <2>4. disturbed' \subseteq Conns
    BY <1>1, <1>2 DEF IInv, TypeOK
  <2> QED BY <1>1, <1>5, <1>6, <2>2, <2>3, <2>4 DEF IInv, TypeOK
<1>8. Called'
  <2>1. \A u \in Callers : cli[u].pc = "calling" => cli'[u].pc = "calling"
    BY <1>6
  <2> QED BY <1>5, <1>6, <2>1 DEF IInv, Called, c
<1>9. Changer' /\ Watched'
  BY <1>1, <1>3, <1>4, <1>5 DEF IInv, Changer, Watched
<1>10. Live' /\ UndefinedOnlyByOverlap'
  BY <1>1 DEF IInv, Live, UndefinedOnlyByOverlap
<1>11. Undisturbed'
  <2>1. \A d \in Conns : d \notin disturbed' => d \notin disturbed
    BY <1>1
  <2> QED BY <1>1, <1>4, <1>5, <2>1 DEF IInv, Undisturbed, Steady, Locking
<1> QED BY <1>7, <1>8, <1>9, <1>10, <1>11 DEF IInv

LEMMA ReceiveKeeps ==
  ASSUME IInv, ~undefined, NEW t \in Callers, UNCHANGED plan, Receive(t)
  PROVE  IInv'
<1> DEFINE c == Home[t]
           r == srv[c]
<1>0. PICK value :
        cli' = [cli EXCEPT ![t].pc = "idle", ![t].cmd = NoValue,
                           ![t].ok = r.msg = "SUCCESS", ![t].value = value]
  BY DEF Receive
<1>1. /\ cli[t].pc = "calling" /\ r.pc = "answer"
      /\ srv' = [srv EXCEPT ![c] = Idle]
      /\ disturbed' = disturbed \ {c}
      /\ UNCHANGED <<cacheMap, valueTypes, made, freed, heap, owner, mutex, undefined>>
  BY DEF Receive, maps
<1>2. c \in Conns
  BY CallersAssumption
<1>3. mutex # c
  BY <1>1, <1>2 DEF IInv, Changer
<1> HIDE DEF c, r
<1>5. /\ DOMAIN srv' = Conns /\ srv'[c] = Idle
      /\ \A d \in Conns : d # c => srv'[d] = srv[d]
  BY <1>1, <1>2 DEF IInv, TypeOK
<1>6. /\ DOMAIN cli' = Callers /\ cli'[t].pc = "idle"
      /\ DOMAIN cli'[t] = DOMAIN cli[t]
      /\ \A u \in Callers : u # t => cli'[u] = cli[u]
  BY <1>0, <1>1 DEF IInv, TypeOK, IsCaller
<1>7. TypeOK'
  <2>2. \A u \in Callers : IsCaller(cli'[u])
    BY <1>6 DEF IInv, TypeOK, IsCaller
  <2>3. IsThread(Idle) /\ Idle.pc \notin Locking
    BY IdleFields DEF IsThread, Pcs, Locking
  <2>4. disturbed' \subseteq Conns
    BY <1>1 DEF IInv, TypeOK
  <2> QED BY <1>1, <1>5, <1>6, <2>2, <2>3, <2>4 DEF IInv, TypeOK
<1>8. Called'
  <2> SUFFICES ASSUME NEW d \in Conns, srv'[d].pc # "idle"
               PROVE  \E u \in Callers : Home[u] = d /\ cli'[u].pc = "calling"
    BY DEF Called
  <2>1. d # c /\ srv[d].pc # "idle"
    BY <1>5, IdleFields
  <2>2. PICK u \in Callers : Home[u] = d /\ cli[u].pc = "calling"
    BY <2>1 DEF IInv, Called
  <2>3. u # t
    BY <2>1, <2>2 DEF c
  <2> QED BY <1>6, <2>2, <2>3
<1>9. Changer' /\ Watched'
  BY <1>1, <1>3, <1>5, IdleFields DEF IInv, Changer, Watched
<1>10. Live' /\ UndefinedOnlyByOverlap'
  BY <1>1 DEF IInv, Live, UndefinedOnlyByOverlap
<1>11. Undisturbed'
  BY <1>1, <1>5, IdleFields DEF IInv, Undisturbed, Steady, Locking
<1> QED BY <1>7, <1>8, <1>9, <1>10, <1>11 DEF IInv

-----------------------------------------------------------------------------
(* The theorems *)

LEMMA InitIInv == Init => IInv
<1> SUFFICES ASSUME Init PROVE IInv
  OBVIOUS
<1>1. \A c \in Conns : srv[c] = Idle
  BY DEF Init
<1>2. \A t \in Callers : IsCaller(cli[t])
  BY DEF Init, IsCaller
<1>3. IsThread(Idle) /\ Idle.pc = "idle" /\ Idle.pc \notin Locking
  BY IdleFields DEF IsThread, Pcs, Locking
<1>4. TypeOK
  <2>1. plan \in Plans /\ made = 0 /\ freed = {} /\ mutex = NoConn /\ disturbed = {}
    BY DEF Init
  <2>2. made \in 0 .. MaxObjects /\ 0 \in 0 .. made
    BY <2>1, CallersAssumption
  <2>3. cacheMap \in [Keys -> 0 .. made] /\ DOMAIN valueTypes = Keys
    BY <2>2 DEF Init
  <2>5. DOMAIN heap = Objects /\ \A o \in Objects : DOMAIN heap[o] = {"type", "val"}
    BY DEF Init, NewBox
  <2>4. DOMAIN owner = Objects /\ DOMAIN cli = Callers /\ DOMAIN srv = Conns
    BY DEF Init
  <2> QED BY <1>1, <1>2, <1>3, <2>1, <2>2, <2>3, <2>4, <2>5 DEF TypeOK
<1>5. Called /\ Changer /\ Watched
  BY <1>1, <1>3, CallersAssumption DEF Init, Called, Changer, Watched
<1>6. Live /\ Undisturbed /\ UndefinedOnlyByOverlap
  BY <1>1, <1>3 DEF Init, Live, Undisturbed, Steady, Locking, UndefinedOnlyByOverlap
<1> QED BY <1>4, <1>5, <1>6 DEF IInv

LEMMA NextIInv == IInv /\ [Next]_vars => IInv'
<1> SUFFICES ASSUME IInv, [Next]_vars PROVE IInv'
  OBVIOUS
<1>1. CASE UNCHANGED vars
  BY <1>1 DEF vars, maps, IInv, TypeOK, Called, Changer, Watched, Live, Undisturbed, Steady,
              UndefinedOnlyByOverlap
<1>2. ASSUME ~undefined, UNCHANGED plan, NEW t \in Callers, Call(t) \/ Send(t) \/ Receive(t)
      PROVE  IInv'
  BY <1>2, CallKeeps, SendKeeps, ReceiveKeeps
<1>3. ASSUME ~undefined, UNCHANGED plan, NEW c \in Conns, ServerStep(c)
      PROVE  IInv'
  BY <1>3, Looks, EnterChangeKeeps, AllocateKeeps, DeallocateKeeps, FetchKeeps, LookUpKeeps,
     AcquireKeeps, WorkKeeps, UnlockKeeps DEF ServerStep
<1> QED BY <1>1, <1>2, <1>3 DEF Next

LEMMA Invariance == Spec => []IInv
  BY InitIInv, NextIInv, PTL DEF Spec

\* The variables keep their types; no thread ever locks a mutex that was not made.
THEOREM TypeCorrect == Spec => []TypeOK
<1>1. IInv => TypeOK
  BY DEF IInv
<1> QED BY <1>1, Invariance, PTL

\* Look-ups of valueLocks without its mutex and pointers kept between critical
\* sections are harmful only to a query that an allocate or deallocate overlaps.
THEOREM UndefinedOnlyByOverlapHolds == Spec => []UndefinedOnlyByOverlap
<1>1. IInv => UndefinedOnlyByOverlap
  BY DEF IInv
<1> QED BY <1>1, Invariance, PTL

-----------------------------------------------------------------------------
(* The refinement: a second invariant *)

BodyOps == Ops \ (ObjectOps \cup {"allocate", "deallocate"})
\* A caller that waits for its answer has a connection to itself, and its command is
\* the query that is being served there.
Served ==
  /\ \A t \in Callers : cli[t].pc = "calling" =>
       srv[Home[t]].pc # "idle" /\ srv[Home[t]].cmd = cli[t].cmd
  /\ \A t, u \in Callers :
       cli[t].pc = "calling" /\ cli[u].pc = "calling" /\ Home[t] = Home[u] => t = u

\* A thread that is about to allocate has a type that exists.
Reserves(s) == s.pc \in {"change", "changing"} /\ s.cmd.op = "allocate" => s.cmd.v \in Types
Reserved == \A c \in Conns : Reserves(srv[c])

\* The maps and the containers.
Boxed ==
  /\ \A o \in Objects : heap[o] = [type |-> heap[o].type, val |-> heap[o].val]
  /\ objCacheMap = [k \in Keys |-> objCacheMap[k]]
  /\ \A k \in Keys : cacheMap[k] # 0 => valueTypes[k] \in Types

\* The container a thread works on was made, and is that of no other key.
Kept(s) == s.pc \in {"lookup"} \cup Locking =>
  s.obj \in 1 .. made /\ \A l \in Keys : l # s.cmd.key => cacheMap[l] # s.obj

\* What a thread knows of its command at each point.
Knows(s) ==
  /\ s.sized \in BOOLEAN
  /\ s.pc \in {"fetch", "lookup"} \cup Locking =>
       s.cmd.op \in BodyOps /\ s.type \in Accepts(Doing(s).op)
  /\ s.sized => s.cmd.n >= 0 /\ (s.cmd.op = "insertrep" => s.cmd.r >= 0)
  /\ s.pc = "unlock" /\ Sizing(s) => s.msg = "SUCCESS"
  /\ s.pc = "answer" => /\ Sizing(s) => s.msg # "SUCCESS"
                        /\ s.msg # "SUCCESS" => s.value = NoValue
Aware == \A c \in Conns : srv[c].pc # "idle" => Kept(srv[c]) /\ Knows(srv[c])

RInv == Served /\ Reserved /\ Boxed /\ Aware

-----------------------------------------------------------------------------
(* What the operators of the commands give *)

\* The methods either refuse, without a change, or do their work: a position beyond
\* the end is refused.
LEMMA BodyEffect ==
  ASSUME NEW cmd, NEW type, NEW s, cmd.op \in BodyOps
  PROVE  /\ Body(cmd, type, s).msg # "SUCCESS" => Body(cmd, type, s).val = s
         /\ cmd.op \in Positional /\ ~(cmd.n < Len(s)) => Body(cmd, type, s).msg # "SUCCESS"
<1> DEFINE e == Body(cmd, type, s)
           Good == /\ e.msg # "SUCCESS" => e.val = s
                   /\ cmd.op \in Positional /\ ~(cmd.n < Len(s)) => e.msg # "SUCCESS"
           Works(x) == x.msg = "SUCCESS"
<1>1. \A v, w : Works(Done(v)) /\ Works(Gives(v, w))
  BY DEF Done, Gives, Effect
<1>2. CASE cmd.op \in Positional
  <2>1. ASSUME NEW x, Works(x), e = At(s, cmd.n, x)
        PROVE  Good
    BY <1>2, <2>1 DEF At, Fails, Effect
  <2>2. CASE cmd.op = "insert"
    BY <1>1, <2>1, <2>2 DEF Body, insert
  <2>3. CASE cmd.op = "insertrep"
    BY <1>1, <2>1, <2>3 DEF Body, insertRepeated
  <2>4. CASE cmd.op = "set"
    BY <1>1, <2>1, <2>4 DEF Body, setCollectionEntryAt
  <2>5. CASE cmd.op = "get"
    BY <1>1, <2>1, <2>5 DEF Body, getCollectionEntryAt
  <2>6. CASE cmd.op = "remove"
    BY <1>1, <2>1, <2>6 DEF Body, removeCollectionEntryAt
  <2>7. CASE cmd.op = "getbypos"
    BY <1>1, <2>1, <2>7 DEF Body, getMapEntryValueByPosition
  <2>8. CASE cmd.op = "setmap"
    BY <1>1, <2>1, <2>8 DEF Body, setMapEntryValueByPosition
  <2> HIDE DEF Good
  <2> QED BY <1>2, <2>2, <2>3, <2>4, <2>5, <2>6, <2>7, <2>8 DEF Positional
<1>3. CASE cmd.op \in {"getfront", "getback", "pop", "popget", "popfront", "popback",
                       "popfrontget", "popbackget"}
  <2>1. ASSUME NEW x, Works(x), e = Some(s, x)
        PROVE  Good
    BY <1>3, <2>1 DEF Some, Fails, Effect, Positional
  <2>2. CASE cmd.op = "getfront"
    BY <1>1, <2>1, <2>2 DEF Body, getFrontValue
  <2>3. CASE cmd.op = "getback"
    BY <1>1, <2>1, <2>3 DEF Body, getBackValue
  <2>4. CASE cmd.op = "pop"
    BY <1>1, <2>1, <2>4 DEF Body, popValueQueue
  <2>5. CASE cmd.op = "popget"
    BY <1>1, <2>1, <2>5 DEF Body, popGetValueQueue
  <2>6. CASE cmd.op = "popfront"
    BY <1>1, <2>1, <2>6 DEF Body, popFrontValue
  <2>7. CASE cmd.op = "popback"
    BY <1>1, <2>1, <2>7 DEF Body, popBackValue
  <2>8. CASE cmd.op = "popfrontget"
    BY <1>1, <2>1, <2>8 DEF Body, popGetFrontValue
  <2>9. CASE cmd.op = "popbackget"
    BY <1>1, <2>1, <2>9 DEF Body, popGetBackValue
  <2> HIDE DEF Good
  <2> QED BY <1>3, <2>2, <2>3, <2>4, <2>5, <2>6, <2>7, <2>8, <2>9
<1>4. CASE cmd.op = "getmap"
  BY <1>1, <1>4 DEF Body, getMapEntryValue, Fails, Effect, Positional
<1>5. CASE cmd.op \in {"addmap", "removemap", "add", "pushfront", "pushback", "size", "isempty", "clear"}
  <2>1. Works(e)
    BY <1>1, <1>5 DEF Body, addMapEntry, removeMapEntry, addCollectionEntry, pushFrontValue,
          pushBackValue, size, isEmpty, clear
  <2>2. cmd.op \notin Positional
    BY <1>5 DEF Positional
  <2> QED BY <2>1, <2>2
<1> QED
  BY <1>2, <1>3, <1>4, <1>5 DEF BodyOps, Ops, MapOps, ObjectOps, Positional

LEMMA BodySize ==
  ASSUME NEW cmd, NEW type, NEW s, cmd.op = "size"
  PROVE  Body(cmd, type, s) = [val |-> s, msg |-> "SUCCESS", value |-> Len(s)]
  BY DEF Body, size, Gives, Effect

LEMMA Refusals ==
  ASSUME NEW op, NEW type
  PROVE  Absent(op) # "SUCCESS" /\ Refusal(op, type) # "SUCCESS"
<1>1. Absent(op) # "SUCCESS"
  BY DEF Absent
<1>2. Refusal(op, type) # "SUCCESS"
  BY <1>1 DEF Refusal
<1> QED BY <1>1, <1>2

LEMMA NotSuccess ==
  ASSUME NEW op, NEW msg, msg # "SUCCESS"
  PROVE  Caught(op, msg) # "SUCCESS"
  BY DEF Caught

LEMMA RangeErrors ==
  ASSUME NEW cmd, NEW count
  PROVE  RangeError(cmd, count) # "SUCCESS"
  BY DEF RangeError

\* A thread that has answered, and one that goes on, keep their command.
LEMMA AnswerFields ==
  ASSUME NEW s, DOMAIN s = Slots, NEW msg, NEW value
  PROVE  LET z == Answer(s, msg, value) IN
         /\ DOMAIN z = Slots /\ z.cmd = s.cmd /\ z.pc = "answer" /\ z.sized = s.sized
         /\ z.msg = msg /\ z.value = value
  BY DEF Answer, Slots

\* An answer knows what it must: an error carries no value, and a positional command
\* that has not passed its comparison answers an error.
LEMMA AnswerKnows ==
  ASSUME NEW s, DOMAIN s = Slots, Knows(s), NEW msg, NEW value,
         Sizing(s) => msg # "SUCCESS", msg # "SUCCESS" => value = NoValue
  PROVE  Kept(Answer(s, msg, value)) /\ Knows(Answer(s, msg, value))
<1> DEFINE z == Answer(s, msg, value)
<1>1. /\ z.cmd = s.cmd /\ z.pc = "answer" /\ z.sized = s.sized /\ z.msg = msg /\ z.value = value
  BY AnswerFields
<1> HIDE DEF z
<1>2. Kept(z) /\ Knows(z)
  BY <1>1 DEF Kept, Knows, Sizing, Locking
<1> QED BY <1>2 DEF z

-----------------------------------------------------------------------------
(* A step of a server thread, seen by the callers *)

\* The thread's caller is the one that waits for it.
LEMMA ItsCaller ==
  ASSUME IInv, RInv, NEW c \in Conns, srv[c].pc # "idle"
  PROVE  \E t \in Callers :
           /\ Home[t] = c /\ cli[t].pc = "calling" /\ cli[t].cmd = srv[c].cmd
           /\ \A u \in Callers : u # t => Home[u] # c \/ cli[u].pc # "calling"
<1>1. PICK t \in Callers : Home[t] = c /\ cli[t].pc = "calling"
  BY DEF IInv, Called
<1>2. cli[t].cmd = srv[c].cmd
  BY <1>1 DEF RInv, Served
<1>3. \A u \in Callers : u # t => Home[u] # c \/ cli[u].pc # "calling"
  BY <1>1 DEF RInv, Served
<1> QED BY <1>1, <1>2, <1>3

LEMMA GotoFields ==
  ASSUME IInv, NEW c \in Conns, NEW z, Goto(c, z)
  PROVE  srv'[c] = z /\ DOMAIN srv' = Conns /\ \A d \in Conns : d # c => srv'[d] = srv[d]
  BY DEF Goto, IInv, TypeOK

\* The second invariant after a step that leaves the maps alone.
LEMMA Stays ==
  ASSUME IInv, RInv, NEW c \in Conns, srv[c].pc # "idle", NEW z, Goto(c, z),
         z.cmd = srv[c].cmd, z.pc # "idle", Reserves(z), Kept(z), Knows(z),
         UNCHANGED <<plan, maps, cli>>, Boxed'
  PROVE  RInv'
<1>1. /\ srv'[c] = z /\ DOMAIN srv' = Conns
      /\ \A d \in Conns : d # c => srv'[d] = srv[d]
  BY GotoFields
<1>2. UNCHANGED <<plan, cacheMap, valueTypes, made, freed, cli>>
  BY DEF maps
<1>3. Served'
  <2>1. \A t \in Callers : Home[t] \in Conns
    BY CallersAssumption
  <2> QED BY <1>1, <1>2, <2>1 DEF RInv, Served
<1>4. Reserved'
  BY <1>1, <1>2 DEF RInv, Reserved, Reserves
<1>5. Aware'
  BY <1>1, <1>2 DEF RInv, Aware, Kept, Knows
<1> QED BY <1>3, <1>4, <1>5 DEF RInv

\* The callers see nothing.
LEMMA Stutters ==
  ASSUME IInv, RInv, NEW c \in Conns, srv[c].pc # "idle", NEW z, Goto(c, z),
         Decided(z) <=> Decided(srv[c]), Decided(z) => Reported(z) = Reported(srv[c]),
         UNCHANGED <<cli, objCacheMap>>, Boxes' = Boxes
  PROVE  UNCHANGED Atomic!avars
<1>1. /\ srv'[c] = z /\ \A d \in Conns : d # c => srv'[d] = srv[d]
  BY GotoFields
<1>2. \A t \in Callers : Home[t] \in Conns
  BY CallersAssumption
<1>3. \A d \in Conns : /\ Decided(srv'[d]) <=> Decided(srv[d])
                       /\ Decided(srv[d]) => Reported(srv'[d]) = Reported(srv[d])
  BY <1>1
<1>4. \A t \in Callers : StageOf(t)' = StageOf(t) /\ ResultOf(t)' = ResultOf(t)
  BY <1>2, <1>3 DEF StageOf, ResultOf
<1>5. Calls' = Calls /\ Results' = Results
  BY <1>4 DEF Calls, Results
<1> QED BY <1>5 DEF Atomic!avars

\* What the command that is being served would do at this moment.
OutcomeNow(c) == LET k == srv[c].cmd.key IN Atomic!Outcome(srv[c].cmd, Boxes[k], objCacheMap[k])

\* The call takes effect.
LEMMA Applies ==
  ASSUME IInv, RInv, NEW c \in Conns, srv[c].pc # "idle", NEW z, Goto(c, z),
         ~Decided(srv[c]), Decided(z), UNCHANGED cli,
         Boxes' = [Boxes EXCEPT ![srv[c].cmd.key] = OutcomeNow(c).box],
         objCacheMap' = [objCacheMap EXCEPT ![srv[c].cmd.key] = OutcomeNow(c).object],
         Reported(z) = [ok |-> OutcomeNow(c).ok, value |-> OutcomeNow(c).value]
  PROVE  Atomic!ANext
<1> DEFINE o == OutcomeNow(c)
<1> HIDE DEF o
<1>0. /\ o = OutcomeNow(c) /\ Reported(z) = [ok |-> o.ok, value |-> o.value]
      /\ Boxes' = [Boxes EXCEPT ![srv[c].cmd.key] = o.box]
      /\ objCacheMap' = [objCacheMap EXCEPT ![srv[c].cmd.key] = o.object]
  BY DEF o
<1>1. /\ srv'[c] = z /\ \A d \in Conns : d # c => srv'[d] = srv[d]
  BY GotoFields
<1>2. PICK t \in Callers :
           /\ Home[t] = c /\ cli[t].pc = "calling" /\ cli[t].cmd = srv[c].cmd
           /\ \A u \in Callers : u # t => Home[u] # c \/ cli[u].pc # "calling"
  BY ItsCaller
<1>3. \A u \in Callers : Home[u] \in Conns
  BY CallersAssumption
<1>4. /\ StageOf(t) = "called" /\ StageOf(t)' = "applied"
      /\ ResultOf(t)' = [ok |-> o.ok, value |-> o.value]
  BY <1>0, <1>1, <1>2 DEF StageOf, ResultOf
<1>5. \A u \in Callers : u # t => StageOf(u)' = StageOf(u) /\ ResultOf(u)' = ResultOf(u)
  BY <1>1, <1>2, <1>3 DEF StageOf, ResultOf
<1>6. /\ Calls[t].cmd = srv[c].cmd /\ Calls[t].stage = "called"
      /\ Calls' = [Calls EXCEPT ![t].stage = "applied"]
  BY <1>2, <1>4, <1>5 DEF Calls
<1>7. Results' = [Results EXCEPT ![t] = [ok |-> o.ok, value |-> o.value]]
  BY <1>4, <1>5 DEF Results
<1>8. Atomic!Apply(t)
  BY <1>0, <1>6, <1>7 DEF Atomic!Apply, OutcomeNow
<1> QED BY <1>8 DEF Atomic!ANext

-----------------------------------------------------------------------------
(* What the abstract specification says of a command *)

\* Its copy of the containers' operators is theirs.
LEMMA SameOperators ==
  ASSUME NEW cmd, NEW type, NEW s, NEW op, NEW count
  PROVE  /\ Atomic!Body(cmd, type, s) = Body(cmd, type, s)
         /\ Atomic!Accepts(op) = Accepts(op) /\ Atomic!Types = Types
         /\ Atomic!Positional = Positional /\ Atomic!InRange(cmd, count) = InRange(cmd, count)
<1>1. Atomic!Body(cmd, type, s) = Body(cmd, type, s)
  BY Zenon DEF Atomic!Body, Body, Atomic!addMapEntry, addMapEntry,
     Atomic!addCollectionEntry, addCollectionEntry, Atomic!pushFrontValue, pushFrontValue,
     Atomic!pushBackValue, pushBackValue, Atomic!insert, insert,
     Atomic!insertRepeated, insertRepeated,
     Atomic!setMapEntryValueByPosition, setMapEntryValueByPosition,
     Atomic!setCollectionEntryAt, setCollectionEntryAt,
     Atomic!getMapEntryValue, getMapEntryValue,
     Atomic!getMapEntryValueByPosition, getMapEntryValueByPosition,
     Atomic!getCollectionEntryAt, getCollectionEntryAt, Atomic!getFrontValue, getFrontValue,
     Atomic!getBackValue, getBackValue, Atomic!popGetValueQueue, popGetValueQueue,
     Atomic!popGetFrontValue, popGetFrontValue, Atomic!popGetBackValue, popGetBackValue,
     Atomic!removeMapEntry, removeMapEntry,
     Atomic!removeCollectionEntryAt, removeCollectionEntryAt,
     Atomic!popValueQueue, popValueQueue, Atomic!popFrontValue, popFrontValue,
     Atomic!popBackValue, popBackValue, Atomic!size, size, Atomic!clear, clear,
     Atomic!isEmpty, isEmpty, Atomic!MapInsert, MapInsert, Atomic!SetInsert, SetInsert,
     Atomic!Rank, Rank, Atomic!Fields, Fields, Atomic!At, At, Atomic!Some, Some,
     Atomic!Done, Done, Atomic!Gives, Gives, Atomic!Fails, Fails, Atomic!Effect, Effect,
     Atomic!ToSet, ToSet, Atomic!InsertAt, InsertAt, Atomic!RemoveAt, RemoveAt,
     Atomic!ReplaceAt, ReplaceAt, Atomic!Front, Front, Atomic!Last, Last,
     Atomic!Cardinality, Cardinality
<1>2. Atomic!Accepts(op) = Accepts(op)
  BY Zenon DEF Atomic!Accepts, Accepts, Atomic!MapOps, MapOps, Atomic!Types, Types,
     Atomic!Linear, Linear
<1>3. Atomic!Types = Types /\ Atomic!Positional = Positional
  BY Zenon DEF Atomic!Types, Types, Atomic!Linear, Linear, Atomic!Positional, Positional
<1>4. Atomic!InRange(cmd, count) = InRange(cmd, count)
  BY Zenon DEF Atomic!InRange, InRange
<1> QED BY <1>1, <1>2, <1>3, <1>4

Refuses(cmd, box) ==
  \/ box = NewBox("") \/ box.type \notin Accepts(cmd.op)
  \/ cmd.op \in Positional /\ ~InRange(cmd, Len(box.val))
  \/ Body(cmd, box.type, box.val).msg # "SUCCESS"

Verdict(box, object, ok, value) == [box |-> box, object |-> object, ok |-> ok, value |-> value]

LEMMA OutcomeOf ==
  ASSUME NEW cmd, NEW box, NEW object, cmd.op \in BodyOps
  PROVE  Atomic!Outcome(cmd, box, object) =
           IF Refuses(cmd, box) THEN Verdict(box, object, FALSE, NoValue)
           ELSE LET e == Body(cmd, box.type, box.val)
                IN  Verdict([box EXCEPT !.val = e.val], object, TRUE, e.value)
<1>1. cmd.op \notin {"addobj", "removeobj", "getobj", "allocate", "deallocate"}
  BY DEF BodyOps, ObjectOps
<1>2. Atomic!NoBox = NewBox("")
  BY DEF Atomic!NoBox, NewBox
<1>3. /\ Atomic!Body(cmd, box.type, box.val) = Body(cmd, box.type, box.val)
      /\ Atomic!Accepts(cmd.op) = Accepts(cmd.op) /\ Atomic!Positional = Positional
      /\ Atomic!InRange(cmd, Len(box.val)) = InRange(cmd, Len(box.val))
  BY SameOperators
<1> QED BY <1>1, <1>2, <1>3 DEF Atomic!Outcome, Refuses, Verdict

LEMMA OutcomeOfOthers ==
  ASSUME NEW c
  PROVE  LET cmd == srv[c].cmd
             box == Boxes[cmd.key]
             object == objCacheMap[cmd.key]
             o == OutcomeNow(c)
             refused == Verdict(box, object, FALSE, NoValue)
         IN
         /\ cmd.op = "addobj" => o = Verdict(box, cmd.v, TRUE, NoValue)
         /\ cmd.op = "removeobj" => o = Verdict(box, NoValue, TRUE, NoValue)
         /\ cmd.op = "getobj" => o = IF object = NoValue THEN refused
                                     ELSE Verdict(box, object, TRUE, object)
         /\ cmd.op = "allocate" => o = IF box # NewBox("") \/ cmd.v \notin Types THEN refused
                                       ELSE Verdict(NewBox(cmd.v), object, TRUE, NoValue)
         /\ cmd.op = "deallocate" => o = IF box = NewBox("") THEN refused
                                         ELSE Verdict(NewBox(""), object, TRUE, NoValue)
<1>1. Atomic!NoBox = NewBox("") /\ Atomic!Types = Types
  BY SameOperators DEF Atomic!NoBox, NewBox
<1> QED BY <1>1 DEF OutcomeNow, Atomic!Outcome, Verdict, NewBox

\* A key has a box exactly when it has an entry.
LEMMA BoxOf ==
  ASSUME IInv, RInv, NEW k \in Keys
  PROVE  /\ cacheMap[k] = 0 <=> Boxes[k] = NewBox("")
         /\ cacheMap[k] # 0 => /\ Boxes[k] = heap[cacheMap[k]] /\ Boxes[k].type = valueTypes[k]
                               /\ valueTypes[k] \in Types
<1>1. ASSUME cacheMap[k] # 0
      PROVE  /\ Boxes[k] = heap[cacheMap[k]] /\ Boxes[k].type = valueTypes[k]
             /\ valueTypes[k] \in Types
  BY <1>1 DEF IInv, Live, RInv, Boxed, Boxes
<1>2. NewBox("").type \notin Types
  BY DEF NewBox, Types, Linear
<1> QED BY <1>1, <1>2 DEF Boxes

\* A step that refuses the command is the abstract one that does.
LEMMA Refused ==
  ASSUME IInv, RInv, NEW c \in Conns, srv[c].pc # "idle", NEW z, Goto(c, z),
         ~Decided(srv[c]), Decided(z), z.cmd = srv[c].cmd, Sizing(z) \/ z.msg # "SUCCESS",
         srv[c].cmd.key \in Keys,
         OutcomeNow(c) = Verdict(Boxes[srv[c].cmd.key], objCacheMap[srv[c].cmd.key], FALSE, NoValue),
         UNCHANGED <<cli, objCacheMap>>, Boxes' = Boxes
  PROVE  Atomic!ANext
<1> DEFINE k == srv[c].cmd.key
           o == OutcomeNow(c)
<1>1. o.box = Boxes[k] /\ o.object = objCacheMap[k] /\ o.ok = FALSE /\ o.value = NoValue
  BY DEF Verdict
<1> HIDE DEF o
<1>3. Boxes' = [Boxes EXCEPT ![k] = o.box]
  BY <1>1 DEF Boxes
<1>4. objCacheMap' = [objCacheMap EXCEPT ![k] = o.object]
  <2>1. objCacheMap = [l \in Keys |-> objCacheMap[l]]
    BY DEF RInv, Boxed
  <2> QED BY <1>1, <2>1
<1>5. Reported(z) = [ok |-> o.ok, value |-> o.value]
  BY <1>1 DEF Reported
<1> QED BY <1>3, <1>4, <1>5, Applies DEF o

-----------------------------------------------------------------------------
(* The server's steps: each keeps the second invariant, and to the callers it is a *)
(* step of the abstract specification or nothing                                    *)

Refines == /\ RInv'
           /\ Atomic!ANext \/ UNCHANGED Atomic!avars \/ \E c \in Conns : Stray(c)

LEMMA UndefinedRefines ==
  ASSUME IInv, RInv, Undefined, UNCHANGED plan
  PROVE  Refines
<1>1. UNCHANGED <<plan, cacheMap, valueTypes, made, freed, heap, objCacheMap, srv, cli>>
  BY DEF Undefined, maps
<1>2. RInv'
  BY <1>1 DEF RInv, Served, Reserved, Reserves, Boxed, Aware, Kept, Knows
<1>3. UNCHANGED Atomic!avars
  BY <1>1 DEF Atomic!avars, Boxes, Calls, Results, StageOf, ResultOf
<1> QED BY <1>2, <1>3 DEF Refines

LEMMA UnDecided ==
  ASSUME NEW s, s.pc \notin {"answer", "unlock"}
  PROVE  ~Decided(s)
  BY DEF Decided

\* The maps stay: so do the boxes, unless a container changes.
LEMMA SameBoxes ==
  ASSUME IInv, RInv, UNCHANGED <<maps, heap>>
  PROVE  Boxes' = Boxes /\ (objCacheMap' = objCacheMap => Boxed')
<1>1. UNCHANGED <<cacheMap, valueTypes, heap>>
  BY DEF maps
<1> QED BY <1>1 DEF RInv, Boxed, Boxes

\* A thread answers with success.
LEMMA Succeeds ==
  ASSUME IInv, RInv, NEW c \in Conns, srv[c].pc \notin {"idle", "answer", "unlock"}, NEW value,
         Goto(c, Answer(srv[c], "SUCCESS", value)), srv[c].cmd.op \notin Positional,
         OutcomeNow(c).ok = TRUE, OutcomeNow(c).value = value,
         Boxes' = [Boxes EXCEPT ![srv[c].cmd.key] = OutcomeNow(c).box],
         objCacheMap' = [objCacheMap EXCEPT ![srv[c].cmd.key] = OutcomeNow(c).object],
         UNCHANGED cli
  PROVE  Atomic!ANext
<1> DEFINE z == Answer(srv[c], "SUCCESS", value)
<1>1. DOMAIN srv[c] = Slots
  BY DEF IInv, TypeOK, IsThread
<1>2. z.cmd = srv[c].cmd /\ z.pc = "answer" /\ z.msg = "SUCCESS" /\ z.value = value
  BY <1>1, AnswerFields
<1>3. Goto(c, z)
  OBVIOUS
<1> HIDE DEF z
<1>4. Decided(z) /\ Reported(z) = [ok |-> TRUE, value |-> value]
  BY <1>2 DEF Decided, Reported, Sizing
<1>5. ~Decided(srv[c])
  BY UnDecided
<1> QED BY <1>3, <1>4, <1>5, Applies

\* A thread answers with an error.
LEMMA Throws ==
  ASSUME IInv, RInv, NEW c \in Conns, srv[c].pc \notin {"idle", "answer", "unlock"}, NEW msg,
         Goto(c, Throw(srv[c], msg)), msg # "SUCCESS",
         OutcomeNow(c) = Verdict(Boxes[srv[c].cmd.key], objCacheMap[srv[c].cmd.key], FALSE, NoValue),
         UNCHANGED <<cli, objCacheMap>>, Boxes' = Boxes
  PROVE  Atomic!ANext
<1> DEFINE m == Caught(srv[c].cmd.op, msg)
           z == Answer(srv[c], m, NoValue)
<1>1. DOMAIN srv[c] = Slots /\ srv[c].cmd.key \in Keys
  BY DEF IInv, TypeOK, IsThread, IsCommand
<1>2. m # "SUCCESS"
  BY NotSuccess
<1>3. z.cmd = srv[c].cmd /\ z.pc = "answer" /\ z.msg = m
  BY <1>1, AnswerFields
<1>4. Goto(c, z)
  BY DEF Throw
<1> HIDE DEF z, m
<1>5. Decided(z)
  BY <1>3 DEF Decided
<1>6. ~Decided(srv[c])
  BY UnDecided
<1> QED BY <1>1, <1>2, <1>3, <1>4, <1>5, <1>6, Refused

\* Answers keep the second invariant while the maps stay.
LEMMA AnswerStays ==
  ASSUME IInv, RInv, NEW c \in Conns, srv[c].pc # "idle", NEW msg, NEW value,
         Goto(c, Answer(srv[c], msg, value)),
         Sizing(srv[c]) => msg # "SUCCESS", msg # "SUCCESS" => value = NoValue,
         UNCHANGED <<plan, maps, cli>>, Boxed'
  PROVE  RInv'
<1> DEFINE z == Answer(srv[c], msg, value)
<1>1. DOMAIN srv[c] = Slots /\ Knows(srv[c])
  BY DEF IInv, TypeOK, IsThread, RInv, Aware
<1>2. z.cmd = srv[c].cmd /\ z.pc = "answer"
  BY <1>1, AnswerFields
<1>3. Kept(z) /\ Knows(z)
  BY <1>1, AnswerKnows
<1>4. Goto(c, z)
  OBVIOUS
<1> HIDE DEF z
<1>5. Reserves(z)
  BY <1>2 DEF Reserves
<1> QED BY <1>2, <1>3, <1>4, <1>5, Stays

LEMMA ThrowStays ==
  ASSUME IInv, RInv, NEW c \in Conns, srv[c].pc # "idle", NEW msg, msg # "SUCCESS",
         Goto(c, Throw(srv[c], msg)), UNCHANGED <<plan, maps, cli>>, Boxed'
  PROVE  RInv'
  BY NotSuccess, AnswerStays DEF Throw

LEMMA ObjectEntryRefines ==
  ASSUME IInv, RInv, NEW c \in Conns, ObjectEntry(c), UNCHANGED plan
  PROVE  Refines
<1> DEFINE s == srv[c]
           k == s.cmd.key
           v == objCacheMap[k]
<1>1. /\ s.pc = "exists" /\ s.cmd.op \in ObjectOps /\ UNCHANGED <<maps, heap, cli>>
      /\ objCacheMap' = CASE s.cmd.op = "addobj" -> [objCacheMap EXCEPT ![k] = s.cmd.v]
                          [] s.cmd.op = "removeobj" -> [objCacheMap EXCEPT ![k] = NoValue]
                          [] OTHER -> objCacheMap
      /\ Goto(c, IF s.cmd.op # "getobj" THEN Answer(s, "SUCCESS", NoValue)
                 ELSE IF v = NoValue THEN Throw(s, "ERR_NOVALUEFOUND")
                 ELSE Answer(s, "SUCCESS", v))
  BY DEF ObjectEntry
<1>2. s.cmd.op \notin Positional /\ ~Sizing(s)
  BY <1>1 DEF ObjectOps, Positional, Sizing
<1>3. k \in Keys /\ objCacheMap = [l \in Keys |-> objCacheMap[l]]
  BY <1>1 DEF IInv, TypeOK, IsThread, IsCommand, RInv, Boxed
<1>4. Boxes' = Boxes /\ Boxes' = [Boxes EXCEPT ![k] = Boxes[k]]
  <2>1. Boxes' = Boxes
    BY <1>1, SameBoxes
  <2> QED BY <2>1 DEF Boxes
<1>5. Boxed'
  <2>1. objCacheMap' = [l \in Keys |-> objCacheMap'[l]]
    BY <1>1, <1>3
  <2>2. UNCHANGED <<cacheMap, valueTypes, heap>>
    BY <1>1 DEF maps
  <2> QED BY <2>1, <2>2 DEF RInv, Boxed
<1>6. s.cmd.op \in {"addobj", "removeobj", "getobj"}
  BY <1>1 DEF ObjectOps
<1>7. CASE s.cmd.op = "addobj"
  <2>1. OutcomeNow(c) = Verdict(Boxes[k], s.cmd.v, TRUE, NoValue)
    BY <1>7, OutcomeOfOthers
  <2>2. /\ Goto(c, Answer(s, "SUCCESS", NoValue))
        /\ objCacheMap' = [objCacheMap EXCEPT ![k] = s.cmd.v]
    BY <1>1, <1>7
  <2>3. /\ OutcomeNow(c).box = Boxes[k] /\ OutcomeNow(c).object = s.cmd.v
        /\ OutcomeNow(c).ok = TRUE /\ OutcomeNow(c).value = NoValue
    BY <2>1 DEF Verdict
  <2>5. Atomic!ANext
    BY <1>1, <1>2, <1>4, <2>2, <2>3, Succeeds
  <2>4. RInv'
    BY <1>1, <1>2, <1>5, <2>2, AnswerStays
  <2> QED BY <2>4, <2>5 DEF Refines
<1>8. CASE s.cmd.op = "removeobj"
  <2>1. OutcomeNow(c) = Verdict(Boxes[k], NoValue, TRUE, NoValue)
    BY <1>8, OutcomeOfOthers
  <2>2. /\ Goto(c, Answer(s, "SUCCESS", NoValue))
        /\ objCacheMap' = [objCacheMap EXCEPT ![k] = NoValue]
    BY <1>1, <1>8
  <2>3. /\ OutcomeNow(c).box = Boxes[k] /\ OutcomeNow(c).object = NoValue
        /\ OutcomeNow(c).ok = TRUE /\ OutcomeNow(c).value = NoValue
    BY <2>1 DEF Verdict
  <2>5. Atomic!ANext
    BY <1>1, <1>2, <1>4, <2>2, <2>3, Succeeds
  <2>4. RInv'
    BY <1>1, <1>2, <1>5, <2>2, AnswerStays
  <2> QED BY <2>4, <2>5 DEF Refines
<1>9. CASE s.cmd.op = "getobj" /\ v # NoValue
  <2>1. OutcomeNow(c) = Verdict(Boxes[k], v, TRUE, v)
    BY <1>9, OutcomeOfOthers
  <2>2. /\ Goto(c, Answer(s, "SUCCESS", v))
        /\ objCacheMap' = [objCacheMap EXCEPT ![k] = v]
    BY <1>1, <1>3, <1>9
  <2>3. /\ OutcomeNow(c).box = Boxes[k] /\ OutcomeNow(c).object = v
        /\ OutcomeNow(c).ok = TRUE /\ OutcomeNow(c).value = v
    BY <2>1 DEF Verdict
  <2>5. Atomic!ANext
    BY <1>1, <1>2, <1>4, <2>2, <2>3, Succeeds
  <2>4. RInv'
    BY <1>1, <1>2, <1>5, <2>2, AnswerStays
  <2> QED BY <2>4, <2>5 DEF Refines
<1>10. CASE s.cmd.op = "getobj" /\ v = NoValue
  <2>1. OutcomeNow(c) = Verdict(Boxes[k], objCacheMap[k], FALSE, NoValue)
    BY <1>10, OutcomeOfOthers
  <2>2. Goto(c, Throw(s, "ERR_NOVALUEFOUND")) /\ UNCHANGED objCacheMap
    BY <1>1, <1>10
  <2>3. Atomic!ANext
    BY <1>1, <1>4, <2>1, <2>2, Throws
  <2>4. RInv'
    BY <1>1, <1>5, <2>2, ThrowStays
  <2> QED BY <2>3, <2>4 DEF Refines
<1> QED BY <1>6, <1>7, <1>8, <1>9, <1>10

\* A thread goes on to a step at which nothing is decided yet.
LEMMA MovesOn ==
  ASSUME IInv, RInv, NEW c \in Conns, srv[c].pc \notin {"idle", "answer", "unlock"},
         NEW z, Goto(c, z), z.cmd = srv[c].cmd, z.pc \notin {"idle", "answer", "unlock"},
         Reserves(z), Kept(z), Knows(z), UNCHANGED <<plan, maps, heap, objCacheMap, cli>>
  PROVE  Refines
<1>1. ~Decided(z) /\ ~Decided(srv[c])
  BY UnDecided
<1>2. Boxes' = Boxes /\ Boxed' /\ UNCHANGED <<plan, maps, cli, objCacheMap>>
  BY SameBoxes
<1>3. RInv'
  BY <1>2, Stays
<1>4. UNCHANGED Atomic!avars
  BY <1>1, <1>2, Stutters
<1> QED BY <1>3, <1>4 DEF Refines

LEMMA ExistanceRefines ==
  ASSUME IInv, RInv, NEW c \in Conns, Existance(c), UNCHANGED plan
  PROVE  Refines
<1> DEFINE s == srv[c]
           k == s.cmd.key
           exists == cacheMap[k] # 0
<1>1. /\ s.pc = "exists" /\ s.cmd.op \in {"allocate", "deallocate"}
      /\ UNCHANGED <<plan, maps, heap, objCacheMap, cli>>
      /\ Goto(c, CASE s.cmd.op = "allocate" /\ exists -> Throw(s, "ERR_ALLOCENTEXISTS")
                   [] s.cmd.op = "allocate" /\ ~exists /\ s.cmd.v \notin Types
                        -> Throw(s, "ERR_INVCONTAINER")
                   [] s.cmd.op = "deallocate" /\ ~exists -> Throw(s, "ERR_NOKEYCACHEMAP")
                   [] OTHER -> [s EXCEPT !.pc = "change"])
  BY DEF Existance
<1>2. k \in Keys /\ DOMAIN s = Slots /\ Knows(s)
  BY <1>1 DEF IInv, TypeOK, IsThread, IsCommand, RInv, Aware
<1>3. exists <=> Boxes[k] # NewBox("")
  BY <1>2, BoxOf
<1>4. UNCHANGED <<maps, heap>> /\ UNCHANGED <<plan, maps, cli>> /\ UNCHANGED <<cli, objCacheMap>>
  BY <1>1
<1>5. Boxes' = Boxes /\ Boxed'
  BY <1>1, <1>4, SameBoxes
<1>6. CASE \/ s.cmd.op = "allocate" /\ (exists \/ s.cmd.v \notin Types)
           \/ s.cmd.op = "deallocate" /\ ~exists
  <2>1. \E msg : msg # "SUCCESS" /\ Goto(c, Throw(s, msg))
    <3>1. CASE s.cmd.op = "allocate" /\ exists
      BY <1>1, <3>1
    <3>2. CASE s.cmd.op = "allocate" /\ ~exists
      BY <1>1, <1>6, <3>2
    <3>3. CASE s.cmd.op = "deallocate"
      BY <1>1, <1>6, <3>3
    <3> QED BY <1>6, <3>1, <3>2, <3>3
  <2>2. OutcomeNow(c) = Verdict(Boxes[k], objCacheMap[k], FALSE, NoValue)
    BY <1>3, <1>6, OutcomeOfOthers
  <2>3. Atomic!ANext
    BY <1>1, <1>4, <1>5, <2>1, <2>2, Throws
  <2>4. RInv'
    BY <1>1, <1>4, <1>5, <2>1, ThrowStays
  <2> QED BY <2>3, <2>4 DEF Refines
<1>7. CASE \/ s.cmd.op = "allocate" /\ ~exists /\ s.cmd.v \in Types
           \/ s.cmd.op = "deallocate" /\ exists
  <2> DEFINE z == [s EXCEPT !.pc = "change"]
  <2>1. Goto(c, z)
    BY <1>1, <1>7
  <2>2. z.cmd = s.cmd /\ z.pc = "change" /\ z.sized = s.sized
    BY <1>2 DEF Slots
  <2> HIDE DEF z
  <2>3. Reserves(z) /\ Kept(z) /\ Knows(z)
    BY <1>2, <1>7, <2>2 DEF Reserves, Kept, Knows, Locking
  <2> QED BY <1>1, <2>1, <2>2, <2>3, MovesOn
<1> QED BY <1>1, <1>6, <1>7

LEMMA ExistanceAndTypeRefines ==
  ASSUME IInv, RInv, NEW c \in Conns, ExistanceAndType(c), UNCHANGED plan
  PROVE  Refines
<1> DEFINE s == srv[c]
           k == s.cmd.key
           op == Doing(s).op
           type == valueTypes[k]
<1>1. /\ s.pc = "exists" /\ s.cmd.op \notin ObjectOps \cup {"allocate", "deallocate"}
      /\ UNCHANGED <<plan, maps, heap, objCacheMap, cli>>
      /\ Goto(c, CASE cacheMap[k] = 0 -> Throw(s, Absent(op))
                   [] cacheMap[k] # 0 /\ type \notin Accepts(op) -> Throw(s, Refusal(op, type))
                   [] OTHER -> [s EXCEPT !.pc = "fetch", !.type = type])
  BY DEF ExistanceAndType
<1>2. /\ k \in Keys /\ DOMAIN s = Slots /\ Knows(s) /\ s.cmd.op \in BodyOps
      /\ DOMAIN s.cmd = {"op", "key", "n", "v", "r"}
  BY <1>1 DEF IInv, TypeOK, IsThread, IsCommand, RInv, Aware, BodyOps
<1>3. op = IF Sizing(s) THEN "size" ELSE s.cmd.op
  BY <1>2 DEF Doing
<1>4. UNCHANGED <<maps, heap>> /\ UNCHANGED <<plan, maps, cli>> /\ UNCHANGED <<cli, objCacheMap>>
  BY <1>1
<1>5. Boxes' = Boxes /\ Boxed'
  BY <1>1, <1>4, SameBoxes
<1> HIDE DEF op, type
<1>6. CASE cacheMap[k] = 0 \/ type \notin Accepts(op)
  <2>1. \E msg : msg # "SUCCESS" /\ Goto(c, Throw(s, msg))
    <3>1. Absent(op) # "SUCCESS" /\ Refusal(op, type) # "SUCCESS"
      BY Refusals
    <3>2. Goto(c, Throw(s, Absent(op))) \/ Goto(c, Throw(s, Refusal(op, type)))
      BY <1>1, <1>6
    <3> QED BY <3>1, <3>2
  <2>2. Refuses(s.cmd, Boxes[k])
    <3>1. CASE cacheMap[k] = 0
      BY <1>2, <3>1, BoxOf DEF Refuses
    <3>2. CASE cacheMap[k] # 0
      <4>1. Boxes[k].type = type /\ type \in Types
        BY <1>2, <3>2, BoxOf DEF type
      <4>2. type \notin Accepts(op)
        BY <1>6, <3>2
      <4>3. Accepts("size") = Types
        BY DEF Accepts, MapOps
      <4> QED BY <1>3, <4>1, <4>2, <4>3 DEF Refuses
    <3> QED BY <3>1, <3>2
  <2>3. OutcomeNow(c) = Verdict(Boxes[k], objCacheMap[k], FALSE, NoValue)
    BY <1>2, <2>2, OutcomeOf DEF OutcomeNow
  <2>4. Atomic!ANext
    BY <1>1, <1>4, <1>5, <2>1, <2>3, Throws
  <2>5. RInv'
    BY <1>1, <1>4, <1>5, <2>1, ThrowStays
  <2> QED BY <2>4, <2>5 DEF Refines
<1>7. CASE cacheMap[k] # 0 /\ type \in Accepts(op)
  <2> DEFINE z == [s EXCEPT !.pc = "fetch", !.type = type]
  <2>1. Goto(c, z)
    BY <1>1, <1>7
  <2>2. z.cmd = s.cmd /\ z.pc = "fetch" /\ z.sized = s.sized /\ z.type = type
    BY <1>2 DEF Slots
  <2> HIDE DEF z
  <2>3. Doing(z).op = op
    BY <2>2 DEF Doing, Sizing, op
  <2>4. Reserves(z) /\ Kept(z) /\ Knows(z)
    BY <1>2, <1>7, <2>2, <2>3 DEF Reserves, Kept, Knows, Locking
  <2> QED BY <1>1, <2>1, <2>2, <2>4, MovesOn
<1> QED BY <1>6, <1>7

LEMMA EnterChangeRefines ==
  ASSUME IInv, RInv, NEW c \in Conns, EnterChange(c), UNCHANGED plan
  PROVE  Refines
<1> DEFINE s == srv[c]
           z == [s EXCEPT !.pc = "changing"]
<1>1. /\ s.pc = "change" /\ srv' = [srv EXCEPT ![c].pc = "changing"]
      /\ UNCHANGED <<plan, maps, heap, objCacheMap, cli>>
  BY DEF EnterChange
<1>2. DOMAIN s = Slots /\ Knows(s) /\ Reserves(s)
  BY <1>1 DEF IInv, TypeOK, IsThread, RInv, Aware, Reserved
<1>3. Goto(c, z)
  BY <1>1 DEF Goto
<1>4. z.cmd = s.cmd /\ z.pc = "changing" /\ z.sized = s.sized
  BY <1>2 DEF Slots
<1> HIDE DEF z
<1>5. Reserves(z) /\ Kept(z) /\ Knows(z)
  BY <1>1, <1>2, <1>4 DEF Reserves, Kept, Knows, Locking
<1> QED BY <1>1, <1>3, <1>4, <1>5, MovesOn

LEMMA FetchRefines ==
  ASSUME IInv, RInv, NEW c \in Conns, Fetch(c), UNCHANGED plan
  PROVE  Refines
<1> DEFINE s == srv[c]
           o == cacheMap[s.cmd.key]
           z == [s EXCEPT !.pc = "lookup", !.obj = o]
<1>1. CASE o = 0
  BY <1>1, UndefinedRefines DEF Fetch
<1>2. CASE o # 0
  <2>1. s.pc = "fetch" /\ Goto(c, z) /\ UNCHANGED <<plan, maps, heap, objCacheMap, cli>>
    BY <1>2 DEF Fetch
  <2>2. DOMAIN s = Slots /\ Knows(s) /\ s.cmd.key \in Keys
    BY <2>1 DEF IInv, TypeOK, IsThread, IsCommand, RInv, Aware
  <2>3. o \in 1 .. made /\ \A l \in Keys : l # s.cmd.key => cacheMap[l] # o
    BY <1>2, <2>2, MapsPoint DEF IInv, Live
  <2>4. z.cmd = s.cmd /\ z.pc = "lookup" /\ z.sized = s.sized /\ z.type = s.type /\ z.obj = o
    BY <2>2 DEF Slots
  <2> HIDE DEF z
  <2>5. Doing(z).op = Doing(s).op
    BY <2>4 DEF Doing, Sizing
  <2>6. Reserves(z) /\ Kept(z) /\ Knows(z)
    BY <2>1, <2>2, <2>3, <2>4, <2>5 DEF Reserves, Kept, Knows, Locking
  <2> QED BY <2>1, <2>4, <2>6, MovesOn
<1> QED BY <1>1, <1>2

LEMMA LookUpRefines ==
  ASSUME IInv, RInv, NEW c \in Conns, LookUp(c), UNCHANGED plan
  PROVE  Refines
<1> DEFINE s == srv[c]
           l == cacheMap[s.cmd.key]
           z == [s EXCEPT !.pc = "acquire", !.lock = l]
<1>1. CASE Undefined
  BY <1>1, UndefinedRefines
<1>2. CASE Goto(c, z) /\ UNCHANGED <<maps, heap, objCacheMap, cli>>
  <2>1. s.pc = "lookup" /\ UNCHANGED <<plan, maps, heap, objCacheMap, cli>>
    BY <1>2 DEF LookUp
  <2>2. DOMAIN s = Slots /\ Knows(s) /\ Kept(s)
    BY <2>1 DEF IInv, TypeOK, IsThread, RInv, Aware
  <2>4. z.cmd = s.cmd /\ z.pc = "acquire" /\ z.sized = s.sized /\ z.type = s.type /\ z.obj = s.obj
    BY <2>2 DEF Slots
  <2>3. Goto(c, z)
    BY <1>2
  <2> HIDE DEF z
  <2>5. Doing(z).op = Doing(s).op
    BY <2>4 DEF Doing, Sizing
  <2>6. Reserves(z) /\ Kept(z) /\ Knows(z)
    BY <2>1, <2>2, <2>4, <2>5 DEF Reserves, Kept, Knows, Locking
  <2> QED BY <2>1, <2>3, <2>4, <2>6, MovesOn
<1> QED BY <1>1, <1>2 DEF LookUp

LEMMA AcquireRefines ==
  ASSUME IInv, RInv, NEW c \in Conns, Acquire(c), UNCHANGED plan
  PROVE  Refines
<1> DEFINE s == srv[c]
           z == [s EXCEPT !.pc = "body"]
<1>1. CASE Undefined
  BY <1>1, UndefinedRefines
<1>2. CASE Goto(c, z) /\ UNCHANGED <<maps, heap, objCacheMap, cli>>
  <2>1. s.pc = "acquire" /\ UNCHANGED <<plan, maps, heap, objCacheMap, cli>>
    BY <1>2 DEF Acquire
  <2>2. DOMAIN s = Slots /\ Knows(s) /\ Kept(s)
    BY <2>1 DEF IInv, TypeOK, IsThread, RInv, Aware
  <2>4. z.cmd = s.cmd /\ z.pc = "body" /\ z.sized = s.sized /\ z.type = s.type /\ z.obj = s.obj
    BY <2>2 DEF Slots
  <2>3. Goto(c, z)
    BY <1>2
  <2> HIDE DEF z
  <2>5. Doing(z).op = Doing(s).op
    BY <2>4 DEF Doing, Sizing
  <2>6. Reserves(z) /\ Kept(z) /\ Knows(z)
    BY <2>1, <2>2, <2>4, <2>5 DEF Reserves, Kept, Knows, Locking
  <2> QED BY <2>1, <2>3, <2>4, <2>6, MovesOn
<1> QED BY <1>1, <1>2 DEF Acquire

\* The handler's answer after unlock is the one that was decided by the work.
LEMMA UnlockRefines ==
  ASSUME IInv, RInv, NEW c \in Conns, Unlock(c), UNCHANGED plan
  PROVE  Refines
<1> DEFINE s == srv[c]
<1>1. CASE Undefined
  BY <1>1, UndefinedRefines
<1>2. CASE Goto(c, AfterCall(s)) /\ UNCHANGED <<maps, heap, objCacheMap, cli>>
  <2>1. /\ s.pc = "unlock" /\ UNCHANGED <<plan, maps, heap, objCacheMap, cli>>
        /\ Goto(c, AfterCall(s))
    BY <1>2 DEF Unlock
  <2>2. DOMAIN s = Slots /\ Knows(s) /\ Kept(s)
    BY <2>1 DEF IInv, TypeOK, IsThread, RInv, Aware
  <2>3. /\ UNCHANGED <<maps, heap>> /\ UNCHANGED <<plan, maps, cli>> /\ UNCHANGED <<cli, objCacheMap>>
        /\ objCacheMap' = objCacheMap
    BY <2>1
  <2>4. Boxes' = Boxes /\ Boxed'
    BY <2>3, SameBoxes
  <2>5. CASE Sizing(s) /\ InRange(s.cmd, s.value)
    <3> DEFINE z == [s EXCEPT !.pc = "exists", !.sized = TRUE, !.obj = 0, !.lock = 0,
                              !.value = NoValue]
    <3>1. Goto(c, z)
      BY <2>1, <2>5 DEF AfterCall
    <3>2. z.cmd = s.cmd /\ z.pc = "exists" /\ z.sized = TRUE
      BY <2>2 DEF Slots
    <3> HIDE DEF z
    <3>3. ~Decided(z) /\ ~Decided(s)
      BY <2>1, <2>5, <3>2 DEF Decided
    <3>4. Reserves(z) /\ Kept(z) /\ Knows(z)
      BY <2>5, <3>2 DEF Reserves, Kept, Knows, Locking, InRange
    <3>5. RInv'
      BY <2>1, <2>3, <2>4, <3>1, <3>2, <3>4, Stays
    <3>6. UNCHANGED Atomic!avars
      BY <2>1, <2>3, <2>4, <3>1, <3>3, Stutters
    <3> QED BY <3>5, <3>6 DEF Refines
  <2>6. CASE ~(Sizing(s) /\ InRange(s.cmd, s.value))
    <3>1. PICK msg, value :
            /\ AfterCall(s) = Answer(s, msg, value)
            /\ Sizing(s) => msg # "SUCCESS"
            /\ msg # "SUCCESS" => value = NoValue
            /\ ~Sizing(s) => (msg # "SUCCESS" <=> s.msg # "SUCCESS")
            /\ ~Sizing(s) /\ msg = "SUCCESS" => value = s.value
      <4>1. CASE Sizing(s)
        BY <2>6, <4>1, RangeErrors DEF AfterCall
      <4>2. CASE ~Sizing(s) /\ s.msg # "SUCCESS"
        BY <4>2, NotSuccess DEF AfterCall, Throw
      <4>3. CASE ~Sizing(s) /\ s.msg = "SUCCESS"
        BY <4>3 DEF AfterCall
      <4> QED BY <4>1, <4>2, <4>3
    <3> DEFINE z == Answer(s, msg, value)
    <3>2. z.cmd = s.cmd /\ z.pc = "answer" /\ z.sized = s.sized /\ z.msg = msg /\ z.value = value
      BY <2>2, AnswerFields
    <3>3. Goto(c, z)
      BY <2>1, <3>1
    <3>4. RInv'
      BY <2>1, <2>3, <2>4, <3>1, AnswerStays
    <3> HIDE DEF z
    <3>5. Decided(z) /\ Decided(s)
      BY <2>1, <2>6, <3>2 DEF Decided
    <3>6. Sizing(z) <=> Sizing(s)
      BY <3>2 DEF Sizing
    <3>7. Reported(z) = Reported(s)
      BY <3>1, <3>2, <3>6 DEF Reported
    <3>8. UNCHANGED Atomic!avars
      BY <2>1, <2>3, <2>4, <3>3, <3>5, <3>7, Stutters
    <3> QED BY <3>4, <3>8 DEF Refines
  <2> QED BY <2>5, <2>6
<1> QED BY <1>1, <1>2 DEF Unlock

\* The work changes no container but the one of its key.
LEMMA WorkBoxes ==
  ASSUME IInv, RInv, NEW c \in Conns, srv[c].cmd.key \in Keys, cacheMap[srv[c].cmd.key] \in Objects,
         NEW val, heap' = [heap EXCEPT ![cacheMap[srv[c].cmd.key]].val = val], UNCHANGED maps
  PROVE  /\ Boxes' = [Boxes EXCEPT ![srv[c].cmd.key] = [Boxes[srv[c].cmd.key] EXCEPT !.val = val]]
         /\ val = Boxes[srv[c].cmd.key].val => Boxes' = Boxes
         /\ objCacheMap' = objCacheMap => Boxed'
<1> DEFINE k == srv[c].cmd.key
           o == cacheMap[k]
<1>1. o # 0 /\ Boxes[k] = heap[o]
  <2>1. o # 0
    BY CallersAssumption DEF Objects
  <2> QED BY <2>1, BoxOf
<1>2. UNCHANGED <<cacheMap, valueTypes>>
  BY DEF maps
<1>3. /\ DOMAIN heap' = Objects /\ heap'[o] = [heap[o] EXCEPT !.val = val]
      /\ \A p \in Objects : p # o => heap'[p] = heap[p]
  BY DEF IInv, TypeOK
<1>4. heap[o] = [type |-> heap[o].type, val |-> heap[o].val]
  BY DEF RInv, Boxed
<1>5. heap'[o] = [type |-> heap[o].type, val |-> val]
  BY <1>3, <1>4
<1>6. \A l \in Keys : cacheMap[l] # 0 /\ l # k => cacheMap[l] \in Objects /\ cacheMap[l] # o
  BY <1>1, MapsPoint DEF IInv, Live
<1>7. \A l \in Keys : l # k => Boxes'[l] = Boxes[l]
  BY <1>2, <1>3, <1>6 DEF Boxes
<1>8. Boxes'[k] = [Boxes[k] EXCEPT !.val = val] /\ (val = Boxes[k].val => Boxes'[k] = Boxes[k])
  <2>1. Boxes'[k] = heap'[o]
    BY <1>1, <1>2 DEF Boxes
  <2> QED BY <1>1, <1>3, <1>4, <1>5, <2>1
<1>9. /\ Boxes = [l \in Keys |-> Boxes[l]] /\ Boxes' = [l \in Keys |-> Boxes'[l]]
  BY DEF Boxes
<1>10. Boxed' \/ objCacheMap' # objCacheMap
  <2>1. \A p \in Objects : heap'[p] = [type |-> heap'[p].type, val |-> heap'[p].val]
    <3>1. heap'[o].type = heap[o].type /\ heap'[o].val = val
      BY <1>5
    <3> QED BY <1>3, <1>5, <3>1 DEF RInv, Boxed
  <2> QED BY <1>2, <2>1 DEF RInv, Boxed
<1>11. Boxes' = [Boxes EXCEPT ![k] = [Boxes[k] EXCEPT !.val = val]]
  BY <1>7, <1>8, <1>9
<1>12. val = Boxes[k].val => Boxes' = Boxes
  BY <1>7, <1>8, <1>9
<1> QED BY <1>10, <1>11, <1>12

\* A step of one thread is not seen by the callers of the others.
LEMMA OthersCalls ==
  ASSUME IInv, NEW c \in Conns, NEW z, Goto(c, z), UNCHANGED cli
  PROVE  \A t \in Callers : Home[t] # c => Calls'[t] = Calls[t] /\ Results'[t] = Results[t]
<1>1. \A d \in Conns : d # c => srv'[d] = srv[d]
  BY GotoFields
<1>2. \A t \in Callers : Home[t] \in Conns
  BY CallersAssumption
<1>3. \A t \in Callers : Home[t] # c => StageOf(t)' = StageOf(t) /\ ResultOf(t)' = ResultOf(t)
  BY <1>1, <1>2 DEF StageOf, ResultOf
<1> QED BY <1>3 DEF Calls, Results

\* Work on a container that a second allocate has replaced.
LEMMA WorkStrays ==
  ASSUME IInv, RInv, NEW c \in Conns, Work(c), ~Undefined, UNCHANGED plan,
         srv[c].obj # cacheMap[srv[c].cmd.key]
  PROVE  RInv' /\ Stray(c)
<1> DEFINE s == srv[c]
           k == s.cmd.key
           e == Body(Doing(s), s.type, heap[s.obj].val)
<1>1. /\ s.pc = "body" /\ s.obj \notin freed
      /\ heap' = [heap EXCEPT ![s.obj].val = e.val]
      /\ Goto(c, IF ThrowsLocked(Doing(s), e) THEN Throw(s, e.msg)
                 ELSE [s EXCEPT !.pc = "unlock", !.msg = e.msg, !.value = e.value])
      /\ UNCHANGED <<plan, maps, objCacheMap, cli>>
  BY DEF Work
<1>2. /\ DOMAIN s = Slots /\ Knows(s) /\ Kept(s) /\ k \in Keys
      /\ DOMAIN s.cmd = {"op", "key", "n", "v", "r"}
  BY <1>1 DEF IInv, TypeOK, IsThread, IsCommand, RInv, Aware
<1>3. s.obj \in Objects /\ \A l \in Keys : cacheMap[l] # s.obj
  BY <1>1, <1>2, CallersAssumption DEF Kept, Locking, Objects, IInv, TypeOK
<1>4. Sizing(s) => Doing(s).op = "size" /\ e.msg = "SUCCESS"
  <2>1. Sizing(s) => Doing(s).op = "size"
    BY <1>2 DEF Doing
  <2> QED BY <2>1, BodySize
<1> HIDE DEF e
<1>5. /\ DOMAIN heap' = Objects /\ heap'[s.obj] = [heap[s.obj] EXCEPT !.val = e.val]
      /\ \A p \in Objects : p # s.obj => heap'[p] = heap[p]
  BY <1>1, <1>3 DEF IInv, TypeOK
<1>6. UNCHANGED <<cacheMap, valueTypes, objCacheMap>> /\ UNCHANGED <<plan, maps, cli>> /\ UNCHANGED cli
  BY <1>1 DEF maps
<1>7. \A l \in Keys : Boxes'[l] = Boxes[l]
  BY <1>3, <1>5, <1>6, MapsPoint DEF Boxes
<1>8. Boxed'
  <2>1. heap[s.obj] = [type |-> heap[s.obj].type, val |-> heap[s.obj].val]
    BY <1>3 DEF RInv, Boxed
  <2>2. heap'[s.obj] = [type |-> heap[s.obj].type, val |-> e.val]
    BY <1>5, <2>1
  <2>3. heap'[s.obj].type = heap[s.obj].type /\ heap'[s.obj].val = e.val
    BY <2>2
  <2>4. \A p \in Objects : heap'[p] = [type |-> heap'[p].type, val |-> heap'[p].val]
    BY <1>5, <2>2, <2>3 DEF RInv, Boxed
  <2> QED BY <1>6, <2>4 DEF RInv, Boxed
<1>9. RInv'
  <2>1. CASE ThrowsLocked(Doing(s), e)
    BY <1>1, <1>6, <1>8, <2>1, ThrowStays DEF ThrowsLocked
  <2>2. CASE ~ThrowsLocked(Doing(s), e)
    <3> DEFINE z == [s EXCEPT !.pc = "unlock", !.msg = e.msg, !.value = e.value]
    <3>1. /\ z.cmd = s.cmd /\ z.pc = "unlock" /\ z.sized = s.sized /\ z.type = s.type
          /\ z.obj = s.obj /\ z.msg = e.msg
      BY <1>2 DEF Slots
    <3>2. Goto(c, z)
      BY <1>1, <2>2
    <3> HIDE DEF z
    <3>3. Doing(z) = Doing(s) /\ (Sizing(z) <=> Sizing(s))
      BY <3>1 DEF Doing, Sizing
    <3>4. Reserves(z) /\ Kept(z) /\ Knows(z)
      BY <1>1, <1>2, <1>4, <3>1, <3>3 DEF Reserves, Kept, Knows, Locking
    <3> QED BY <1>1, <1>6, <1>8, <3>1, <3>2, <3>4, Stays
  <2> QED BY <2>1, <2>2
<1>10. Overtaken(c)
  BY <1>1 DEF Overtaken
<1>11. \A t \in Callers : Home[t] # c => Calls'[t] = Calls[t] /\ Results'[t] = Results[t]
  BY <1>1, <1>6, OthersCalls
<1> QED BY <1>6, <1>7, <1>9, <1>10, <1>11 DEF Stray

LEMMA WorkRefines ==
  ASSUME IInv, RInv, NEW c \in Conns, Work(c), UNCHANGED plan
  PROVE  Refines
<1> DEFINE s == srv[c]
           k == s.cmd.key
           e == Body(Doing(s), s.type, heap[s.obj].val)
<1>1. CASE Undefined
  BY <1>1, UndefinedRefines
<1>3. CASE ~Undefined /\ s.obj # cacheMap[k]
  BY <1>3, WorkStrays DEF Refines
<1>2. CASE ~Undefined /\ s.obj = cacheMap[k]
  <2>1. /\ s.pc = "body" /\ s.obj \notin freed /\ heap[s.obj].type = s.type
        /\ heap' = [heap EXCEPT ![s.obj].val = e.val]
        /\ Goto(c, IF ThrowsLocked(Doing(s), e) THEN Throw(s, e.msg)
                   ELSE [s EXCEPT !.pc = "unlock", !.msg = e.msg, !.value = e.value])
        /\ UNCHANGED <<plan, maps, objCacheMap, cli>>
    BY <1>2 DEF Work
  <2>2. /\ DOMAIN s = Slots /\ Knows(s) /\ Kept(s) /\ k \in Keys
        /\ DOMAIN s.cmd = {"op", "key", "n", "v", "r"}
    BY <2>1 DEF IInv, TypeOK, IsThread, IsCommand, RInv, Aware
  <2>3. s.obj = cacheMap[k] /\ s.obj \in Objects /\ cacheMap[k] # 0
    <3>1. s.obj \in 1 .. made
      BY <2>1, <2>2 DEF Kept, Locking
    <3>2. made \in Nat /\ MaxObjects \in Nat /\ made <= MaxObjects
      BY CallersAssumption DEF IInv, TypeOK
    <3> QED BY <1>2, <3>1, <3>2 DEF Objects
  <2>4. Boxes[k] = heap[s.obj] /\ Boxes[k].type = s.type /\ Boxes[k] # NewBox("")
    BY <2>1, <2>2, <2>3, BoxOf
  <2>5. e = Body(Doing(s), Boxes[k].type, Boxes[k].val)
    BY <2>4
  <2>6. s.cmd.op \in BodyOps /\ s.type \in Accepts(Doing(s).op)
    BY <2>1, <2>2 DEF Knows, Locking
  <2> HIDE DEF e
  <2>7. UNCHANGED maps /\ UNCHANGED <<plan, maps, cli>> /\ UNCHANGED <<cli, objCacheMap>>
        /\ UNCHANGED cli /\ objCacheMap' = objCacheMap
    BY <2>1
  <2>8. /\ Boxes' = [Boxes EXCEPT ![k] = [Boxes[k] EXCEPT !.val = e.val]]
        /\ e.val = Boxes[k].val => Boxes' = Boxes
        /\ Boxed'
    BY <2>1, <2>2, <2>3, <2>7, WorkBoxes
  <2>9. ~Decided(s)
    BY <2>1, UnDecided
  <2> DEFINE z == [s EXCEPT !.pc = "unlock", !.msg = e.msg, !.value = e.value]
  <2>10. /\ z.cmd = s.cmd /\ z.pc = "unlock" /\ z.sized = s.sized /\ z.type = s.type
         /\ z.obj = s.obj /\ z.msg = e.msg /\ z.value = e.value
    BY <2>2 DEF Slots
  <2> HIDE DEF z
  <2>11. Doing(z) = Doing(s) /\ (Sizing(z) <=> Sizing(s))
    BY <2>10 DEF Doing, Sizing
  <2>12. (Sizing(s) => e.msg = "SUCCESS") => Reserves(z) /\ Kept(z) /\ Knows(z)
    BY <2>1, <2>2, <2>10, <2>11 DEF Reserves, Kept, Knows, Locking
  <2>13. CASE Sizing(s)
    <3>1. Doing(s).op = "size"
      BY <2>2, <2>13 DEF Doing
    <3>0. e = [val |-> Boxes[k].val, msg |-> "SUCCESS", value |-> Len(Boxes[k].val)]
      BY <2>5, <3>1, BodySize
    <3>2. /\ e.val = Boxes[k].val /\ e.msg = "SUCCESS" /\ e.value = Len(Boxes[k].val)
      BY <3>0
    <3>3. Goto(c, z)
      BY <2>1, <3>1 DEF ThrowsLocked, z
    <3>4. RInv'
      BY <2>1, <2>7, <2>8, <2>10, <2>12, <3>2, <3>3, Stays
    <3>5. CASE InRange(s.cmd, e.value)
      <4>1. ~Decided(z)
        BY <2>10, <2>11, <2>13, <3>5 DEF Decided
      <4>2. UNCHANGED Atomic!avars
        BY <2>1, <2>7, <2>8, <2>9, <3>2, <3>3, <4>1, Stutters
      <4> QED BY <3>4, <4>2 DEF Refines
    <3>6. CASE ~InRange(s.cmd, e.value)
      <4>1. Decided(z)
        BY <2>10, <2>11, <2>13, <3>6 DEF Decided
      <4>2. Refuses(s.cmd, Boxes[k])
        BY <2>13, <3>2, <3>6 DEF Refuses, Sizing
      <4>3. OutcomeNow(c) = Verdict(Boxes[k], objCacheMap[k], FALSE, NoValue)
        BY <2>6, <4>2, OutcomeOf DEF OutcomeNow
      <4>4. Atomic!ANext
        BY <2>1, <2>2, <2>7, <2>8, <2>9, <2>10, <2>11, <2>13, <3>2, <3>3, <4>1, <4>3, Refused
      <4> QED BY <3>4, <4>4 DEF Refines
    <3> QED BY <3>5, <3>6
  <2>14. CASE ~Sizing(s)
    <3>1. Doing(s) = s.cmd
      BY <2>14 DEF Doing
    <3>2. e = Body(s.cmd, Boxes[k].type, Boxes[k].val) /\ Boxes[k].type \in Accepts(s.cmd.op)
      BY <2>4, <2>5, <2>6, <3>1
    <3>3. /\ e.msg # "SUCCESS" => e.val = Boxes[k].val
          /\ s.cmd.op \in Positional /\ ~(s.cmd.n < Len(Boxes[k].val)) => e.msg # "SUCCESS"
      BY <2>6, <3>2, BodyEffect
    <3>4. CASE e.msg # "SUCCESS"
      <4>1. Refuses(s.cmd, Boxes[k])
        BY <3>2, <3>4 DEF Refuses
      <4>2. OutcomeNow(c) = Verdict(Boxes[k], objCacheMap[k], FALSE, NoValue)
        BY <2>6, <4>1, OutcomeOf DEF OutcomeNow
      <4>3. Boxes' = Boxes
        BY <2>8, <3>3, <3>4
      <4>4. CASE ThrowsLocked(Doing(s), e)
        <5>1. Goto(c, Throw(s, e.msg))
          BY <2>1, <4>4
        <5>2. RInv'
          BY <2>1, <2>7, <2>8, <3>4, <5>1, ThrowStays
        <5>3. Atomic!ANext
          BY <2>1, <2>7, <3>4, <4>2, <4>3, <5>1, Throws
        <5> QED BY <5>2, <5>3 DEF Refines
      <4>5. CASE ~ThrowsLocked(Doing(s), e)
        <5>1. Goto(c, z)
          BY <2>1, <4>5 DEF z
        <5>2. RInv'
          BY <2>1, <2>7, <2>8, <2>10, <2>12, <2>14, <5>1, Stays
        <5>3. Decided(z)
          BY <2>10, <2>11, <2>14 DEF Decided
        <5>4. Atomic!ANext
          BY <2>1, <2>2, <2>7, <2>9, <2>10, <3>4, <4>2, <4>3, <5>1, <5>3, Refused
        <5> QED BY <5>2, <5>4 DEF Refines
      <4> QED BY <4>4, <4>5
    <3>5. CASE e.msg = "SUCCESS"
      <4>1. Goto(c, z)
        BY <2>1, <3>5 DEF ThrowsLocked, z
      <4>2. RInv'
        BY <2>1, <2>7, <2>8, <2>10, <2>12, <2>14, <4>1, Stays
      <4>3. Decided(z) /\ Reported(z) = [ok |-> TRUE, value |-> e.value]
        BY <2>10, <2>11, <2>14, <3>5 DEF Decided, Reported
      <4>4. ~Refuses(s.cmd, Boxes[k])
        <5>1. s.cmd.op \in Positional => InRange(s.cmd, Len(Boxes[k].val))
          BY <2>2, <2>14, <3>3, <3>5 DEF Sizing, Knows, InRange
        <5> QED BY <2>4, <3>2, <3>5, <5>1 DEF Refuses
      <4>5. OutcomeNow(c) = Verdict([Boxes[k] EXCEPT !.val = e.val], objCacheMap[k], TRUE, e.value)
        BY <2>6, <3>2, <4>4, OutcomeOf DEF OutcomeNow
      <4>6. /\ OutcomeNow(c).box = [Boxes[k] EXCEPT !.val = e.val]
            /\ OutcomeNow(c).object = objCacheMap[k]
            /\ OutcomeNow(c).ok = TRUE /\ OutcomeNow(c).value = e.value
        BY <4>5 DEF Verdict
      <4>7. objCacheMap' = [objCacheMap EXCEPT ![k] = objCacheMap[k]]
        <5>1. objCacheMap = [l \in Keys |-> objCacheMap[l]]
          BY DEF RInv, Boxed
        <5> QED BY <2>7, <5>1
      <4>8. Atomic!ANext
        BY <2>1, <2>7, <2>8, <2>9, <4>1, <4>3, <4>6, <4>7, Applies
      <4> QED BY <4>2, <4>8 DEF Refines
    <3> QED BY <3>4, <3>5
  <2> QED BY <2>13, <2>14
<1> QED BY <1>1, <1>2, <1>3

\* The second invariant after a change of the maps.
LEMMA ChangeStays ==
  ASSUME IInv, RInv, NEW c \in Conns, srv[c].pc = "changing",
         Goto(c, Answer(srv[c], "SUCCESS", NoValue)), srv[c].cmd.op \notin Positional,
         UNCHANGED <<plan, cli>>, Boxed', made' \in {made, made + 1},
         \A k \in Keys : k # srv[c].cmd.key => cacheMap'[k] = cacheMap[k],
         cacheMap'[srv[c].cmd.key] \notin 1 .. made
  PROVE  RInv'
<1> DEFINE z == Answer(srv[c], "SUCCESS", NoValue)
<1>1. DOMAIN srv[c] = Slots /\ Knows(srv[c]) /\ ~Sizing(srv[c])
  BY DEF IInv, TypeOK, IsThread, RInv, Aware, Sizing
<1>2. z.cmd = srv[c].cmd /\ z.pc = "answer"
  BY <1>1, AnswerFields
<1>3. Knows(z)
  BY <1>1, AnswerKnows
<1>4. Goto(c, z)
  OBVIOUS
<1> HIDE DEF z
<1>5. /\ srv'[c] = z /\ DOMAIN srv' = Conns
      /\ \A d \in Conns : d # c => srv'[d] = srv[d]
  BY <1>4, GotoFields
<1>6. Served'
  <2>1. \A t \in Callers : Home[t] \in Conns
    BY CallersAssumption
  <2> QED BY <1>2, <1>5, <2>1 DEF RInv, Served
<1>7. \A d \in Conns : srv[d].pc # "idle" => srv[d].cmd.key \in Keys
  BY DEF IInv, TypeOK, IsThread, IsCommand
<1>8. Reserved'
  BY <1>2, <1>5 DEF RInv, Reserved, Reserves
<1>9. Aware'
  <2> SUFFICES ASSUME NEW d \in Conns, srv'[d].pc # "idle" PROVE Kept(srv[d])' /\ Knows(srv[d])'
    BY DEF Aware
  <2>1. CASE d = c
    BY <1>2, <1>3, <1>5, <2>1 DEF Kept, Knows, Locking
  <2>2. CASE d # c
    <3>1. srv'[d] = srv[d] /\ Kept(srv[d]) /\ Knows(srv[d]) /\ srv[d].cmd.key \in Keys
      BY <1>5, <1>7, <2>2 DEF RInv, Aware
    <3>2. Knows(srv[d])'
      BY <3>1 DEF Knows
    <3>3. 1 .. made \subseteq 1 .. made'
      BY DEF IInv, TypeOK
    <3>4. Kept(srv[d])'
      BY <3>1, <3>3 DEF Kept
    <3> QED BY <3>2, <3>4
  <2> QED BY <2>1, <2>2
<1> QED BY <1>6, <1>8, <1>9 DEF RInv

LEMMA AllocateRefines ==
  ASSUME IInv, RInv, NEW c \in Conns, Allocate(c), UNCHANGED plan
  PROVE  Refines
<1> DEFINE s == srv[c]
           k == s.cmd.key
<1>1. /\ s.pc = "changing" /\ s.cmd.op = "allocate" /\ made < MaxObjects
      /\ cacheMap' = [cacheMap EXCEPT ![k] = made + 1]
      /\ valueTypes' = [valueTypes EXCEPT ![k] = s.cmd.v]
      /\ heap' = [heap EXCEPT ![made + 1] = NewBox(s.cmd.v)]
      /\ Goto(c, Answer(s, "SUCCESS", NoValue))
      /\ UNCHANGED <<plan, freed, objCacheMap, cli>>
  BY DEF Allocate
<1>2. k \in Keys /\ made \in Nat /\ MaxObjects \in Nat /\ cacheMap \in [Keys -> 0 .. made]
  BY <1>1, CallersAssumption DEF IInv, TypeOK, IsThread, IsCommand
<1>3. s.cmd.v \in Types
  BY <1>1, <1>2 DEF RInv, Reserved, Reserves
<1>4. /\ cacheMap'[k] = made + 1 /\ cacheMap'[k] # 0 /\ cacheMap'[k] \notin 1 .. made
      /\ made' = made + 1
      /\ \A l \in Keys : l # k => cacheMap'[l] = cacheMap[l] /\ cacheMap[l] # made + 1
  BY <1>1, <1>2 DEF Allocate
<1>5. /\ made + 1 \in Objects /\ DOMAIN heap' = Objects /\ heap'[made + 1] = NewBox(s.cmd.v)
      /\ \A o \in Objects : o # made + 1 => heap'[o] = heap[o]
  BY <1>1, <1>2 DEF IInv, TypeOK, Objects
<1>6. Boxes' = [Boxes EXCEPT ![k] = NewBox(s.cmd.v)]
  <2>1. Boxes'[k] = NewBox(s.cmd.v)
    BY <1>2, <1>4, <1>5 DEF Boxes
  <2>2. \A l \in Keys : l # k => Boxes'[l] = Boxes[l]
    BY <1>4, <1>5, MapsPoint DEF Boxes
  <2>3. /\ Boxes = [l \in Keys |-> Boxes[l]] /\ Boxes' = [l \in Keys |-> Boxes'[l]]
    BY DEF Boxes
  <2> QED BY <2>1, <2>2, <2>3
<1>7. Boxed'
  <2>1. \A o \in Objects : heap'[o] = [type |-> heap'[o].type, val |-> heap'[o].val]
    BY <1>5 DEF RInv, Boxed, NewBox
  <2>2. \A l \in Keys : cacheMap'[l] # 0 => valueTypes'[l] \in Types
    BY <1>1, <1>3, <1>4 DEF RInv, Boxed, IInv, TypeOK
  <2> QED BY <1>1, <2>1, <2>2 DEF RInv, Boxed
<1>8. s.cmd.op \notin Positional
  BY <1>1 DEF Positional
<1>9. RInv'
  BY <1>1, <1>4, <1>7, <1>8, ChangeStays
<1>10. CASE cacheMap[k] = 0
  <2>1. OutcomeNow(c) = Verdict(NewBox(s.cmd.v), objCacheMap[k], TRUE, NoValue)
    BY <1>1, <1>2, <1>3, <1>10, BoxOf, OutcomeOfOthers
  <2>2. /\ OutcomeNow(c).box = NewBox(s.cmd.v) /\ OutcomeNow(c).object = objCacheMap[k]
        /\ OutcomeNow(c).ok = TRUE /\ OutcomeNow(c).value = NoValue
    BY <2>1 DEF Verdict
  <2>3. objCacheMap' = [objCacheMap EXCEPT ![k] = objCacheMap[k]]
    <3>1. objCacheMap = [l \in Keys |-> objCacheMap[l]]
      BY DEF RInv, Boxed
    <3> QED BY <1>1, <3>1
  <2>4. Atomic!ANext
    BY <1>1, <1>6, <1>8, <2>2, <2>3, Succeeds
  <2> QED BY <1>9, <2>4 DEF Refines
<1>11. CASE cacheMap[k] # 0
  <2>1. Overtaken(c) /\ objCacheMap' = objCacheMap
    BY <1>1, <1>11 DEF Overtaken
  <2>2. \A l \in Keys : l # k => Boxes'[l] = Boxes[l]
    BY <1>4, <1>5, MapsPoint DEF Boxes
  <2>3. \A t \in Callers : Home[t] # c => Calls'[t] = Calls[t] /\ Results'[t] = Results[t]
    BY <1>1, OthersCalls
  <2> QED BY <1>9, <2>1, <2>2, <2>3 DEF Refines, Stray
<1> QED BY <1>10, <1>11

LEMMA DeallocateRefines ==
  ASSUME IInv, RInv, NEW c \in Conns, Deallocate(c), UNCHANGED plan
  PROVE  Refines
<1> DEFINE s == srv[c]
           k == s.cmd.key
<1>1. /\ s.pc = "changing" /\ s.cmd.op = "deallocate"
      /\ freed' = freed \cup ({cacheMap[k]} \ {0})
      /\ cacheMap' = [cacheMap EXCEPT ![k] = 0]
      /\ valueTypes' = [valueTypes EXCEPT ![k] = ""]
      /\ Goto(c, Answer(s, "SUCCESS", NoValue))
      /\ UNCHANGED <<plan, heap, objCacheMap, cli>>
  BY DEF Deallocate
<1>2. k \in Keys /\ DOMAIN cacheMap = Keys /\ DOMAIN valueTypes = Keys
  BY <1>1 DEF IInv, TypeOK, IsThread, IsCommand
<1>4. /\ cacheMap'[k] = 0 /\ cacheMap'[k] \notin 1 .. made /\ made' = made
      /\ \A l \in Keys : l # k => cacheMap'[l] = cacheMap[l] /\ valueTypes'[l] = valueTypes[l]
  <2>1. made' = made
    BY DEF Deallocate
  <2>2. cacheMap'[k] = 0 /\ 0 \notin 1 .. made
    <3>1. made \in Int
      BY CallersAssumption DEF IInv, TypeOK
    <3>2. 0 \notin 1 .. made
      BY <3>1
    <3> QED BY <1>1, <1>2, <3>2
  <2> QED BY <1>1, <1>2, <2>1, <2>2
<1>6. Boxes' = [Boxes EXCEPT ![k] = NewBox("")]
  <2>1. Boxes'[k] = NewBox("")
    BY <1>2, <1>4 DEF Boxes
  <2>2. \A l \in Keys : l # k => Boxes'[l] = Boxes[l]
    <3>1. heap' = heap
      BY <1>1
    <3> QED BY <1>4, <3>1 DEF Boxes
  <2>3. /\ Boxes = [l \in Keys |-> Boxes[l]] /\ Boxes' = [l \in Keys |-> Boxes'[l]]
    BY DEF Boxes
  <2> QED BY <2>1, <2>2, <2>3
<1>7. Boxed'
  BY <1>1, <1>4 DEF RInv, Boxed
<1>8. s.cmd.op \notin Positional
  BY <1>1 DEF Positional
<1>9. RInv'
  BY <1>1, <1>4, <1>7, <1>8, ChangeStays
<1>10. CASE cacheMap[k] # 0
  <2> DEFINE b == NewBox("")
  <2>1. OutcomeNow(c) = Verdict(b, objCacheMap[k], TRUE, NoValue) /\ Boxes' = [Boxes EXCEPT ![k] = b]
    BY <1>1, <1>2, <1>6, <1>10, BoxOf, OutcomeOfOthers
  <2> HIDE DEF b
  <2>2. /\ OutcomeNow(c).box = b /\ OutcomeNow(c).object = objCacheMap[k]
        /\ OutcomeNow(c).ok = TRUE /\ OutcomeNow(c).value = NoValue
    BY <2>1 DEF Verdict
  <2>3. objCacheMap' = [objCacheMap EXCEPT ![k] = objCacheMap[k]]
    <3>1. objCacheMap = [l \in Keys |-> objCacheMap[l]]
      BY DEF RInv, Boxed
    <3> QED BY <1>1, <3>1
  <2>4. Atomic!ANext
    BY <1>1, <1>8, <2>1, <2>2, <2>3, Succeeds
  <2> QED BY <1>9, <2>4 DEF Refines
<1>11. CASE cacheMap[k] = 0
  <2>1. Overtaken(c) /\ objCacheMap' = objCacheMap
    BY <1>1, <1>11 DEF Overtaken
  <2>2. \A l \in Keys : l # k => Boxes'[l] = Boxes[l]
    <3>1. heap' = heap
      BY <1>1
    <3> QED BY <1>4, <3>1 DEF Boxes
  <2>3. \A t \in Callers : Home[t] # c => Calls'[t] = Calls[t] /\ Results'[t] = Results[t]
    BY <1>1, OthersCalls
  <2> QED BY <1>9, <2>1, <2>2, <2>3 DEF Refines, Stray
<1> QED BY <1>10, <1>11

-----------------------------------------------------------------------------
(* The callers' steps *)

LEMMA SameQuery == \A cmd : Atomic!Query(cmd) = Query(cmd)
  BY DEF Atomic!Query, Query

LEMMA SameRead == \A cmd, ok, value : Atomic!Read(cmd, ok, value) = Read(cmd, ok, value)
  BY DEF Atomic!Read, Read

LEMMA CallRefines ==
  ASSUME IInv, RInv, NEW t \in Callers, Call(t), UNCHANGED plan
  PROVE  Refines
<1>0. PICK x \in Commands[plan][t] :
        /\ cli[t].pc = "idle"
        /\ cli' = [cli EXCEPT ![t].pc = "waiting", ![t].cmd = Query(x), ![t].calls = @ + 1]
        /\ UNCHANGED <<plan, cacheMap, valueTypes, made, freed, heap, objCacheMap, srv>>
  BY DEF Call, maps
<1> DEFINE cmd == Query(x)
<1>1. /\ cli[t].pc = "idle"
      /\ cli' = [cli EXCEPT ![t].pc = "waiting", ![t].cmd = cmd, ![t].calls = @ + 1]
      /\ UNCHANGED <<plan, cacheMap, valueTypes, made, freed, heap, objCacheMap, srv>>
  BY <1>0
<1>9. x \in AllCommands[t] /\ cmd = Atomic!Query(x)
  BY SameQuery DEF AllCommands, IInv, TypeOK
<1> HIDE DEF cmd
<1>2. /\ cli'[t].pc = "waiting" /\ cli'[t].cmd = cmd
      /\ cli'[t].ok = cli[t].ok /\ cli'[t].value = cli[t].value
      /\ \A u \in Callers : u # t => cli'[u] = cli[u]
  BY <1>1 DEF IInv, TypeOK, IsCaller
<1>3. Served'
  <2>1. /\ cli'[t].pc # "calling" /\ srv' = srv
        /\ \A u \in Callers : u # t => cli'[u] = cli[u]
    BY <1>1, <1>2
  <2>2. Served
    BY DEF RInv
  <2> QED BY <2>1, <2>2 DEF Served
<1>4. RInv'
  BY <1>1, <1>3 DEF RInv, Reserved, Reserves, Boxed, Aware, Kept, Knows
<1>5. StageOf(t) = "idle" /\ StageOf(t)' = "called" /\ ResultOf(t)' = ResultOf(t)
  BY <1>1, <1>2 DEF StageOf, ResultOf
<1>6. \A u \in Callers : u # t => StageOf(u)' = StageOf(u) /\ ResultOf(u)' = ResultOf(u)
  BY <1>1, <1>2 DEF StageOf, ResultOf
<1>7. /\ Calls[t].stage = "idle"
      /\ Calls' = [Calls EXCEPT ![t] = [stage |-> "called", cmd |-> cmd]]
  BY <1>2, <1>5, <1>6 DEF Calls
<1>8. Results' = Results /\ Boxes' = Boxes
  BY <1>1, <1>5, <1>6 DEF Results, Boxes
<1>10. Atomic!Begin(t)
  BY <1>1, <1>7, <1>8, <1>9 DEF Atomic!Begin
<1> QED BY <1>4, <1>10 DEF Refines, Atomic!ANext

LEMMA SendRefines ==
  ASSUME IInv, RInv, NEW t \in Callers, Send(t), UNCHANGED plan
  PROVE  Refines
<1> DEFINE c == Home[t]
           z == [Idle EXCEPT !.pc = "exists", !.cmd = cli[t].cmd]
<1>1. /\ cli[t].pc = "waiting" /\ \A u \in Callers : Home[u] = c => cli[u].pc # "calling"
      /\ cli' = [cli EXCEPT ![t].pc = "calling"]
      /\ srv' = [srv EXCEPT ![c] = z]
      /\ UNCHANGED <<plan, cacheMap, valueTypes, made, freed, heap, objCacheMap>>
  BY DEF Send, maps
<1>2. c \in Conns /\ \A u \in Callers : Home[u] \in Conns
  BY CallersAssumption
<1>3. z.pc = "exists" /\ z.cmd = cli[t].cmd /\ z.sized = FALSE
  BY DEF Idle
<1> HIDE DEF z
<1>4. /\ srv'[c] = z /\ \A d \in Conns : d # c => srv'[d] = srv[d]
  BY <1>1, <1>2 DEF IInv, TypeOK
<1>5. /\ cli'[t].pc = "calling" /\ cli'[t].cmd = cli[t].cmd
      /\ cli'[t].ok = cli[t].ok /\ cli'[t].value = cli[t].value
      /\ \A u \in Callers : u # t => cli'[u] = cli[u]
  BY <1>1 DEF IInv, TypeOK, IsCaller
<1>6. Served'
  <2>2. \A u \in Callers : cli'[u].pc = "calling" =>
          srv'[Home[u]].pc # "idle" /\ srv'[Home[u]].cmd = cli'[u].cmd
    BY <1>1, <1>2, <1>3, <1>4, <1>5 DEF RInv, Served
  <2>3. \A u, v \in Callers :
          cli'[u].pc = "calling" /\ cli'[v].pc = "calling" /\ Home[u] = Home[v] => u = v
    BY <1>1, <1>5 DEF RInv, Served
  <2> QED BY <2>2, <2>3 DEF Served
<1>7. Reserved' /\ Boxed'
  BY <1>1, <1>3, <1>4 DEF RInv, Reserved, Reserves, Boxed
<1>8. Aware'
  <2>1. Kept(srv[c])' /\ Knows(srv[c])'
    BY <1>3, <1>4 DEF Kept, Knows, Locking, Sizing
  <2>2. \A d \in Conns : d # c /\ srv[d].pc # "idle" => Kept(srv[d])' /\ Knows(srv[d])'
    BY <1>1, <1>4 DEF RInv, Aware, Kept, Knows
  <2> QED BY <1>4, <2>1, <2>2 DEF Aware
<1>9. StageOf(t) = "called" /\ StageOf(t)' = "called"
  BY <1>1, <1>3, <1>4, <1>5 DEF StageOf, Decided
<1>10. \A u \in Callers : u # t => StageOf(u)' = StageOf(u)
  BY <1>1, <1>2, <1>4, <1>5 DEF StageOf
<1>11. \A u \in Callers : ResultOf(u)' = ResultOf(u)
  <2>1. ResultOf(t)' = ResultOf(t)
    BY <1>5, <1>9 DEF ResultOf
  <2>2. \A u \in Callers : u # t /\ StageOf(u) = "applied" => srv'[Home[u]] = srv[Home[u]]
    BY <1>1, <1>2, <1>4 DEF StageOf
  <2>3. \A u \in Callers : u # t => ResultOf(u)' = ResultOf(u)
    BY <1>5, <1>10, <2>2 DEF ResultOf
  <2> QED BY <2>1, <2>3
<1>12. Calls' = Calls /\ Results' = Results /\ Boxes' = Boxes
  BY <1>1, <1>5, <1>9, <1>10, <1>11 DEF Calls, Results, Boxes
<1> QED BY <1>1, <1>6, <1>7, <1>8, <1>12 DEF Refines, RInv, Atomic!avars

LEMMA ReceiveRefines ==
  ASSUME IInv, RInv, NEW t \in Callers, Receive(t), UNCHANGED plan
  PROVE  Refines
<1> DEFINE c == Home[t]
           r == srv[c]
<1>0. PICK value \in Read(cli[t].cmd, r.msg = "SUCCESS", r.value) :
        cli' = [cli EXCEPT ![t].pc = "idle", ![t].cmd = NoValue,
                           ![t].ok = r.msg = "SUCCESS", ![t].value = value]
  BY DEF Receive
<1>1. /\ cli[t].pc = "calling" /\ r.pc = "answer"
      /\ srv' = [srv EXCEPT ![c] = Idle]
      /\ UNCHANGED <<plan, cacheMap, valueTypes, made, freed, heap, objCacheMap>>
  BY DEF Receive, maps
<1>2. c \in Conns /\ \A u \in Callers : Home[u] \in Conns
  BY CallersAssumption
<1>3. \A u \in Callers : u # t /\ Home[u] = c => cli[u].pc # "calling"
  BY <1>1 DEF RInv, Served
<1>4. /\ srv'[c] = Idle /\ \A d \in Conns : d # c => srv'[d] = srv[d]
  BY <1>1, <1>2 DEF IInv, TypeOK
<1>5. /\ cli'[t].pc = "idle" /\ cli'[t].cmd = NoValue
      /\ cli'[t].ok = (r.msg = "SUCCESS") /\ cli'[t].value = value
      /\ \A u \in Callers : u # t => cli'[u] = cli[u]
  BY <1>0 DEF IInv, TypeOK, IsCaller
<1>6. Served'
  <2>2. \A u \in Callers : cli'[u].pc = "calling" =>
          srv'[Home[u]].pc # "idle" /\ srv'[Home[u]].cmd = cli'[u].cmd
    BY <1>2, <1>3, <1>4, <1>5 DEF RInv, Served
  <2>3. \A u, v \in Callers :
          cli'[u].pc = "calling" /\ cli'[v].pc = "calling" /\ Home[u] = Home[v] => u = v
    BY <1>5 DEF RInv, Served
  <2> QED BY <2>2, <2>3 DEF Served
<1>7. Reserved' /\ Boxed' /\ Aware'
  BY <1>1, <1>4, IdleFields DEF RInv, Reserved, Reserves, Boxed, Aware, Kept, Knows
<1>8. StageOf(t) = "applied" /\ StageOf(t)' = "idle"
  BY <1>1, <1>5 DEF StageOf, Decided
<1>9. \A u \in Callers : u # t => StageOf(u)' = StageOf(u)
  BY <1>2, <1>3, <1>4, <1>5 DEF StageOf
<1>10. /\ ResultOf(t) = [ok |-> (r.msg = "SUCCESS"), value |-> r.value]
       /\ ResultOf(t)' = [ok |-> (r.msg = "SUCCESS"), value |-> value]
  <2>1. Knows(r)
    BY <1>1, <1>2 DEF RInv, Aware
  <2>2. ResultOf(t) = Reported(r) /\ ResultOf(t)' = [ok |-> (r.msg = "SUCCESS"), value |-> value]
    BY <1>5, <1>8 DEF ResultOf
  <2>3. CASE r.msg = "SUCCESS"
    <3>1. ~Sizing(r)
      BY <1>1, <2>1, <2>3 DEF Knows
    <3>2. (r.msg = "SUCCESS") = TRUE
      BY <2>3
    <3> QED BY <2>2, <2>3, <3>1, <3>2 DEF Reported
  <2>4. CASE r.msg # "SUCCESS"
    <3>1. r.value = NoValue
      BY <1>1, <2>1, <2>4 DEF Knows
    <3>2. (r.msg = "SUCCESS") = FALSE
      BY <2>4
    <3> QED BY <2>2, <2>4, <3>1, <3>2 DEF Reported
  <2> QED BY <2>3, <2>4
<1>11. \A u \in Callers : u # t => ResultOf(u)' = ResultOf(u)
  <2>1. \A u \in Callers : u # t /\ StageOf(u) = "applied" => srv'[Home[u]] = srv[Home[u]]
    BY <1>2, <1>3, <1>4 DEF StageOf
  <2> QED BY <1>5, <1>9, <2>1 DEF ResultOf
<1>12. /\ Calls[t].stage = "applied"
       /\ Calls' = [Calls EXCEPT ![t] = [stage |-> "idle", cmd |-> NoValue]]
  BY <1>5, <1>8, <1>9 DEF Calls
<1>13. /\ Results' = [Results EXCEPT ![t].value = value] /\ Boxes' = Boxes
       /\ Results[t].ok = (r.msg = "SUCCESS") /\ Results[t].value = r.value
  <2>1. Results = [u \in Callers |-> ResultOf(u)] /\ Results' = [u \in Callers |-> ResultOf(u)']
    BY DEF Results
  <2>2. /\ Results[t] = [ok |-> (r.msg = "SUCCESS"), value |-> r.value]
        /\ Results'[t] = [ok |-> (r.msg = "SUCCESS"), value |-> value]
        /\ \A u \in Callers : u # t => Results'[u] = Results[u]
    BY <1>10, <1>11, <2>1
  <2>3. Results' = [Results EXCEPT ![t] = [ok |-> (r.msg = "SUCCESS"), value |-> value]]
    BY <2>1, <2>2
  <2>4. [Results[t] EXCEPT !.value = value] = [ok |-> (r.msg = "SUCCESS"), value |-> value]
    BY <2>2
  <2>5. Boxes' = Boxes
    BY <1>1 DEF Boxes
  <2>6. Results' = [Results EXCEPT ![t].value = value]
    <3> DEFINE w == [ok |-> (r.msg = "SUCCESS"), value |-> value]
    <3>1. Results' = [Results EXCEPT ![t] = w] /\ [Results[t] EXCEPT !.value = value] = w
      BY <2>3, <2>4
    <3> HIDE DEF w
    <3> QED BY <3>1
  <2>7. Results[t].ok = (r.msg = "SUCCESS") /\ Results[t].value = r.value
    <3> DEFINE b == (r.msg = "SUCCESS")
    <3>1. Results[t] = [ok |-> b, value |-> r.value]
      BY <2>2
    <3> HIDE DEF b
    <3>2. Results[t].ok = b /\ Results[t].value = r.value
      BY <3>1
    <3> QED BY <3>2 DEF b
  <2> QED BY <2>5, <2>6, <2>7
<1>14. value \in Atomic!Read(Calls[t].cmd, Results[t].ok, Results[t].value)
  <2>1. Calls[t].cmd = cli[t].cmd
    BY DEF Calls
  <2> QED BY <1>0, <1>13, <2>1, SameRead
<1>15. Atomic!Return(t)
  BY <1>1, <1>12, <1>13, <1>14 DEF Atomic!Return
<1> QED BY <1>6, <1>7, <1>15 DEF Refines, RInv, Atomic!ANext

-----------------------------------------------------------------------------
(* The refinement *)

LEMMA InitRefines == Init => RInv /\ Atomic!AInit
<1> SUFFICES ASSUME Init PROVE RInv /\ Atomic!AInit
  OBVIOUS
<1>1. \A c \in Conns : srv[c] = Idle
  BY DEF Init
<1>2. \A t \in Callers : /\ cli[t].pc = "idle" /\ cli[t].cmd = NoValue
                         /\ cli[t].ok = TRUE /\ cli[t].value = NoValue
  BY DEF Init
<1>3. Served /\ Reserved /\ Aware
  BY <1>1, <1>2, IdleFields DEF Served, Reserved, Reserves, Aware
<1>4. Boxed
  BY DEF Init, Boxed, NewBox
<1>5. \A t \in Callers : StageOf(t) = "idle" /\ ResultOf(t) = [ok |-> TRUE, value |-> NoValue]
  BY <1>2 DEF StageOf, ResultOf
<1>6. Boxes = [k \in Keys |-> Atomic!NoBox]
  BY DEF Init, Boxes, NewBox, Atomic!NoBox
<1>7. /\ Calls = [t \in Callers |-> [stage |-> "idle", cmd |-> NoValue]]
      /\ Results = [t \in Callers |-> [ok |-> TRUE, value |-> NoValue]]
  BY <1>2, <1>5 DEF Calls, Results
<1>8. objCacheMap = [k \in Keys |-> NoValue]
  BY DEF Init
<1> QED BY <1>3, <1>4, <1>6, <1>7, <1>8 DEF RInv, Atomic!AInit

LEMMA NextRefines == IInv /\ RInv /\ [Next]_vars => Refines
<1> SUFFICES ASSUME IInv, RInv, [Next]_vars PROVE Refines
  OBVIOUS
<1>1. CASE UNCHANGED vars
  <2>1. UNCHANGED <<plan, cacheMap, valueTypes, made, freed, heap, objCacheMap, srv, cli>>
    BY <1>1 DEF vars, maps
  <2>2. RInv'
    BY <2>1 DEF RInv, Served, Reserved, Reserves, Boxed, Aware, Kept, Knows
  <2>3. UNCHANGED Atomic!avars
    BY <2>1 DEF Atomic!avars, Boxes, Calls, Results, StageOf, ResultOf
  <2> QED BY <2>2, <2>3 DEF Refines
<1>2. ASSUME UNCHANGED plan, NEW t \in Callers, Call(t) \/ Send(t) \/ Receive(t)
      PROVE  Refines
  BY <1>2, CallRefines, SendRefines, ReceiveRefines
<1>3. ASSUME UNCHANGED plan, NEW c \in Conns, ServerStep(c)
      PROVE  Refines
  BY <1>3, ObjectEntryRefines, ExistanceRefines, EnterChangeRefines, AllocateRefines,
     DeallocateRefines, ExistanceAndTypeRefines, FetchRefines, LookUpRefines,
     AcquireRefines, WorkRefines, UnlockRefines DEF ServerStep
<1> QED BY <1>1, <1>2, <1>3 DEF Next

\* The calls of all callers look as if each took effect at one moment between its
\* start and its return: check, fetch, lock, work and unlock may interleave with
\* those of any other connection, any of which may allocate and deallocate the same
\* keys; the size of a positional command is read in a call of its own; and a call
\* that reports an error has changed nothing.  Only a step of a thread whose check
\* was overtaken is no such moment, and it touches no other key and no other call.
THEOREM ImplementsHolds == Spec => Implements
<1> DEFINE Inv == IInv /\ RInv
<1>1. Init => Inv
  BY InitIInv, InitRefines
<1>2. Inv /\ [Next]_vars => Inv'
  BY NextIInv, NextRefines DEF Refines
<1>3. Spec => []Inv
  BY <1>1, <1>2, PTL DEF Spec
<1>4. Inv /\ [Next]_vars => [Atomic!ANext \/ \E c \in Conns : Stray(c)]_(Atomic!avars)
  BY NextRefines DEF Refines
<1>5. Init => Atomic!AInit
  BY InitRefines
<1> QED BY <1>3, <1>4, <1>5, PTL DEF Spec, Implements

-----------------------------------------------------------------------------
(***************************************************************************)
(* The cache in memory.  Its list and its map are seen by the operations   *)
(* only together, so the argument is about a list and a map that are in    *)
(* step: each operation keeps them so, and what it does to the list it     *)
(* does to the pairs of keys and values that the callers see.              *)
(***************************************************************************)

LEMMA SameCardinality == \A S : Mem!Cardinality(S) = Cardinality(S)
  BY DEF Mem!Cardinality, Cardinality

\* A node of the list of cache c
Node(c) == [id : Mem!Ids, key : Mem!Of(c), val : Mem!Vals]

(***************************************************************************)
(* A list l and a map m of cache c are in step: no two nodes have an       *)
(* identity or a key in common, the map has just the keys of the nodes,    *)
(* and its iterators point to their nodes.                                 *)
(***************************************************************************)
InStep(c, l, m) ==
    /\ l \in Seq(Node(c))
    /\ \A i, j \in 1 .. Len(l) : i # j => l[i].id # l[j].id /\ l[i].key # l[j].key
    /\ \A i \in 1 .. Len(l) : l[i].key \in DOMAIN m /\ m[l[i].key] = l[i].id
    /\ \A k \in DOMAIN m : \E i \in 1 .. Len(l) : l[i].key = k

\* Both caches are, and have no more than Size entries.
CachesInv ==
    /\ Mem!CacheAssumption
    /\ lrul = [c \in Mem!Kinds |-> lrul[c]] /\ internalMap = [c \in Mem!Kinds |-> internalMap[c]]
    /\ \A c \in Mem!Kinds : InStep(c, lrul[c], internalMap[c]) /\ Len(lrul[c]) <= Size

\* What the callers see of a list
Pairs(l) == [i \in 1 .. Len(l) |-> <<l[i].key, l[i].val>>]

-----------------------------------------------------------------------------
(* Sequences *)

LEMMA RemoveAtFacts ==
    ASSUME NEW S, NEW l \in Seq(S), NEW i \in 1 .. Len(l)
    PROVE  /\ Mem!RemoveAt(l, i) \in Seq(S) /\ Len(Mem!RemoveAt(l, i)) = Len(l) - 1
           /\ \A j \in 1 .. Len(l) - 1 : Mem!RemoveAt(l, i)[j] = IF j < i THEN l[j] ELSE l[j + 1]
<1> DEFINE a == SubSeq(l, 1, i - 1)
           b == SubSeq(l, i + 1, Len(l))
<1>1. a \in Seq(S) /\ Len(a) = i - 1 /\ \A j \in 1 .. i - 1 : a[j] = l[j]
  OBVIOUS
<1>2. b \in Seq(S) /\ Len(b) = Len(l) - i /\ \A j \in 1 .. Len(l) - i : b[j] = l[i + j]
  OBVIOUS
<1>3. Mem!RemoveAt(l, i) = a \o b
  BY DEF Mem!RemoveAt
<1> HIDE DEF a, b
<1>4. a \o b \in Seq(S) /\ Len(a \o b) = Len(l) - 1
  <2>1. a \o b \in Seq(S) /\ Len(a \o b) = Len(a) + Len(b)
    BY <1>1, <1>2, ConcatProperties
  <2>2. Len(l) \in Nat
    OBVIOUS
  <2>3. Len(a) + Len(b) = Len(l) - 1
    BY <1>1, <1>2, <2>2
  <2> QED BY <2>1, <2>3
<1>5. ASSUME NEW j \in 1 .. Len(l) - 1
      PROVE  (a \o b)[j] = IF j < i THEN l[j] ELSE l[j + 1]
  <2>1. CASE j < i
    BY <1>1, <1>2, <2>1
  <2>2. CASE ~(j < i)
    <3>1. (a \o b)[j] = b[j - (i - 1)] /\ j - (i - 1) \in 1 .. Len(l) - i
      BY <1>1, <1>2, <2>2
    <3> QED BY <1>2, <2>2, <3>1
  <2> QED BY <2>1, <2>2
<1> QED BY <1>3, <1>4, <1>5

LEMMA PushFacts ==
    ASSUME NEW S, NEW l \in Seq(S), NEW x \in S
    PROVE  /\ <<x>> \o l \in Seq(S) /\ Len(<<x>> \o l) = Len(l) + 1 /\ (<<x>> \o l)[1] = x
           /\ \A j \in 1 .. Len(l) : (<<x>> \o l)[j + 1] = l[j]
  OBVIOUS

LEMMA FrontFacts ==
    ASSUME NEW S, NEW l \in Seq(S), Len(l) > 0
    PROVE  /\ Mem!Front(l) \in Seq(S) /\ Len(Mem!Front(l)) = Len(l) - 1
           /\ \A j \in 1 .. Len(l) - 1 : Mem!Front(l)[j] = l[j]
<1>1. PICK n \in Nat : n = Len(l) - 1
  OBVIOUS
<1>2. \A j \in 1 .. n : l[j] \in S
  BY <1>1
<1>3. /\ SubSeq(l, 1, n) \in Seq(S)
      /\ Len(SubSeq(l, 1, n)) = IF 1 <= n THEN n - 1 + 1 ELSE 0
      /\ \A j \in 1 .. n - 1 + 1 : SubSeq(l, 1, n)[j] = l[1 + j - 1]
  BY <1>2, SubSeqProperties
<1>4. n - 1 + 1 = n /\ (~(1 <= n) => n = 0) /\ \A j \in 1 .. n : 1 + j - 1 = j
  OBVIOUS
<1>5. Len(SubSeq(l, 1, n)) = n
  BY <1>3, <1>4
<1>6. \A j \in 1 .. n : SubSeq(l, 1, n)[j] = l[j]
  BY <1>3, <1>4
<1> QED BY <1>1, <1>3, <1>5, <1>6 DEF Mem!Front

\* Sequences of one length with the same elements are equal.
LEMMA SameSeq ==
    ASSUME NEW S, NEW l \in Seq(S), NEW m \in Seq(S), Len(l) = Len(m),
           \A i \in 1 .. Len(l) : l[i] = m[i]
    PROVE  l = m
  OBVIOUS

-----------------------------------------------------------------------------
(* Lists of nodes *)

LEMMA NodeAt ==
    ASSUME NEW c, NEW l \in Seq(Node(c)), NEW i \in 1 .. Len(l)
    PROVE  l[i].id \in Mem!Ids /\ l[i].key \in Mem!Of(c) /\ l[i].val \in Mem!Vals
<1>1. l[i] \in Node(c)
  OBVIOUS
<1> QED BY <1>1 DEF Node

LEMMA PairsType ==
    ASSUME NEW c, NEW l \in Seq(Node(c))
    PROVE  /\ Pairs(l) \in Seq(Mem!Of(c) \X Mem!Vals) /\ Len(Pairs(l)) = Len(l)
           /\ DOMAIN Pairs(l) = 1 .. Len(l)
           /\ \A i \in 1 .. Len(l) : Pairs(l)[i] = <<l[i].key, l[i].val>>
<1>1. \A i \in 1 .. Len(l) : <<l[i].key, l[i].val>> \in Mem!Of(c) \X Mem!Vals
  BY NodeAt
<1>2. Pairs(l) \in [1 .. Len(l) -> Mem!Of(c) \X Mem!Vals] /\ Len(l) \in Nat
  BY <1>1 DEF Pairs
<1>3. PICK p : p = Pairs(l)
  OBVIOUS
<1>4. p \in Seq(Mem!Of(c) \X Mem!Vals) /\ Len(p) = Len(l) /\ DOMAIN p = 1 .. Len(l)
  BY <1>2, <1>3
<1> QED BY <1>3, <1>4 DEF Pairs

LEMMA AtFacts ==
    ASSUME NEW c, NEW l, NEW m, InStep(c, l, m), NEW i \in 1 .. Len(l)
    PROVE  Mem!At(l, l[i].id) = i /\ Mem!At(l, m[l[i].key]) = i
<1>1. \A j \in 1 .. Len(l) : l[j].id = l[i].id => j = i
  BY DEF InStep
<1>2. Mem!At(l, l[i].id) = i
  BY <1>1 DEF Mem!At
<1> QED BY <1>2 DEF InStep

\* Following the iterators gives the values of the nodes.
LEMMA EntriesArePairs ==
    ASSUME NEW c, NEW l, NEW m, InStep(c, l, m)
    PROVE  [i \in DOMAIN l |-> <<l[i].key, l[Mem!At(l, m[l[i].key])].val>>] = Pairs(l)
<1>1. DOMAIN l = 1 .. Len(l)
  BY DEF InStep
<1>2. \A i \in 1 .. Len(l) : l[Mem!At(l, m[l[i].key])].val = l[i].val
  BY AtFacts
<1> QED BY <1>1, <1>2 DEF Pairs

\* The map has as many keys as the list has nodes.
LEMMA MapSize ==
    ASSUME NEW c, NEW l, NEW m, InStep(c, l, m)
    PROVE  Cardinality(DOMAIN m) = Len(l)
<1> DEFINE f == [i \in 1 .. Len(l) |-> l[i].key]
<1>1. Len(l) \in Nat
  BY DEF InStep
<1>2. f \in [1 .. Len(l) -> DOMAIN m]
  BY DEF InStep
<1>3. \A i, j \in 1 .. Len(l) : f[i] = f[j] => i = j
  BY DEF InStep
<1>4. \A k \in DOMAIN m : \E i \in 1 .. Len(l) : f[i] = k
  BY DEF InStep
<1>5. f \in Bijection(1 .. Len(l), DOMAIN m)
  BY <1>2, <1>3, <1>4 DEF Bijection, Injection, Surjection, IsInjective
<1>6. ExistsBijection(1 .. Len(l), DOMAIN m)
  BY <1>5 DEF ExistsBijection
<1> QED BY <1>1, <1>6, FS_CountingElements

\* A list of at most Size nodes leaves an identity free.
LEMMA FreeNode ==
    ASSUME Mem!CacheAssumption, NEW c, NEW l, NEW m, InStep(c, l, m), Len(l) <= Size
    PROVE  Mem!FreeId(l) \in Mem!Ids /\ \A i \in 1 .. Len(l) : l[i].id # Mem!FreeId(l)
<1> DEFINE f == [i \in 1 .. Len(l) |-> l[i].id]
<1>1. Len(l) \in Nat /\ Size \in Nat
  BY DEF InStep, Mem!CacheAssumption
<1>2. f \in [1 .. Len(l) -> Mem!NodeIds(l)]
  BY DEF Mem!NodeIds
<1>3. \A i, j \in 1 .. Len(l) : f[i] = f[j] => i = j
  BY DEF InStep
<1>4. \A n \in Mem!NodeIds(l) : \E i \in 1 .. Len(l) : f[i] = n
  BY DEF Mem!NodeIds
<1>5. f \in Bijection(1 .. Len(l), Mem!NodeIds(l))
  BY <1>2, <1>3, <1>4 DEF Bijection, Injection, Surjection, IsInjective
<1>6. Cardinality(Mem!NodeIds(l)) = Len(l) /\ IsFiniteSet(Mem!NodeIds(l))
  <2>1. ExistsBijection(1 .. Len(l), Mem!NodeIds(l))
    BY <1>5 DEF ExistsBijection
  <2> QED BY <1>1, <2>1, FS_CountingElements, FS_NatBijection
<1>7. Cardinality(Mem!Ids) = Size + 1
  <2>1. PICK b \in Int : b = Size + 1
    BY <1>1
  <2>2. Cardinality(1 .. b) = IF 1 > b THEN 0 ELSE b - 1 + 1
    BY FS_Interval
  <2>3. ~(1 > b) /\ b - 1 + 1 = b
    BY <1>1, <2>1
  <2> QED BY <2>1, <2>2, <2>3 DEF Mem!Ids
<1>8. ~(Mem!Ids \subseteq Mem!NodeIds(l))
  <2>1. Mem!Ids \subseteq Mem!NodeIds(l) => Cardinality(Mem!Ids) <= Cardinality(Mem!NodeIds(l))
    BY <1>6, FS_Subset
  <2> QED BY <1>1, <1>6, <1>7, <2>1
<1>9. Mem!FreeId(l) \in Mem!Ids /\ Mem!FreeId(l) \notin Mem!NodeIds(l)
  BY <1>8 DEF Mem!FreeId
<1> QED BY <1>9 DEF Mem!NodeIds

-----------------------------------------------------------------------------
(* The operations on a list and its map *)

\* Erasing key k takes the node at its position out of both.
LEMMA EraseKeeps ==
    ASSUME NEW c, NEW l, NEW m, InStep(c, l, m), NEW i \in 1 .. Len(l)
    PROVE  /\ Mem!EraseNode(l, m, l[i].key) = Mem!RemoveAt(l, i)
           /\ InStep(c, Mem!RemoveAt(l, i), Mem!EraseKey(m, l[i].key))
           /\ Len(Mem!RemoveAt(l, i)) = Len(l) - 1
           /\ Pairs(Mem!RemoveAt(l, i)) = Mem!RemoveAt(Pairs(l), i)
<1> DEFINE r == Mem!RemoveAt(l, i)
           At_(j) == IF j < i THEN j ELSE j + 1
<1>1. l \in Seq(Node(c)) /\ Len(l) \in Nat
  BY DEF InStep
<1>2. Mem!EraseNode(l, m, l[i].key) = r
  BY AtFacts DEF Mem!EraseNode
<1>3. /\ r \in Seq(Node(c)) /\ Len(r) = Len(l) - 1
      /\ \A j \in 1 .. Len(r) : r[j] = l[At_(j)]
  <2>1. /\ r \in Seq(Node(c)) /\ Len(r) = Len(l) - 1
        /\ \A j \in 1 .. Len(l) - 1 : r[j] = IF j < i THEN l[j] ELSE l[j + 1]
    BY <1>1, RemoveAtFacts
  <2> QED BY <2>1
<1>4. /\ \A j \in 1 .. Len(l) - 1 : At_(j) \in 1 .. Len(l) /\ At_(j) # i
      /\ \A j, k \in 1 .. Len(l) - 1 : j # k => At_(j) # At_(k)
  BY <1>1
<1>5. \A k \in 1 .. Len(l) : k # i => \E j \in 1 .. Len(l) - 1 : At_(j) = k
  <2> SUFFICES ASSUME NEW k \in 1 .. Len(l), k # i PROVE \E j \in 1 .. Len(l) - 1 : At_(j) = k
    OBVIOUS
  <2>1. CASE k < i
    <3>1. k \in 1 .. Len(l) - 1 /\ At_(k) = k
      BY <1>1, <2>1
    <3> QED BY <3>1
  <2>2. CASE k > i
    <3>1. k - 1 \in 1 .. Len(l) - 1 /\ At_(k - 1) = k
      BY <1>1, <2>2
    <3> QED BY <3>1
  <2> QED BY <1>1, <2>1, <2>2
<1> HIDE DEF r, At_
<1>6. InStep(c, r, Mem!EraseKey(m, l[i].key))
  <2>1. \A j, k \in 1 .. Len(r) : j # k => r[j].id # r[k].id /\ r[j].key # r[k].key
    <3>1. \A j, k \in 1 .. Len(l) : j # k => l[j].id # l[k].id /\ l[j].key # l[k].key
      BY DEF InStep
    <3>2. SUFFICES ASSUME NEW j \in 1 .. Len(r), NEW k \in 1 .. Len(r), j # k
                   PROVE  r[j].id # r[k].id /\ r[j].key # r[k].key
      OBVIOUS
    <3>3. /\ At_(j) \in 1 .. Len(l) /\ At_(k) \in 1 .. Len(l) /\ At_(j) # At_(k)
          /\ r[j] = l[At_(j)] /\ r[k] = l[At_(k)]
      BY <1>3, <1>4, <3>2
    <3> QED BY <3>1, <3>3
  <2>2. ASSUME NEW j \in 1 .. Len(r)
        PROVE  r[j].key \in DOMAIN Mem!EraseKey(m, l[i].key) /\ Mem!EraseKey(m, l[i].key)[r[j].key] = r[j].id
    <3>1. /\ At_(j) \in 1 .. Len(l) /\ At_(j) # i /\ r[j] = l[At_(j)]
      BY <1>3, <1>4
    <3>2. l[At_(j)].key # l[i].key /\ l[At_(j)].key \in DOMAIN m /\ m[l[At_(j)].key] = l[At_(j)].id
      BY <3>1 DEF InStep
    <3> QED BY <3>1, <3>2 DEF Mem!EraseKey
  <2>3. ASSUME NEW k \in DOMAIN Mem!EraseKey(m, l[i].key)
        PROVE  \E j \in 1 .. Len(r) : r[j].key = k
    <3>1. k \in DOMAIN m /\ k # l[i].key
      BY DEF Mem!EraseKey
    <3>2. PICK n \in 1 .. Len(l) : l[n].key = k
      BY <3>1 DEF InStep
    <3>3. PICK j \in 1 .. Len(l) - 1 : At_(j) = n
      BY <1>5, <3>1, <3>2
    <3> QED BY <1>3, <3>2, <3>3
  <2> QED BY <1>3, <2>1, <2>2, <2>3 DEF InStep
<1>7. Pairs(r) = Mem!RemoveAt(Pairs(l), i)
  <2>1. /\ Pairs(l) \in Seq(Mem!Of(c) \X Mem!Vals) /\ Len(Pairs(l)) = Len(l)
        /\ \A j \in 1 .. Len(l) : Pairs(l)[j] = <<l[j].key, l[j].val>>
    BY <1>1, PairsType
  <2>2. /\ Pairs(r) \in Seq(Mem!Of(c) \X Mem!Vals) /\ Len(Pairs(r)) = Len(l) - 1
        /\ \A j \in 1 .. Len(r) : Pairs(r)[j] = <<r[j].key, r[j].val>>
    BY <1>3, PairsType
  <2>3. /\ Mem!RemoveAt(Pairs(l), i) \in Seq(Mem!Of(c) \X Mem!Vals) /\ Len(Mem!RemoveAt(Pairs(l), i)) = Len(l) - 1
        /\ \A j \in 1 .. Len(l) - 1 : Mem!RemoveAt(Pairs(l), i)[j] = IF j < i THEN Pairs(l)[j] ELSE Pairs(l)[j + 1]
    <3>1. i \in 1 .. Len(Pairs(l))
      BY <2>1
    <3> QED BY <2>1, <3>1, RemoveAtFacts
  <2>4. \A j \in 1 .. Len(l) - 1 : Mem!RemoveAt(Pairs(l), i)[j] = Pairs(l)[At_(j)]
    BY <2>3 DEF At_
  <2>5. ASSUME NEW j \in 1 .. Len(l) - 1 PROVE Pairs(r)[j] = Mem!RemoveAt(Pairs(l), i)[j]
    BY <1>3, <1>4, <2>1, <2>2, <2>4
  <2> QED BY <2>2, <2>3, <2>5, SameSeq
<1> QED BY <1>2, <1>3, <1>6, <1>7 DEF r

\* A node in front of a list of nodes whose keys and identities are others'
LEMMA InFront ==
    ASSUME NEW c, NEW l \in Seq(Node(c)), NEW x \in Node(c)
    PROVE  /\ <<x>> \o l \in Seq(Node(c)) /\ Len(<<x>> \o l) = Len(l) + 1 /\ Head(<<x>> \o l) = x
           /\ \A j \in 1 .. Len(l) + 1 :
                \/ j = 1 /\ (<<x>> \o l)[j] = x
                \/ j - 1 \in 1 .. Len(l) /\ (<<x>> \o l)[j] = l[j - 1]
           /\ Pairs(<<x>> \o l) = <<<<x.key, x.val>>>> \o Pairs(l)
<1> DEFINE f == <<x>> \o l
           y == <<x.key, x.val>>
<1>1. /\ f \in Seq(Node(c)) /\ Len(f) = Len(l) + 1 /\ f[1] = x
      /\ \A j \in 1 .. Len(l) : f[j + 1] = l[j]
  BY PushFacts
<1>2. Len(l) \in Nat /\ Head(f) = x
  BY <1>1
<1> HIDE DEF f
<1>3. ASSUME NEW j \in 1 .. Len(l) + 1
      PROVE  (j = 1 /\ f[j] = x) \/ (j - 1 \in 1 .. Len(l) /\ f[j] = l[j - 1])
  <2>1. CASE j = 1
    BY <1>1, <2>1
  <2>2. CASE j # 1
    <3>1. j - 1 \in 1 .. Len(l) /\ (j - 1) + 1 = j
      BY <1>2, <2>2
    <3> QED BY <1>1, <3>1
  <2> QED BY <2>1, <2>2
<1>4. /\ Pairs(l) \in Seq(Mem!Of(c) \X Mem!Vals) /\ Len(Pairs(l)) = Len(l)
      /\ \A j \in 1 .. Len(l) : Pairs(l)[j] = <<l[j].key, l[j].val>>
  BY PairsType
<1>5. /\ Pairs(f) \in Seq(Mem!Of(c) \X Mem!Vals) /\ Len(Pairs(f)) = Len(l) + 1
      /\ \A j \in 1 .. Len(f) : Pairs(f)[j] = <<f[j].key, f[j].val>>
  BY <1>1, PairsType
<1>6. y \in Mem!Of(c) \X Mem!Vals
  BY DEF Node
<1>7. PICK g : g = <<y>> \o Pairs(l)
  OBVIOUS
<1>8. /\ g \in Seq(Mem!Of(c) \X Mem!Vals) /\ Len(g) = Len(l) + 1 /\ g[1] = y
      /\ \A j \in 1 .. Len(l) : g[j + 1] = Pairs(l)[j]
  BY <1>4, <1>6, <1>7, PushFacts
<1>9. ASSUME NEW j \in 1 .. Len(l) + 1 PROVE Pairs(f)[j] = g[j]
  <2>1. CASE j = 1
    BY <1>1, <1>2, <1>5, <1>8, <2>1
  <2>2. CASE j # 1
    <3>1. PICK i \in 1 .. Len(l) : i + 1 = j
      <4>1. j - 1 \in 1 .. Len(l) /\ (j - 1) + 1 = j
        BY <1>2, <2>2
      <4> QED BY <4>1
    <3>2. f[j] = l[i] /\ g[j] = Pairs(l)[i] /\ Pairs(l)[i] = <<l[i].key, l[i].val>>
      BY <1>1, <1>4, <1>8, <3>1
    <3> QED BY <1>1, <1>5, <3>2
  <2> QED BY <2>1, <2>2
<1>10. Pairs(f) = g
  BY <1>5, <1>8, <1>9, SameSeq
<1> QED BY <1>1, <1>2, <1>3, <1>7, <1>10 DEF f

\* A new key in front of the list and in the map
LEMMA FrontInStep ==
    ASSUME NEW c, NEW l, NEW m, InStep(c, l, m), NEW x \in Node(c), NEW w,
           \A i \in 1 .. Len(l) : l[i].id # x.id,
           x.key \notin DOMAIN m, DOMAIN w = DOMAIN m \cup {x.key}, w[x.key] = x.id,
           \A q \in DOMAIN m : w[q] = m[q]
    PROVE  InStep(c, <<x>> \o l, w)
<1>1. l \in Seq(Node(c)) /\ Len(l) \in Nat
  BY DEF InStep
<1>2. PICK f : f = <<x>> \o l
  OBVIOUS
<1>3. /\ f \in Seq(Node(c)) /\ Len(f) = Len(l) + 1 /\ f[1] = x
      /\ \A j \in 1 .. Len(l) : f[j + 1] = l[j]
  BY <1>1, <1>2, PushFacts
<1>4. \A i \in 1 .. Len(l) : l[i].key \in DOMAIN m /\ m[l[i].key] = l[i].id
  BY DEF InStep
<1>5. \A i \in 1 .. Len(l) : l[i].key # x.key
  BY <1>4
<1>6. ASSUME NEW i \in 1 .. Len(f), i # 1
      PROVE  \E j \in 1 .. Len(l) : i = j + 1 /\ f[i] = l[j]
  <2>1. i - 1 \in 1 .. Len(l) /\ i = (i - 1) + 1
    BY <1>1, <1>3, <1>6
  <2> QED BY <1>3, <2>1
<1>7. ASSUME NEW i \in 1 .. Len(f), NEW j \in 1 .. Len(f), i # j
      PROVE  f[i].id # f[j].id /\ f[i].key # f[j].key
  <2>1. CASE i = 1
    <3>1. PICK n \in 1 .. Len(l) : f[j] = l[n]
      BY <1>6, <1>7, <2>1
    <3>2. f[i] = x
      BY <1>3, <2>1
    <3> QED BY <1>5, <3>1, <3>2
  <2>2. CASE j = 1
    <3>1. PICK n \in 1 .. Len(l) : f[i] = l[n]
      BY <1>6, <1>7, <2>2
    <3>2. f[j] = x
      BY <1>3, <2>2
    <3> QED BY <1>5, <3>1, <3>2
  <2>3. CASE i # 1 /\ j # 1
    <3>1. PICK n \in 1 .. Len(l) : i = n + 1 /\ f[i] = l[n]
      BY <1>6, <2>3
    <3>2. PICK p \in 1 .. Len(l) : j = p + 1 /\ f[j] = l[p]
      BY <1>6, <2>3
    <3>3. n # p
      BY <1>7, <3>1, <3>2
    <3>4. l[n].id # l[p].id /\ l[n].key # l[p].key
      BY <3>3 DEF InStep
    <3> QED BY <3>1, <3>2, <3>4
  <2> QED BY <2>1, <2>2, <2>3
<1>8. ASSUME NEW i \in 1 .. Len(f)
      PROVE  f[i].key \in DOMAIN w /\ w[f[i].key] = f[i].id
  <2>1. CASE i = 1
    BY <1>3, <2>1
  <2>2. CASE i # 1
    <3>1. PICK n \in 1 .. Len(l) : f[i] = l[n]
      BY <1>6, <2>2
    <3>2. l[n].key \in DOMAIN m /\ m[l[n].key] = l[n].id
      BY <1>4
    <3> QED BY <3>1, <3>2
  <2> QED BY <2>1, <2>2
<1>9. ASSUME NEW q \in DOMAIN w PROVE \E i \in 1 .. Len(f) : f[i].key = q
  <2>1. CASE q = x.key
    <3>1. 1 \in 1 .. Len(f)
      BY <1>1, <1>3
    <3> QED BY <1>3, <2>1, <3>1
  <2>2. CASE q # x.key
    <3>1. PICK i \in 1 .. Len(l) : l[i].key = q
      BY <2>2 DEF InStep
    <3>2. i + 1 \in 1 .. Len(f) /\ f[i + 1] = l[i]
      BY <1>1, <1>3
    <3> QED BY <3>1, <3>2
  <2> QED BY <2>1, <2>2
<1>10. InStep(c, f, w)
  BY <1>3, <1>7, <1>8, <1>9 DEF InStep
<1> QED BY <1>2, <1>10

\* push_front of a new key
LEMMA PushKeeps ==
    ASSUME Mem!CacheAssumption, NEW c, NEW l, NEW m, InStep(c, l, m), Len(l) <= Size,
           NEW k \in Mem!Of(c), k \notin DOMAIN m, NEW v \in Mem!Vals
    PROVE  /\ InStep(c, Mem!PushFront(l, k, v), Mem!Insert(m, k, Head(Mem!PushFront(l, k, v)).id))
           /\ Len(Mem!PushFront(l, k, v)) = Len(l) + 1
           /\ Pairs(Mem!PushFront(l, k, v)) = <<<<k, v>>>> \o Pairs(l)
<1>1. PICK n \in Mem!Ids : n = Mem!FreeId(l) /\ \A i \in 1 .. Len(l) : l[i].id # n
  BY FreeNode
<1>2. PICK x : x = [id |-> n, key |-> k, val |-> v]
  OBVIOUS
<1>3. x \in Node(c) /\ x.id = n /\ x.key = k /\ x.val = v
  BY <1>2 DEF Node
<1>4. Mem!PushFront(l, k, v) = <<x>> \o l
  BY <1>1, <1>2 DEF Mem!PushFront
<1>5. /\ Len(<<x>> \o l) = Len(l) + 1 /\ Head(<<x>> \o l) = x
      /\ Pairs(<<x>> \o l) = <<<<x.key, x.val>>>> \o Pairs(l)
  <2>1. l \in Seq(Node(c))
    BY DEF InStep
  <2> QED BY <1>3, <2>1, InFront
<1>6. PICK w : w = Mem!Insert(m, k, n)
  OBVIOUS
<1>7. DOMAIN w = DOMAIN m \cup {k} /\ w[k] = n /\ \A q \in DOMAIN m : w[q] = m[q]
  BY <1>6 DEF Mem!Insert
<1>8. InStep(c, <<x>> \o l, w)
  BY <1>1, <1>3, <1>7, FrontInStep
<1> QED BY <1>3, <1>4, <1>5, <1>6, <1>8

\* splice to the front: only the order changes.
LEMMA SpliceKeeps ==
    ASSUME NEW c, NEW l, NEW m, InStep(c, l, m), NEW i \in 1 .. Len(l)
    PROVE  /\ InStep(c, Mem!Splice(l, m[l[i].key]), m)
           /\ Len(Mem!Splice(l, m[l[i].key])) = Len(l)
           /\ Pairs(Mem!Splice(l, m[l[i].key])) = <<Pairs(l)[i]>> \o Mem!RemoveAt(Pairs(l), i)
<1>1. PICK k : k = l[i].key
  OBVIOUS
<1>2. l \in Seq(Node(c)) /\ l[i] \in Node(c) /\ Len(l) \in Nat
  BY DEF InStep
<1>3. PICK r : r = Mem!RemoveAt(l, i)
  OBVIOUS
<1>4. PICK w : w = Mem!EraseKey(m, k)
  OBVIOUS
<1>5. InStep(c, r, w) /\ Len(r) = Len(l) - 1 /\ Pairs(r) = Mem!RemoveAt(Pairs(l), i)
  BY <1>1, <1>3, <1>4, EraseKeeps
<1>6. r \in Seq(Node(c))
  BY <1>5 DEF InStep
<1>7. Mem!Splice(l, m[l[i].key]) = <<l[i]>> \o r
  BY <1>3, AtFacts DEF Mem!Splice
<1>8. /\ Len(<<l[i]>> \o r) = Len(r) + 1
      /\ Pairs(<<l[i]>> \o r) = <<<<l[i].key, l[i].val>>>> \o Pairs(r)
  BY <1>2, <1>6, InFront
<1>9. k \in DOMAIN m /\ m[k] = l[i].id
  BY <1>1 DEF InStep
<1>10. DOMAIN w = DOMAIN m \ {k} /\ \A q \in DOMAIN w : w[q] = m[q]
  BY <1>4 DEF Mem!EraseKey
<1>11. ASSUME NEW j \in 1 .. Len(r) PROVE r[j].id # l[i].id
  <2>1. PICK n \in 1 .. Len(l) : n # i /\ r[j] = l[n]
    <3>1. \A n \in 1 .. Len(l) - 1 : r[n] = IF n < i THEN l[n] ELSE l[n + 1]
      BY <1>2, <1>3, RemoveAtFacts
    <3>2. j \in 1 .. Len(l) - 1
      BY <1>5
    <3>3. CASE j < i
      BY <1>2, <3>1, <3>2, <3>3
    <3>4. CASE ~(j < i)
      <4>1. j + 1 \in 1 .. Len(l) /\ j + 1 # i
        BY <1>2, <3>2, <3>4
      <4> QED BY <3>1, <3>2, <3>4, <4>1
    <3> QED BY <3>3, <3>4
  <2> QED BY <2>1 DEF InStep
<1>12. InStep(c, <<l[i]>> \o r, m)
  <2>1. /\ l[i].key \notin DOMAIN w /\ DOMAIN m = DOMAIN w \cup {l[i].key}
        /\ m[l[i].key] = l[i].id /\ \A q \in DOMAIN w : m[q] = w[q]
    BY <1>1, <1>9, <1>10
  <2> QED BY <1>2, <1>5, <1>11, <2>1, FrontInStep
<1>13. Pairs(l)[i] = <<l[i].key, l[i].val>>
  BY <1>2, PairsType
<1>14. Len(<<l[i]>> \o r) = Len(l)
  BY <1>2, <1>5, <1>8
<1> QED BY <1>5, <1>7, <1>8, <1>12, <1>13, <1>14

\* clean drops the last node of a list that is one too long.
LEMMA CleanKeeps ==
    ASSUME Mem!CacheAssumption, NEW c, NEW l, NEW m, InStep(c, l, m), Len(l) <= Size + 1
    PROVE  /\ InStep(c, Mem!Clean(l, m).list, Mem!Clean(l, m).map) /\ Len(Mem!Clean(l, m).list) <= Size
           /\ Pairs(Mem!Clean(l, m).list) = IF Len(l) > Size THEN Mem!Front(Pairs(l)) ELSE Pairs(l)
<1>1. /\ l \in Seq(Node(c)) /\ Len(l) \in Nat /\ Size \in Nat /\ Size > 0
      /\ Mem!Cardinality(DOMAIN m) = Len(l)
  <2>1. Cardinality(DOMAIN m) = Len(l)
    BY MapSize
  <2>2. Mem!Cardinality(DOMAIN m) = Cardinality(DOMAIN m)
    BY SameCardinality
  <2>3. l \in Seq(Node(c)) /\ Len(l) \in Nat /\ Size \in Nat /\ Size > 0
    BY DEF InStep, Mem!CacheAssumption
  <2> QED BY <2>1, <2>2, <2>3
<1>2. CASE ~(Len(l) > Size)
  <2>1. Mem!Clean(l, m).list = l /\ Mem!Clean(l, m).map = m
    BY <1>1, <1>2 DEF Mem!Clean
  <2> QED BY <1>1, <1>2, <2>1
<1>3. CASE Len(l) > Size
  <2>1. PICK r : r = Mem!Front(l)
    OBVIOUS
  <2>2. PICK w : w = Mem!EraseKey(m, l[Len(l)].key)
    OBVIOUS
  <2>3. Mem!Clean(l, m).list = r /\ Mem!Clean(l, m).map = w
    BY <1>1, <1>3, <2>1, <2>2 DEF Mem!Clean, Mem!Last
  <2>4. /\ r \in Seq(Node(c)) /\ Len(r) = Len(l) - 1
        /\ \A j \in 1 .. Len(l) - 1 : r[j] = l[j]
    BY <1>1, <1>3, <2>1, FrontFacts
  <2>5. /\ \A j \in 1 .. Len(l) - 1 : j \in 1 .. Len(l) /\ j # Len(l)
        /\ \A j \in 1 .. Len(l) : j # Len(l) => j \in 1 .. Len(l) - 1
        /\ Len(l) \in 1 .. Len(l)
    BY <1>1, <1>3
  <2>6. InStep(c, r, w)
    <3>1. \A i, j \in 1 .. Len(l) : i # j => l[i].id # l[j].id /\ l[i].key # l[j].key
      BY DEF InStep
    <3>2. /\ \A i \in 1 .. Len(l) : l[i].key \in DOMAIN m /\ m[l[i].key] = l[i].id
          /\ \A q \in DOMAIN m : \E i \in 1 .. Len(l) : l[i].key = q
      BY DEF InStep
    <3>3. /\ DOMAIN w = DOMAIN m \ {l[Len(l)].key}
          /\ \A q \in DOMAIN w : w[q] = m[q]
      BY <2>2 DEF Mem!EraseKey
    <3>4. \A i, j \in 1 .. Len(r) : i # j => r[i].id # r[j].id /\ r[i].key # r[j].key
      BY <2>4, <2>5, <3>1
    <3>5. ASSUME NEW i \in 1 .. Len(r) PROVE r[i].key \in DOMAIN w /\ w[r[i].key] = r[i].id
      <4>1. i \in 1 .. Len(l) /\ i # Len(l) /\ r[i] = l[i]
        BY <2>4, <2>5
      <4>2. l[i].key # l[Len(l)].key /\ l[i].key \in DOMAIN m /\ m[l[i].key] = l[i].id
        BY <2>5, <3>1, <3>2, <4>1
      <4> QED BY <3>3, <4>1, <4>2
    <3>6. ASSUME NEW q \in DOMAIN w PROVE \E i \in 1 .. Len(r) : r[i].key = q
      <4>1. PICK i \in 1 .. Len(l) : l[i].key = q
        BY <3>2, <3>3
      <4>2. i \in 1 .. Len(r)
        BY <2>4, <2>5, <3>3, <4>1
      <4> QED BY <2>4, <4>1, <4>2
    <3> QED BY <2>4, <3>4, <3>5, <3>6 DEF InStep
  <2>7. Pairs(r) = Mem!Front(Pairs(l))
    <3>1. /\ Pairs(l) \in Seq(Mem!Of(c) \X Mem!Vals) /\ Len(Pairs(l)) = Len(l)
          /\ \A j \in 1 .. Len(l) : Pairs(l)[j] = <<l[j].key, l[j].val>>
      BY <1>1, PairsType
    <3>2. /\ Pairs(r) \in Seq(Mem!Of(c) \X Mem!Vals) /\ Len(Pairs(r)) = Len(l) - 1
          /\ \A j \in 1 .. Len(r) : Pairs(r)[j] = <<r[j].key, r[j].val>>
      BY <2>4, PairsType
    <3>3. PICK p : p = Pairs(l)
      OBVIOUS
    <3>4. p \in Seq(Mem!Of(c) \X Mem!Vals) /\ Len(p) > 0
      BY <1>1, <1>3, <3>1, <3>3
    <3>5. /\ Mem!Front(p) \in Seq(Mem!Of(c) \X Mem!Vals) /\ Len(Mem!Front(p)) = Len(l) - 1
          /\ \A j \in 1 .. Len(l) - 1 : Mem!Front(p)[j] = Pairs(l)[j]
      BY <3>1, <3>3, <3>4, FrontFacts
    <3>6. \A j \in 1 .. Len(l) - 1 : Pairs(r)[j] = Mem!Front(p)[j]
      BY <2>4, <2>5, <3>1, <3>2, <3>5
    <3> QED BY <3>2, <3>3, <3>5, <3>6, SameSeq
  <2>8. Len(r) <= Size
    BY <1>1, <2>4
  <2> QED BY <1>3, <2>3, <2>6, <2>7, <2>8
<1> QED BY <1>2, <1>3

-----------------------------------------------------------------------------
(* What LruMap allows, as a relation of two sequences of pairs *)

WithoutKey(e, k) == IF k \in {e[i][1] : i \in DOMAIN e}
                    THEN Mem!RemoveAt(e, CHOOSE i \in DOMAIN e : e[i][1] = k) ELSE e
Fitting(e)       == IF Len(e) < Size THEN e ELSE Mem!Front(e)
Stores(K, e, f)  == \E k \in K, v \in Mem!Vals : f = <<<<k, v>>>> \o Fitting(WithoutKey(e, k))
Moved(e, i)      == <<e[i]>> \o Mem!RemoveAt(e, i)
Uses(e, f)       == \E i, j \in DOMAIN e : f = Moved(e, i) \/ f = Moved(Moved(e, i), j)
Drops(e, f)      == \E k \in {e[i][1] : i \in DOMAIN e} : f = WithoutKey(e, k)
MapStep(K, e, f) == Stores(K, e, f) \/ Uses(e, f) \/ Drops(e, f)

LEMMA WithoutPairs ==
    ASSUME NEW c, NEW l, NEW m, InStep(c, l, m)
    PROVE  /\ \A i \in 1 .. Len(l) : /\ WithoutKey(Pairs(l), l[i].key) = Mem!RemoveAt(Pairs(l), i)
                                     /\ l[i].key \in {Pairs(l)[j][1] : j \in DOMAIN Pairs(l)}
           /\ \A k : k \notin DOMAIN m => WithoutKey(Pairs(l), k) = Pairs(l)
<1>1. l \in Seq(Node(c))
  BY DEF InStep
<1>2. PICK p : p = Pairs(l)
  OBVIOUS
<1>3. DOMAIN p = 1 .. Len(l) /\ \A i \in 1 .. Len(l) : p[i] = <<l[i].key, l[i].val>>
  BY <1>1, <1>2, PairsType
<1>4. \A i \in 1 .. Len(l) : p[i][1] = l[i].key
  BY <1>3
<1>5. ASSUME NEW i \in 1 .. Len(l)
      PROVE  WithoutKey(p, l[i].key) = Mem!RemoveAt(p, i) /\ l[i].key \in {p[j][1] : j \in DOMAIN p}
  <2>1. \A j \in 1 .. Len(l) : l[j].key = l[i].key => j = i
    BY DEF InStep
  <2>2. \A j \in DOMAIN p : p[j][1] = l[i].key => j = i
    BY <1>3, <1>4, <2>1
  <2>3. i \in DOMAIN p /\ p[i][1] = l[i].key
    BY <1>3, <1>4
  <2>4. (CHOOSE j \in DOMAIN p : p[j][1] = l[i].key) = i
    BY <2>2, <2>3
  <2> QED BY <2>3, <2>4 DEF WithoutKey
<1>6. ASSUME NEW k, k \notin DOMAIN m PROVE WithoutKey(p, k) = p
  <2>1. \A j \in 1 .. Len(l) : l[j].key # k
    BY <1>6 DEF InStep
  <2>2. k \notin {p[j][1] : j \in DOMAIN p}
    BY <1>3, <1>4, <2>1
  <2> QED BY <2>2 DEF WithoutKey
<1> QED BY <1>2, <1>5, <1>6

LEMMA FrontPush ==
    ASSUME NEW S, NEW p \in Seq(S), Len(p) > 0, NEW y \in S
    PROVE  Mem!Front(<<y>> \o p) = <<y>> \o Mem!Front(p)
<1>1. PICK g : g = <<y>> \o p
  OBVIOUS
<1>2. /\ g \in Seq(S) /\ Len(g) = Len(p) + 1 /\ g[1] = y /\ Len(p) \in Nat
      /\ \A j \in 1 .. Len(p) : g[j + 1] = p[j]
  BY <1>1, PushFacts
<1>3. PICK a : a = Mem!Front(g)
  OBVIOUS
<1>4. a \in Seq(S) /\ Len(a) = Len(p) /\ \A j \in 1 .. Len(p) : a[j] = g[j]
  <2>1. Len(g) > 0 /\ Len(g) - 1 = Len(p)
    BY <1>2
  <2> QED BY <1>2, <1>3, <2>1, FrontFacts
<1>5. PICK q : q = Mem!Front(p)
  OBVIOUS
<1>6. q \in Seq(S) /\ Len(q) = Len(p) - 1 /\ \A j \in 1 .. Len(p) - 1 : q[j] = p[j]
  BY <1>5, FrontFacts
<1>7. PICK b : b = <<y>> \o q
  OBVIOUS
<1>8. /\ b \in Seq(S) /\ Len(b) = Len(p) /\ b[1] = y
      /\ \A j \in 1 .. Len(p) - 1 : b[j + 1] = q[j]
  BY <1>2, <1>6, <1>7, PushFacts
<1>9. ASSUME NEW j \in 1 .. Len(p) PROVE a[j] = b[j]
  <2>1. CASE j = 1
    BY <1>2, <1>4, <1>8, <2>1
  <2>2. CASE j # 1
    <3>1. PICK n \in 1 .. Len(p) - 1 : j = n + 1 /\ n \in 1 .. Len(p)
      <4>1. j - 1 \in 1 .. Len(p) - 1 /\ j = (j - 1) + 1 /\ j - 1 \in 1 .. Len(p)
        BY <1>2, <2>2
      <4> QED BY <4>1
    <3>2. a[j] = g[n + 1] /\ b[j] = b[n + 1]
      BY <1>4, <3>1
    <3> QED BY <1>2, <1>6, <1>8, <3>1, <3>2
  <2> QED BY <2>1, <2>2
<1>10. a = b
  BY <1>4, <1>8, <1>9, SameSeq
<1> QED BY <1>1, <1>3, <1>5, <1>7, <1>10

-----------------------------------------------------------------------------
(* The operations on one cache *)

\* What Stored makes of the list l and the map m
StoredIn(l, m, k, v) ==
    LET r == IF Mem!Has(m, k) THEN Mem!EraseNode(l, m, k) ELSE l
        f == Mem!PushFront(r, k, v)
    IN  Mem!Clean(f, Mem!Insert(m, k, Head(f).id))

\* push_front and clean of a key that the map lost or never had
LEMMA FreshStored ==
    ASSUME Mem!CacheAssumption, NEW c, NEW l, NEW m, InStep(c, l, m), Len(l) <= Size,
           NEW k \in Mem!Of(c), k \notin DOMAIN m, NEW v \in Mem!Vals, NEW s,
           s = Mem!Clean(Mem!PushFront(l, k, v), Mem!Insert(m, k, Head(Mem!PushFront(l, k, v)).id))
    PROVE  /\ InStep(c, s.list, s.map) /\ Len(s.list) <= Size
           /\ Pairs(s.list) = <<<<k, v>>>> \o Fitting(Pairs(l))
<1>1. PICK f : f = Mem!PushFront(l, k, v)
  OBVIOUS
<1>2. PICK w : w = Mem!Insert(m, k, Head(f).id)
  OBVIOUS
<1>3. l \in Seq(Node(c)) /\ Len(l) \in Nat /\ Size \in Nat /\ Size > 0
  BY DEF InStep, Mem!CacheAssumption
<1>4. InStep(c, f, w) /\ Len(f) = Len(l) + 1 /\ Pairs(f) = <<<<k, v>>>> \o Pairs(l)
  BY <1>1, <1>2, PushKeeps
<1>5. Len(f) <= Size + 1 /\ (Len(f) > Size <=> ~(Len(l) < Size))
  BY <1>3, <1>4
<1>6. /\ InStep(c, s.list, s.map) /\ Len(s.list) <= Size
      /\ Pairs(s.list) = IF Len(f) > Size THEN Mem!Front(Pairs(f)) ELSE Pairs(f)
  BY <1>1, <1>2, <1>4, <1>5, CleanKeeps
<1>7. Pairs(l) \in Seq(Mem!Of(c) \X Mem!Vals) /\ Len(Pairs(l)) = Len(l)
  BY <1>3, PairsType
<1>8. CASE Len(l) < Size
  BY <1>4, <1>5, <1>6, <1>7, <1>8 DEF Fitting
<1>9. CASE ~(Len(l) < Size)
  <2>1. PICK p : p = Pairs(l)
    OBVIOUS
  <2>2. p \in Seq(Mem!Of(c) \X Mem!Vals) /\ Len(p) > 0 /\ <<k, v>> \in Mem!Of(c) \X Mem!Vals
    BY <1>3, <1>7, <1>9, <2>1
  <2>3. Mem!Front(<<<<k, v>>>> \o p) = <<<<k, v>>>> \o Mem!Front(p)
    BY <2>2, FrontPush
  <2> QED BY <1>4, <1>5, <1>6, <1>7, <1>9, <2>1, <2>3 DEF Fitting
<1> QED BY <1>6, <1>8, <1>9

LEMMA StoreKeeps ==
    ASSUME Mem!CacheAssumption, NEW c, NEW l, NEW m, InStep(c, l, m), Len(l) <= Size,
           NEW k \in Mem!Of(c), NEW v \in Mem!Vals, NEW s, s = StoredIn(l, m, k, v)
    PROVE  /\ InStep(c, s.list, s.map) /\ Len(s.list) <= Size
           /\ MapStep(Mem!Of(c), Pairs(l), Pairs(s.list))
<1>1. CASE k \notin DOMAIN m
  <2>1. s = Mem!Clean(Mem!PushFront(l, k, v), Mem!Insert(m, k, Head(Mem!PushFront(l, k, v)).id))
    BY <1>1 DEF StoredIn, Mem!Has
  <2>2. /\ InStep(c, s.list, s.map) /\ Len(s.list) <= Size
        /\ Pairs(s.list) = <<<<k, v>>>> \o Fitting(Pairs(l))
    BY <1>1, <2>1, FreshStored
  <2>3. WithoutKey(Pairs(l), k) = Pairs(l)
    BY <1>1, WithoutPairs
  <2>4. Stores(Mem!Of(c), Pairs(l), Pairs(s.list))
    BY <2>2, <2>3 DEF Stores
  <2> QED BY <2>2, <2>4 DEF MapStep
<1>2. CASE k \in DOMAIN m
  <2>1. PICK i \in 1 .. Len(l) : l[i].key = k
    BY <1>2 DEF InStep
  <2>2. PICK r : r = Mem!RemoveAt(l, i)
    OBVIOUS
  <2>3. PICK w : w = Mem!EraseKey(m, k)
    OBVIOUS
  <2>4. /\ Mem!EraseNode(l, m, k) = r /\ InStep(c, r, w) /\ Len(r) = Len(l) - 1
        /\ Pairs(r) = Mem!RemoveAt(Pairs(l), i)
    BY <2>1, <2>2, <2>3, EraseKeeps
  <2>5. Len(l) \in Nat /\ Len(r) <= Size /\ k \notin DOMAIN w
    <3>1. Len(l) \in Nat /\ Size \in Nat
      BY DEF InStep, Mem!CacheAssumption
    <3>2. k \notin DOMAIN w
      BY <2>3 DEF Mem!EraseKey
    <3> QED BY <2>4, <3>1, <3>2
  <2>6. \A n : Mem!Insert(m, k, n) = Mem!Insert(w, k, n)
    <3>1. DOMAIN w \cup {k} = DOMAIN m \cup {k} /\ \A q \in DOMAIN m : q # k => w[q] = m[q]
      BY <2>3 DEF Mem!EraseKey
    <3> QED BY <3>1 DEF Mem!Insert
  <2>7. s = Mem!Clean(Mem!PushFront(r, k, v), Mem!Insert(m, k, Head(Mem!PushFront(r, k, v)).id))
    BY <1>2, <2>4 DEF StoredIn, Mem!Has
  <2>8. s = Mem!Clean(Mem!PushFront(r, k, v), Mem!Insert(w, k, Head(Mem!PushFront(r, k, v)).id))
    BY <2>6, <2>7
  <2>9. /\ InStep(c, s.list, s.map) /\ Len(s.list) <= Size
        /\ Pairs(s.list) = <<<<k, v>>>> \o Fitting(Pairs(r))
    BY <2>4, <2>5, <2>8, FreshStored, SMTT(30)
  <2>10. WithoutKey(Pairs(l), k) = Pairs(r)
    BY <2>1, <2>4, WithoutPairs
  <2>11. Stores(Mem!Of(c), Pairs(l), Pairs(s.list))
    BY <2>9, <2>10 DEF Stores
  <2> QED BY <2>9, <2>11 DEF MapStep
<1> QED BY <1>1, <1>2

LEMMA RemoveKeeps ==
    ASSUME Mem!CacheAssumption, NEW c, NEW l, NEW m, InStep(c, l, m), Len(l) <= Size, NEW k \in DOMAIN m
    PROVE  /\ InStep(c, Mem!EraseNode(l, m, k), Mem!EraseKey(m, k)) /\ Len(Mem!EraseNode(l, m, k)) <= Size
           /\ MapStep(Mem!Of(c), Pairs(l), Pairs(Mem!EraseNode(l, m, k)))
<1>1. PICK i \in 1 .. Len(l) : l[i].key = k
  BY DEF InStep
<1>2. PICK r : r = Mem!RemoveAt(l, i)
  OBVIOUS
<1>3. /\ Mem!EraseNode(l, m, k) = r /\ InStep(c, r, Mem!EraseKey(m, k)) /\ Len(r) = Len(l) - 1
      /\ Pairs(r) = Mem!RemoveAt(Pairs(l), i)
  BY <1>1, <1>2, EraseKeeps
<1>4. Len(r) <= Size
  <2>1. Len(l) \in Nat /\ Size \in Nat
    BY DEF InStep, Mem!CacheAssumption
  <2> QED BY <1>3, <2>1
<1>5. Drops(Pairs(l), Pairs(r))
  <2>1. WithoutKey(Pairs(l), k) = Pairs(r) /\ k \in {Pairs(l)[j][1] : j \in DOMAIN Pairs(l)}
    BY <1>1, <1>3, WithoutPairs
  <2> QED BY <2>1 DEF Drops
<1> QED BY <1>3, <1>4, <1>5 DEF MapStep

LEMMA UseKeeps ==
    ASSUME NEW c, NEW l, NEW m, InStep(c, l, m), NEW k \in DOMAIN m
    PROVE  /\ InStep(c, Mem!Splice(l, m[k]), m) /\ Len(Mem!Splice(l, m[k])) = Len(l)
           /\ \E i \in DOMAIN Pairs(l) : Pairs(Mem!Splice(l, m[k])) = Moved(Pairs(l), i)
<1>1. PICK i \in 1 .. Len(l) : l[i].key = k
  BY DEF InStep
<1>2. /\ InStep(c, Mem!Splice(l, m[k]), m) /\ Len(Mem!Splice(l, m[k])) = Len(l)
      /\ Pairs(Mem!Splice(l, m[k])) = Moved(Pairs(l), i)
  BY <1>1, SpliceKeeps DEF Moved
<1>3. DOMAIN Pairs(l) = 1 .. Len(l)
  <2>1. l \in Seq(Node(c))
    BY DEF InStep
  <2> QED BY <2>1, PairsType
<1> QED BY <1>2, <1>3

-----------------------------------------------------------------------------
(* The steps *)

\* Each cache, as its callers see it, stays as it is or takes a step of LruMap.
Moves == \A c \in Mem!Kinds : \/ Pairs(lrul'[c]) = Pairs(lrul[c])
                              \/ MapStep(Mem!Of(c), Pairs(lrul[c]), Pairs(lrul'[c]))

LEMMA CachesInit ==
    ASSUME Mem!CacheAssumption, Mem!Init
    PROVE  CachesInv /\ \A c \in Mem!Kinds : Pairs(lrul[c]) = <<>>
<1>1. \A c \in Mem!Kinds : lrul[c] = <<>> /\ internalMap[c] = Mem!Empty
  BY DEF Mem!Init
<1>2. <<>> \in Seq(Node("str")) /\ <<>> \in Seq(Node("num")) /\ Len(<<>>) = 0 /\ DOMAIN Mem!Empty = {}
  BY DEF Mem!Empty
<1>3. \A c \in Mem!Kinds : InStep(c, <<>>, Mem!Empty)
  BY <1>2 DEF InStep, Mem!Kinds
<1>4. 0 <= Size
  BY DEF Mem!CacheAssumption
<1>5. CachesInv
  BY <1>1, <1>2, <1>3, <1>4 DEF CachesInv, Mem!Init
<1>6. Pairs(<<>>) = <<>>
  BY DEF Pairs
<1> QED BY <1>1, <1>5, <1>6

LEMMA OneMoves ==
    ASSUME CachesInv, NEW c \in Mem!Kinds, NEW L, NEW M,
           lrul' = [lrul EXCEPT ![c] = L], internalMap' = [internalMap EXCEPT ![c] = M],
           InStep(c, L, M), Len(L) <= Size,
           MapStep(Mem!Of(c), Pairs(lrul[c]), Pairs(L))
    PROVE  CachesInv' /\ Moves
<1>1. lrul' = [d \in Mem!Kinds |-> IF d = c THEN L ELSE lrul[d]]
  BY DEF CachesInv
<1>2. internalMap' = [d \in Mem!Kinds |-> IF d = c THEN M ELSE internalMap[d]]
  BY DEF CachesInv
<1>3. \A d \in Mem!Kinds : InStep(d, lrul'[d], internalMap'[d]) /\ Len(lrul'[d]) <= Size
  BY <1>1, <1>2 DEF CachesInv
<1>4. CachesInv'
  BY <1>1, <1>2, <1>3 DEF CachesInv
<1>5. Moves
  BY <1>1 DEF Moves
<1> QED BY <1>4, <1>5

LEMMA SameMoves ==
    ASSUME CachesInv, lrul' = lrul, internalMap' = internalMap
    PROVE  CachesInv' /\ Moves
  BY DEF CachesInv, Moves

LEMMA StoreMoves ==
    ASSUME CachesInv, NEW c \in Mem!Kinds, NEW k \in Mem!Of(c), NEW v \in Mem!Vals, Mem!Store(c, k, v)
    PROVE  CachesInv' /\ Moves
<1>1. PICK s : s = StoredIn(lrul[c], internalMap[c], k, v)
  OBVIOUS
<1>2. Mem!Stored(c, k, v) = s
  BY <1>1 DEF Mem!Stored, StoredIn
<1>3. Mem!CacheAssumption /\ InStep(c, lrul[c], internalMap[c]) /\ Len(lrul[c]) <= Size
  BY DEF CachesInv
<1>4. /\ InStep(c, s.list, s.map) /\ Len(s.list) <= Size
      /\ MapStep(Mem!Of(c), Pairs(lrul[c]), Pairs(s.list))
  BY <1>1, <1>3, StoreKeeps
<1>5. lrul' = [lrul EXCEPT ![c] = s.list] /\ internalMap' = [internalMap EXCEPT ![c] = s.map]
  BY <1>2 DEF Mem!Store, Mem!Becomes
<1> QED BY <1>4, <1>5, OneMoves

LEMMA EraseMoves ==
    ASSUME CachesInv, NEW c \in Mem!Kinds, NEW k, Mem!Has(internalMap[c], k), Mem!Erase(c, k)
    PROVE  CachesInv' /\ Moves
<1>1. PICK L : L = Mem!EraseNode(lrul[c], internalMap[c], k)
  OBVIOUS
<1>2. PICK M : M = Mem!EraseKey(internalMap[c], k)
  OBVIOUS
<1>3. Mem!CacheAssumption /\ InStep(c, lrul[c], internalMap[c]) /\ Len(lrul[c]) <= Size
  BY DEF CachesInv
<1>4. InStep(c, L, M) /\ Len(L) <= Size /\ MapStep(Mem!Of(c), Pairs(lrul[c]), Pairs(L))
  BY <1>1, <1>2, <1>3, RemoveKeeps DEF Mem!Has
<1>5. lrul' = [lrul EXCEPT ![c] = L] /\ internalMap' = [internalMap EXCEPT ![c] = M]
  BY <1>1, <1>2 DEF Mem!Erase, Mem!Becomes
<1> QED BY <1>4, <1>5, OneMoves

LEMMA UseMoves ==
    ASSUME CachesInv, NEW c \in Mem!Kinds, NEW L, lrul' = [lrul EXCEPT ![c] = L],
           internalMap' = internalMap, InStep(c, L, internalMap[c]), Len(L) <= Size,
           Uses(Pairs(lrul[c]), Pairs(L))
    PROVE  CachesInv' /\ Moves
<1>1. internalMap' = [internalMap EXCEPT ![c] = internalMap[c]]
  BY DEF CachesInv
<1>2. MapStep(Mem!Of(c), Pairs(lrul[c]), Pairs(L))
  BY DEF MapStep
<1> QED BY <1>1, <1>2, OneMoves

LEMMA SetMoves ==
    ASSUME CachesInv, NEW c \in Mem!Kinds, NEW k \in Mem!Of(c), NEW v \in Mem!Vals, NEW mode \in 1 .. 3,
           Mem!SetInternal(c, k, v, mode)
    PROVE  CachesInv' /\ Moves
<1>1. \/ Mem!Store(c, k, v)
      \/ Mem!Has(internalMap[c], k) /\ Mem!Erase(c, k)
      \/ lrul' = lrul /\ internalMap' = internalMap
  <2>1. CASE \/ mode = 1
             \/ mode = 2 /\ ~Mem!Has(internalMap[c], k)
             \/ mode = 3 /\ Mem!Has(internalMap[c], k)
    BY <2>1 DEF Mem!SetInternal
  <2>2. CASE mode = 2 /\ Mem!Has(internalMap[c], k)
    BY <2>2 DEF Mem!SetInternal
  <2>3. CASE mode = 3 /\ ~Mem!Has(internalMap[c], k)
    BY <2>3 DEF Mem!SetInternal
  <2> QED BY <2>1, <2>2, <2>3
<1> QED BY <1>1, StoreMoves, EraseMoves, SameMoves

LEMMA GetMoves ==
    ASSUME CachesInv, NEW c \in Mem!Kinds, NEW k, Mem!GetValue(c, k)
    PROVE  CachesInv' /\ Moves
<1>1. PICK l : l = lrul[c]
  OBVIOUS
<1>2. PICK m : m = internalMap[c]
  OBVIOUS
<1>3. PICK L : L = Mem!Splice(l, m[k])
  OBVIOUS
<1>4. InStep(c, l, m) /\ Len(l) <= Size
  BY <1>1, <1>2 DEF CachesInv
<1>5. k \in DOMAIN m /\ lrul' = [lrul EXCEPT ![c] = L] /\ internalMap' = internalMap
  BY <1>1, <1>2, <1>3 DEF Mem!GetValue, Mem!Has
<1>6. /\ InStep(c, L, m) /\ Len(L) = Len(l)
      /\ \E i \in DOMAIN Pairs(l) : Pairs(L) = Moved(Pairs(l), i)
  BY <1>3, <1>4, <1>5, UseKeeps
<1>7. Uses(Pairs(l), Pairs(L))
  BY <1>6 DEF Uses
<1> QED BY <1>1, <1>2, <1>4, <1>5, <1>6, <1>7, UseMoves

LEMMA GetsMoves ==
    ASSUME CachesInv, NEW c \in Mem!Kinds, NEW k1, NEW k2, Mem!GetValues(c, k1, k2)
    PROVE  CachesInv' /\ Moves
<1>1. PICK l : l = lrul[c]
  OBVIOUS
<1>2. PICK m : m = internalMap[c]
  OBVIOUS
<1>3. PICK L1 : L1 = Mem!Splice(l, m[k1])
  OBVIOUS
<1>4. PICK L : L = Mem!Splice(L1, m[k2])
  OBVIOUS
<1>5. InStep(c, l, m) /\ Len(l) <= Size
  BY <1>1, <1>2 DEF CachesInv
<1>6. /\ k1 \in DOMAIN m /\ k2 \in DOMAIN m
      /\ lrul' = [lrul EXCEPT ![c] = L] /\ internalMap' = internalMap
  BY <1>1, <1>2, <1>3, <1>4 DEF Mem!GetValues, Mem!Has
<1>7. InStep(c, L1, m) /\ Len(L1) = Len(l)
  BY <1>3, <1>5, <1>6, UseKeeps
<1>8. PICK i \in DOMAIN Pairs(l) : Pairs(L1) = Moved(Pairs(l), i)
  BY <1>3, <1>5, <1>6, UseKeeps
<1>9. InStep(c, L, m) /\ Len(L) = Len(L1)
  BY <1>4, <1>6, <1>7, UseKeeps
<1>10. PICK j \in DOMAIN Pairs(L1) : Pairs(L) = Moved(Pairs(L1), j)
  BY <1>4, <1>6, <1>7, UseKeeps
<1>11. DOMAIN Pairs(L1) = DOMAIN Pairs(l)
  BY <1>7 DEF Pairs
<1>12. Uses(Pairs(l), Pairs(L))
  BY <1>8, <1>10, <1>11 DEF Uses
<1> QED BY <1>1, <1>2, <1>5, <1>6, <1>7, <1>9, <1>12, UseMoves

LEMMA CounterMoves ==
    ASSUME CachesInv, NEW k \in StrKeys, NEW n, Mem!Counter(k, n)
    PROVE  CachesInv' /\ Moves
<1>1. PICK v : v = Mem!Value("str", k) + n
  OBVIOUS
<1>2. v \in Mem!Vals /\ "str" \in Mem!Kinds /\ k \in Mem!Of("str") /\ Mem!Store("str", k, v)
  BY <1>1 DEF Mem!Counter, Mem!Vals, Mem!Kinds, Mem!Of
<1> QED BY <1>2, StoreMoves

LEMMA CachesNext ==
    ASSUME CachesInv, [Mem!Next]_(Mem!vars)
    PROVE  CachesInv' /\ Moves
<1>1. ASSUME NEW c \in Mem!Kinds, NEW k \in Mem!Of(c), NEW v \in Mem!Vals,
             Mem!Set(c, k, v) \/ Mem!Add(c, k, v) \/ Mem!Replace(c, k, v)
      PROVE  CachesInv' /\ Moves
  <2>1. PICK mode \in 1 .. 3 : Mem!SetInternal(c, k, v, mode)
    BY <1>1 DEF Mem!Set, Mem!Add, Mem!Replace
  <2> QED BY <2>1, SetMoves
<1>2. ASSUME NEW c \in Mem!Kinds, NEW k \in Mem!Of(c), Mem!RemoveKey(c, k)
      PROVE  CachesInv' /\ Moves
  BY <1>2, EraseMoves DEF Mem!RemoveKey
<1>3. ASSUME NEW k \in StrKeys, Mem!CounterThrows(k)
      PROVE  CachesInv' /\ Moves
  <2>1. "str" \in Mem!Kinds /\ Mem!Has(internalMap["str"], k) /\ Mem!Erase("str", k)
    BY <1>3 DEF Mem!CounterThrows, Mem!Kinds
  <2> QED BY <2>1, EraseMoves
<1>4. ASSUME NEW q, Mem!GetFromQ(q) \/ (\E v \in Mem!Vals : Mem!AddToQ(q, v)) \/ UNCHANGED Mem!vars
      PROVE  CachesInv' /\ Moves
  BY <1>4, SameMoves DEF Mem!GetFromQ, Mem!AddToQ, Mem!vars
<1>5. CASE UNCHANGED Mem!vars
  BY <1>4, <1>5
<1>6. CASE Mem!Next
  BY <1>1, <1>2, <1>3, <1>4, <1>6, GetMoves, GetsMoves, CounterMoves DEF Mem!Next
<1> QED BY <1>5, <1>6

LEMMA EntriesFacts ==
    CachesInv => Mem!Entries("str") = Pairs(lrul["str"]) /\ Mem!Entries("num") = Pairs(lrul["num"])
  BY EntriesArePairs DEF CachesInv, Mem!Entries, Mem!Value, Mem!Kinds

\* MapStep is the next-state relation of LruMap.
LEMMA StepIsMaps ==
    /\ MapStep(StrKeys, Mem!Entries("str"), Mem!Entries("str")') <=> Mem!StrMap!Next
    /\ MapStep(NumKeys, Mem!Entries("num"), Mem!Entries("num")') <=> Mem!NumMap!Next
<1>1. MapStep(StrKeys, Mem!Entries("str"), Mem!Entries("str")') <=> Mem!StrMap!Next
  BY DEF MapStep, Stores, Uses, Drops, Moved, Fitting, WithoutKey, Mem!RemoveAt, Mem!Front,
         Mem!StrMap!Next, Mem!StrMap!Store, Mem!StrMap!Use, Mem!StrMap!Drop, Mem!StrMap!Without,
         Mem!StrMap!Stored, Mem!StrMap!Position, Mem!StrMap!ToFront, Mem!StrMap!RemoveAt, Mem!StrMap!Front
<1>2. MapStep(NumKeys, Mem!Entries("num"), Mem!Entries("num")') <=> Mem!NumMap!Next
  BY DEF MapStep, Stores, Uses, Drops, Moved, Fitting, WithoutKey, Mem!RemoveAt, Mem!Front,
         Mem!NumMap!Next, Mem!NumMap!Store, Mem!NumMap!Use, Mem!NumMap!Drop, Mem!NumMap!Without,
         Mem!NumMap!Stored, Mem!NumMap!Position, Mem!NumMap!ToFront, Mem!NumMap!RemoveAt, Mem!NumMap!Front
<1> QED BY <1>1, <1>2

(***************************************************************************)
(* MemoryCacheImpl with any keys, any values and any size: through every   *)
(* mix of set, add, replace, get, mget, remove and the counters, each of   *)
(* its two caches is to its callers an LRU map (LruMap).  The value found  *)
(* by following an iterator is the one last stored for the key, and an     *)
(* entry that no call removes is lost only as the least recently used one   *)
(* of a full cache.                                                        *)
(***************************************************************************)
THEOREM ImplementsMapHolds == Mem!CacheAssumption /\ Mem!Spec => ImplementsMap
<1>1. Mem!CacheAssumption /\ Mem!Init => CachesInv /\ Mem!StrMap!Init /\ Mem!NumMap!Init
  <2> SUFFICES ASSUME Mem!CacheAssumption, Mem!Init PROVE CachesInv /\ Mem!StrMap!Init /\ Mem!NumMap!Init
    OBVIOUS
  <2> QED BY CachesInit, EntriesFacts DEF Mem!StrMap!Init, Mem!NumMap!Init, Mem!Kinds
<1>2. CachesInv /\ [Mem!Next]_(Mem!vars) => CachesInv'
  BY CachesNext
<1>3. CachesInv /\ CachesInv' /\ [Mem!Next]_(Mem!vars)
        => [Mem!StrMap!Next]_(Mem!Entries("str")) /\ [Mem!NumMap!Next]_(Mem!Entries("num"))
  <2> SUFFICES ASSUME CachesInv, CachesInv', [Mem!Next]_(Mem!vars)
               PROVE  [Mem!StrMap!Next]_(Mem!Entries("str")) /\ [Mem!NumMap!Next]_(Mem!Entries("num"))
    OBVIOUS
  <2>1. Moves
    BY CachesNext
  <2>2. Mem!Entries("str") = Pairs(lrul["str"]) /\ Mem!Entries("num") = Pairs(lrul["num"])
    BY EntriesFacts
  <2>3. (CachesInv => Mem!Entries("str") = Pairs(lrul["str"]) /\ Mem!Entries("num") = Pairs(lrul["num"]))'
    BY EntriesFacts, PTL
  <2>4. Mem!Entries("str")' = Pairs(lrul'["str"]) /\ Mem!Entries("num")' = Pairs(lrul'["num"])
    BY <2>3
  <2>5. "str" \in Mem!Kinds /\ "num" \in Mem!Kinds /\ Mem!Of("str") = StrKeys /\ Mem!Of("num") = NumKeys
    BY DEF Mem!Kinds, Mem!Of
  <2>6. /\ \/ Mem!Entries("str")' = Mem!Entries("str")
           \/ MapStep(StrKeys, Mem!Entries("str"), Mem!Entries("str")')
        /\ \/ Mem!Entries("num")' = Mem!Entries("num")
           \/ MapStep(NumKeys, Mem!Entries("num"), Mem!Entries("num")')
    BY <2>1, <2>2, <2>4, <2>5 DEF Moves
  <2> QED BY <2>6, StepIsMaps
<1> QED BY <1>1, <1>2, <1>3, PTL DEF Mem!Spec, ImplementsMap, Mem!ImplementsMap, Mem!StrMap!Spec, Mem!NumMap!Spec
=============================================================================
