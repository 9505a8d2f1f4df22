------------------------------ MODULE MCCaches ------------------------------
(***************************************************************************)
(* The distributed cache (CacheMap) in four uses, two or three callers     *)
(* over two connections, and beside it the cache in memory (MemoryCache).  *)
(* The two share no state: while the plan is "memory" the distributed      *)
(* cache rests, and in the other plans the cache in memory does.           *)
(***************************************************************************)
EXTENDS Caches

CONSTANTS t1, t2, t3, a, b, k1, k2, k3

ASSUME MemoryAssumption == Mem!CacheAssumption

Cmd(op, key, n, v) == [op |-> op, key |-> key, n |-> n, v |-> v, r |-> 2]
New(key, type) == Cmd("allocate", key, 0, type)
Free(key) == Cmd("deallocate", key, 0, 0)

TwoHomes == t1 :> a @@ t2 :> b @@ t3 :> a

\* One list, changed at both ends and by position.
ListCommands ==
  t1 :> {New(k1, "list"), Cmd("pushback", k1, 0, 1), Cmd("remove", k1, 0, 0)}
  @@ t2 :> {Cmd("pushfront", k1, 0, 3), Cmd("get", k1, 1, 0), Cmd("insertrep", k1, 0, 5),
            Cmd("popbackget", k1, 0, 0)}
  @@ t3 :> {}

\* A set and single objects, with two callers on one connection.
SharedCommands ==
  t1 :> {New(k1, "set"), Cmd("add", k1, 0, 2), Cmd("addobj", k1, 0, 1)}
  @@ t2 :> {Cmd("remove", k1, 0, 0), Cmd("getobj", k1, 0, 0), New(k2, "tree")}
  @@ t3 :> {Cmd("isempty", k1, 0, 0), Cmd("removeobj", k1, 0, 0)}

\* One map, by field and by position.
MapCommands ==
  t1 :> {New(k1, "map"), Cmd("addmap", k1, 1, 1), Cmd("getmap", k1, 2, 0), Cmd("setmap", k1, 0, 7)}
  @@ t2 :> {Cmd("addmap", k1, 2, 2), Cmd("removemap", k1, 1, 0), Cmd("getbypos", k1, 0, 0)}
  @@ t3 :> {}

\* Containers that come and go, as another type too, under another caller's calls,
\* which allocates the key like every caller that has not used it yet.
FreeCommands ==
  t1 :> {New(k1, "deque"), Free(k1)}
  @@ t2 :> {New(k1, "list"), Free(k1), Cmd("pushback", k1, 0, 1)}
  @@ t3 :> {}

PlanCommands ==
  "list" :> ListCommands @@ "shared" :> SharedCommands @@ "map" :> MapCommands
  @@ "free" :> FreeCommands @@ "memory" :> [t \in Callers |-> {}]
PlanCalls == "list" :> 3 @@ "shared" :> 2 @@ "map" :> 3 @@ "free" :> 3 @@ "memory" :> 0

memoryVars == <<lrul, internalMap, locked, internalQMap>>

CachesInit == Init /\ Mem!Init
CachesNext ==
  \/ Next /\ UNCHANGED memoryVars
  \/ plan = "memory" /\ Mem!Next /\ UNCHANGED vars

CachesSpec == CachesInit /\ [][CachesNext]_<<vars, memoryVars>> /\ Fairness
=============================================================================
