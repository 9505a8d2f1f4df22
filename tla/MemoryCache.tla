----------------------------- MODULE MemoryCache ----------------------------
(***************************************************************************)
(* MemoryCacheImpl: two LRU caches, one with string keys and one with      *)
(* numeric keys, and a map of queues.  A cache is a std::list of pairs,    *)
(* newest first, and a hash map from keys to iterators into that list; an  *)
(* iterator is the identity of a list node here.  All operations of both   *)
(* caches run under the one mutex lock, so each is a single step; the      *)
(* queues have a mutex of their own.                                       *)
(*                                                                         *)
(* increment and decrement convert the stored string to a number and throw *)
(* when it is none; they do so between lock() and unlock().                *)
(***************************************************************************)
EXTENDS Integers, Sequences, FiniteSets, SequencesExt

CONSTANTS
    StrKeys,        \* string keys
    NumKeys,        \* numeric keys
    MaxVal,         \* bound: the largest number stored
    Text,           \* a value that is not a number
    Size,           \* MemoryCacheConnectionPool::size
    Queues,         \* names of queues
    MaxQueue        \* bound: the longest queue

CacheAssumption == Size \in Nat \ {0} /\ MaxVal \in Nat /\ Text \notin Int

Kinds   == {"str", "num"}
Of(c)   == IF c = "str" THEN StrKeys ELSE NumKeys
Numbers == 0 .. MaxVal
Vals    == Numbers \cup {Text}

VARIABLES
    lrul,           \* lrul[c]: the list of cache c, nodes [id, key, val]
    internalMap,    \* internalMap[c]: from keys to node identities
    locked,         \* lock is held and its holder has gone
    internalQMap    \* internalQMap[q]: the queue q

vars == <<lrul, internalMap, locked, internalQMap>>

Ids == 1 .. Size + 1

Empty == [k \in {} |-> 0]

Init ==
    /\ lrul = [c \in Kinds |-> <<>>]
    /\ internalMap = [c \in Kinds |-> Empty]
    /\ locked = FALSE
    /\ internalQMap = [q \in Queues |-> <<>>]

-----------------------------------------------------------------------------
(* The list and the map; l is a list and m a map *)

NodeIds(l)  == {l[i].id : i \in 1 .. Len(l)}
Has(m, k)   == k \in DOMAIN m
At(l, n)    == CHOOSE i \in 1 .. Len(l) : l[i].id = n

\* lrul.erase(it->second); internalMap.erase(it)
EraseNode(l, m, k) == RemoveAt(l, At(l, m[k]))
EraseKey(m, k)     == [x \in DOMAIN m \ {k} |-> m[x]]

\* push_front and insert, in a node the allocator has free
FreeId(l) == CHOOSE n \in Ids : n \notin NodeIds(l)
PushFront(l, k, v) == <<[id |-> FreeId(l), key |-> k, val |-> v]>> \o l
Insert(m, k, n)    == [x \in DOMAIN m \cup {k} |-> IF x = k THEN n ELSE m[x]]

\* splice(begin, lrul, it->second): the node moves to the front
Splice(l, n) == <<l[At(l, n)]>> \o RemoveAt(l, At(l, n))

\* Mutant: clean starts one entry early.
CleanEager(l, m) ==
    IF Cardinality(DOMAIN m) >= Size
    THEN [list |-> Front(l), map |-> EraseKey(m, Last(l).key)]
    ELSE [list |-> l, map |-> m]

\* clean: the map never has more than one entry too many.
Clean(l, m) ==
    IF Cardinality(DOMAIN m) > Size
    THEN [list |-> Front(l), map |-> EraseKey(m, Last(l).key)]
    ELSE [list |-> l, map |-> m]

\* Erases k if it is there, then stores v for it at the front.
Stored(c, k, v) ==
    LET l == IF Has(internalMap[c], k) THEN EraseNode(lrul[c], internalMap[c], k)
                                       ELSE lrul[c]
        f == PushFront(l, k, v)
    IN  Clean(f, Insert(internalMap[c], k, Head(f).id))

Becomes(c, s) ==
    /\ lrul' = [lrul EXCEPT ![c] = s.list]
    /\ internalMap' = [internalMap EXCEPT ![c] = s.map]

Store(c, k, v) == Becomes(c, Stored(c, k, v))
Erase(c, k)    == Becomes(c, [list |-> EraseNode(lrul[c], internalMap[c], k),
                              map  |-> EraseKey(internalMap[c], k)])

Value(c, k) == lrul[c][At(lrul[c], internalMap[c][k])].val

-----------------------------------------------------------------------------
(* The operations *)

\* setInternal with setOrAddOrRep 1, 2 or 3.  An entry that is there is erased
\* before the mode is looked at: add of a present key erases it, returns false.
SetInternal(c, k, v, mode) ==
    /\ ~locked
    /\ LET exists == Has(internalMap[c], k)
       IN  CASE mode = 1 \/ (mode = 2 /\ ~exists) \/ (mode = 3 /\ exists) -> Store(c, k, v)
             [] mode = 2 /\ exists -> Erase(c, k)
             [] mode = 3 /\ ~exists -> UNCHANGED <<lrul, internalMap>>
    /\ UNCHANGED <<locked, internalQMap>>

Set(c, k, v)     == SetInternal(c, k, v, 1)
Add(c, k, v)     == SetInternal(c, k, v, 2)
Replace(c, k, v) == SetInternal(c, k, v, 3)

\* getValue of a key that is there; any other changes nothing.
GetValue(c, k) ==
    /\ ~locked /\ Has(internalMap[c], k)
    /\ lrul' = [lrul EXCEPT ![c] = Splice(@, internalMap[c][k])]
    /\ UNCHANGED <<internalMap, locked, internalQMap>>

\* mgetRaw and getValues of two keys under one lock
GetValues(c, k1, k2) ==
    /\ ~locked /\ k1 # k2 /\ Has(internalMap[c], k1) /\ Has(internalMap[c], k2)
    /\ LET l == Splice(lrul[c], internalMap[c][k1])
       IN  lrul' = [lrul EXCEPT ![c] = Splice(l, internalMap[c][k2])]
    /\ UNCHANGED <<internalMap, locked, internalQMap>>

RemoveKey(c, k) ==
    /\ ~locked /\ Has(internalMap[c], k)
    /\ Erase(c, k)
    /\ UNCHANGED <<locked, internalQMap>>

\* increment, decrement, incrementFloat, decrementFloat by n
Counter(k, n) ==
    /\ ~locked /\ Has(internalMap["str"], k)
    /\ Value("str", k) # Text /\ Value("str", k) + n \in Numbers
    /\ Store("str", k, Value("str", k) + n)
    /\ UNCHANGED <<locked, internalQMap>>

\* toLongdouble throws: the entry is gone already and the mutex stays locked.
CounterThrows(k) ==
    /\ ~locked /\ Has(internalMap["str"], k)
    /\ Value("str", k) = Text
    /\ Erase("str", k)
    /\ locked' = TRUE
    /\ UNCHANGED internalQMap

AddToQ(q, v) ==
    /\ Len(internalQMap[q]) < MaxQueue
    /\ internalQMap' = [internalQMap EXCEPT ![q] = Append(@, v)]
    /\ UNCHANGED <<lrul, internalMap, locked>>

GetFromQ(q) ==
    /\ internalQMap[q] # <<>>
    /\ internalQMap' = [internalQMap EXCEPT ![q] = Tail(@)]
    /\ UNCHANGED <<lrul, internalMap, locked>>

Next ==
    \/ \E c \in Kinds : \E k \in Of(c) :
         \/ \E v \in Vals : Set(c, k, v) \/ Add(c, k, v) \/ Replace(c, k, v)
         \/ GetValue(c, k) \/ RemoveKey(c, k)
         \/ \E k2 \in Of(c) : GetValues(c, k, k2)
    \/ \E k \in StrKeys : CounterThrows(k) \/ \E n \in {-1, 1} : Counter(k, n)
    \/ \E q \in Queues : GetFromQ(q) \/ \E v \in Vals : AddToQ(q, v)

Spec == Init /\ [][Next]_vars

-----------------------------------------------------------------------------
(* Properties *)

\* To its callers each cache is a map of at most Size entries that evicts the
\* least recently used one and only when it is full: the list and the hash map
\* of iterators into it stay in step through every mix of sets, adds, replaces,
\* reads, counters and removals, and no iterator dangles.
Entries(c) == [i \in DOMAIN lrul[c] |-> <<lrul[c][i].key, Value(c, lrul[c][i].key)>>]
StrMap == INSTANCE LruMap WITH entries <- Entries("str"), Keys <- StrKeys
NumMap == INSTANCE LruMap WITH entries <- Entries("num"), Keys <- NumKeys
ImplementsMap == StrMap!Spec /\ NumMap!Spec
=============================================================================
