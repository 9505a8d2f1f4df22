------------------------------- MODULE Caches -------------------------------
(***************************************************************************)
(* The distributed cache (CacheMap) and beside it the cache in memory      *)
(* (MemoryCache), which shares no state with it.                           *)
(***************************************************************************)
EXTENDS CacheMap

CONSTANTS
    StrKeys, NumKeys, MaxVal, Text, Size,   \* of the cache in memory
    Queues, MaxQueue

VARIABLES lrul, internalMap, locked, internalQMap

Mem == INSTANCE MemoryCache

\* To its callers each cache in memory is a map of at most Size entries that
\* evicts the least recently used one and only when it is full: the list and
\* the hash map of iterators into it stay in step through every mix of sets,
\* adds, replaces, reads, counters and removals, and no iterator dangles.
ImplementsMap == Mem!ImplementsMap
=============================================================================
