------------------------------- MODULE HiloIds -------------------------------
(***************************************************************************)
(* Identifiers of type "hilo" (sdorm/IDGenerator.cpp, HiloIdGenerator.cpp  *)
(* and executePreTable, executePostTable, executeSequence of               *)
(* sdorm/sql/SQLDataSourceImpl.cpp).  A high value is reserved in the      *)
(* database, one at a time, and stands for a block of Low identifiers that *)
(* the process hands out from memory under a lock.  Every data source      *)
(* reserves a new block when it is created, and again when the block in    *)
(* memory is used up; all threads and data sources of a process share that *)
(* block, and several processes, or one before and after a restart, share  *)
(* the database.                                                           *)
(*                                                                         *)
(* Statements run under autocommit: the row lock of "select ... for        *)
(* update" is gone when the update that follows it runs, so that both are  *)
(* steps of their own.  A statement may fail.  execute then returns no row *)
(* and nobody looks: what should have been read is -1, and IDGenerator     *)
(* takes that for a high value as well.                                    *)
(***************************************************************************)
EXTENDS Integers, FiniteSets

CONSTANTS
    Processes,   \* server processes on one database
    Threads,     \* per process, threads that insert entities
    Low,         \* idgenlowValue
    EntityType,  \* idgendbEntityType: "table" or "sequence"
    MaxHi,       \* bound: high values the database gives out
    MaxFailures  \* bound: statements that fail

HiloAssumption ==
    /\ Low \in Nat \ {0} /\ MaxHi \in Nat /\ MaxFailures \in Nat
    /\ EntityType \in {"table", "sequence"}

VARIABLES
    db,      \* the next high value in the database
    ids,     \* per process, idsInSession: the next identifier, or None
    top,     \* per process, hiloIdMaxValuesInSession
    at,      \* per thread
    hi,      \* per thread, the high value it has read or reserved
    outer,   \* per thread, some call of next on its stack found the block used up
    given,   \* identifiers inserted, each with how many entities it went to,
             \* up to 2; for a negative one, whether it went to any
    missed,  \* history: an update of the row found another value than the one read
    unsaved, \* history: updates of the row that failed
    failed   \* history: queries for a high value that failed

hiloVars == <<db, ids, top, at, hi, outer, given, missed, unsaved, failed>>
events   == <<missed, unsaved, failed>>

Agents == Processes \X Threads
None   == -1     \* no block; and the high value of a failed query
UsedUp == -2     \* what HiloIdGenerator::next returns for a used-up block

Id == -Low .. (MaxHi + 1) * Low

HiloInit ==
    /\ db = 0
    /\ ids = [p \in Processes |-> None]
    /\ top = [p \in Processes |-> None]
    /\ at = [a \in Agents |-> "closed"]
    /\ hi = [a \in Agents |-> None]
    /\ outer = [a \in Agents |-> FALSE]
    /\ given = [i \in Id |-> 0]
    /\ missed = FALSE /\ unsaved = 0 /\ failed = 0

MayFail == failed + unsaved < MaxFailures

Goto(a, l) == at' = [at EXCEPT ![a] = l]

(* DataSourceManager::getImpl: init with forceReinit for the entity, so a *)
(* new data source always begins with a reservation.                      *)
OpenSource(a) ==
    /\ at[a] = "closed"
    /\ Goto(a, "reserve")
    /\ UNCHANGED <<db, ids, top, hi, outer, given, events>>

(* executeSequence: reading the sequence and moving it on is one           *)
(* statement; when it fails it may have moved on all the same.             *)
NextInSequence(a) ==
    /\ at[a] = "reserve" /\ EntityType = "sequence"
    /\ \/ /\ db < MaxHi
          /\ hi' = [hi EXCEPT ![a] = db]
          /\ db' = db + 1
          /\ UNCHANGED failed
       \/ /\ MayFail /\ failed' = failed + 1
          /\ hi' = [hi EXCEPT ![a] = None]
          /\ db' \in {db, db + 1} /\ db' <= MaxHi
    /\ Goto(a, "install")
    /\ UNCHANGED <<ids, top, outer, given, missed, unsaved>>

(* executePreTable: select the high value. *)
SelectHi(a) ==
    /\ at[a] = "reserve" /\ EntityType = "table"
    /\ \/ db < MaxHi /\ hi' = [hi EXCEPT ![a] = db] /\ UNCHANGED failed
       \/ MayFail /\ hi' = [hi EXCEPT ![a] = None] /\ failed' = failed + 1
    /\ Goto(a, "update")
    /\ UNCHANGED <<db, ids, top, outer, given, missed, unsaved>>

(* executePostTable: "update ... set col = hi+1 where col = hi".  When the *)
(* row has moved on, or hi is the -1 of a failed query, the statement      *)
(* changes nothing; it may also fail, which changes nothing either.        *)
(* Nobody looks.                                                           *)
UpdateHi(a) ==
    /\ at[a] = "update"
    /\ \/ /\ db' = IF db = hi[a] THEN hi[a] + 1 ELSE db
          /\ missed' = (missed \/ (hi[a] # None /\ db # hi[a]))
          /\ UNCHANGED unsaved
       \/ /\ MayFail /\ hi[a] # None
          /\ unsaved' = unsaved + 1
          /\ UNCHANGED <<db, missed>>
    /\ Goto(a, "install")
    /\ UNCHANGED <<ids, top, hi, outer, given, failed>>

(* HiloIdGenerator::init with forceReinit: the block in memory is replaced *)
(* under the lock, whatever is left of the old one.  A thread that came    *)
(* here from next tries again.                                             *)
InstallBlock(a) ==
    /\ at[a] = "install"
    /\ ids' = [ids EXCEPT ![a[1]] = hi[a] * Low]
    /\ top' = [top EXCEPT ![a[1]] = (hi[a] + 1) * Low - 1]
    /\ hi' = [hi EXCEPT ![a] = None]
    /\ Goto(a, IF outer[a] THEN "next" ELSE "open")
    /\ UNCHANGED <<db, outer, given, events>>

(* insert: executeInsertInternal assigns an identifier first. *)
Insert(a) ==
    /\ at[a] = "open"
    /\ Goto(a, "next")
    /\ UNCHANGED <<db, ids, top, hi, outer, given, events>>

Free(p) == ids[p] + 1 < top[p]

Give(i) == given' = [given EXCEPT ![i] = IF @ = 0 \/ i < 0 THEN 1 ELSE 2]

(* Mutant: the lock of HiloIdGenerator::next covers only the look: the     *)
(* identifier moves on for one thread of two.                              *)
NextIdUnlocked(a) ==
    /\ at[a] = "next" /\ Free(a[1])
    /\ ids' = [ids EXCEPT ![a[1]] = @ + 1]
    /\ \E v \in {ids[a[1]], ids[a[1]] - 1} \cap Id : Give(v)
    /\ Goto(a, "open")
    /\ UNCHANGED <<db, top, hi, outer, events>>

(* IDGenerator::next with a block that has some left: the identifier goes  *)
(* to the entity, unless an outer call on the stack found its block used   *)
(* up, for that call then overwrites it with its own result, UsedUp.       *)
NextId(a) ==
    /\ at[a] = "next" /\ Free(a[1])
    /\ ids' = [ids EXCEPT ![a[1]] = @ + 1]
    /\ Give(IF outer[a] THEN UsedUp ELSE ids[a[1]])
    /\ outer' = [outer EXCEPT ![a] = FALSE]
    /\ Goto(a, "open")
    /\ UNCHANGED <<db, top, hi, events>>

(* IDGenerator::next with a used-up block: reserve another and call next   *)
(* again.                                                                  *)
NextUsedUp(a) ==
    /\ at[a] = "next" /\ ~Free(a[1])
    /\ outer' = [outer EXCEPT ![a] = TRUE]
    /\ Goto(a, "reserve")
    /\ UNCHANGED <<db, ids, top, hi, given, events>>

(* cleanImpl: the data source is gone, the block stays in memory. *)
CloseSource(a) ==
    /\ at[a] = "open"
    /\ Goto(a, "closed")
    /\ UNCHANGED <<db, ids, top, hi, outer, given, events>>

(* A process dies and starts again: its memory is lost, the row is not. *)
Restart(p) ==
    /\ ids' = [ids EXCEPT ![p] = None]
    /\ top' = [top EXCEPT ![p] = None]
    /\ at' = [a \in Agents |-> IF a[1] = p THEN "closed" ELSE at[a]]
    /\ hi' = [a \in Agents |-> IF a[1] = p THEN None ELSE hi[a]]
    /\ outer' = [a \in Agents |-> IF a[1] = p THEN FALSE ELSE outer[a]]
    /\ UNCHANGED <<db, given, events>>

Reserve(a) == NextInSequence(a) \/ SelectHi(a) \/ UpdateHi(a) \/ InstallBlock(a)

HiloNext ==
    \/ \E a \in Agents : \/ OpenSource(a) \/ Reserve(a) \/ Insert(a)
                         \/ NextId(a) \/ NextUsedUp(a) \/ CloseSource(a)
    \/ \E p \in Processes : Restart(p)

HiloSpec == HiloInit /\ [][HiloNext]_hiloVars

-------------------------------------------------------------------------------
Once     == \A i \in Id : given[i] > 1 => i < 0 \/ missed \/ unsaved > 0
Reserved == \A i \in Id : given[i] > 0 => i < 0 \/ i < db * Low \/ unsaved > 0
Negative == \A i \in Id : given[i] > 0 /\ i < 0 => i = UsedUp \/ failed > 0

(* No identifier from 0 on goes to two entities, whichever threads and     *)
(* processes insert, whatever reservations overlap and whenever a process  *)
(* restarts, unless in a table row an update missed the value it was to    *)
(* replace or failed: the same block is then installed twice.  Nor will it *)
(* later: one that is in use lies below every block the database has still *)
(* to give, also after a crash between any two steps, unless an update     *)
(* failed.  Negative identifiers, which go to many entities, come from two *)
(* sources only: -2 from a block that was used up, and others (a block     *)
(* from -1) from a query that failed.                                      *)
Unique == Once /\ Reserved /\ Negative
===============================================================================
