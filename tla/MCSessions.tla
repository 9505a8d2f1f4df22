----------------------------- MODULE MCSessions -----------------------------
(***************************************************************************)
(* What the sessions of many threads share, for TLC: the connections they  *)
(* check out (ConnectionPool) and the identifiers they give to new         *)
(* entities (HiloIds), the latter from a table row with two threads in one *)
(* process, or from a sequence with two processes.  part, chosen in Init,  *)
(* says which of the three moves; the properties of HiloIds read the same  *)
(* for a row and for a sequence.                                           *)
(***************************************************************************)
EXTENDS ConnectionPool, HiloIds

CONSTANTS p1, p2, t1

VARIABLE part

allVars == <<part, vars, hiloVars>>

Sequence == INSTANCE HiloIds WITH
    Processes <- {p1, p2}, Threads <- {t1}, EntityType <- "sequence"

ASSUME IdsAssumption == HiloAssumption /\ Sequence!HiloAssumption

(* A pool that rests keeps the state of a complete createPool. *)
SessionsInit ==
    /\ part \in {"pool", "table", "sequence"}
    /\ Init
    /\ part = "pool" \/ open = 1 .. PoolSize
    /\ IF part = "sequence" THEN Sequence!HiloInit ELSE HiloInit

SessionsNext ==
    /\ UNCHANGED part
    /\ \/ part = "pool" /\ Next /\ UNCHANGED hiloVars
       \/ part = "table" /\ HiloNext /\ UNCHANGED vars
       \/ part = "sequence" /\ Sequence!HiloNext /\ UNCHANGED vars

(* A thread in the middle of an operation goes on. *)
SessionsSpec ==
    /\ SessionsInit /\ [][SessionsNext]_allVars
    /\ \A c \in Clients : WF_allVars(part = "pool" /\ Step(c) /\ UNCHANGED <<part, hiloVars>>)
=============================================================================
