--------------------------- MODULE MCAsyncQueries ---------------------------
(***************************************************************************)
(* The three asynchronous PostgreSQL data sources for TLC, each against    *)
(* what AsyncQueries promises.  mode, chosen in Init, says which of them   *)
(* the application has configured and which requests it makes; variables   *)
(* of the others keep their values.                                        *)
(***************************************************************************)
EXTENDS Integers, Sequences, FiniteSets

CONSTANTS r1, r2, r3, r4, s1, s2, None, Out, Calling

Requests == {r1, r2, r3, r4}
Refused  == {s2}        \* statements the database does not prepare
MaxOut   == 2           \* FpgWire: statements out (100 in the code)

VARIABLES
    mode,
    Q, at, q, mulQCnt, got, finals, used,                               \* common to them
    ritem, flux, prepStmtMap, prepared, ritemDone, cmd, results, known, calling, sendFails,
    unset, reentered,
    posted, processed, sendBatch, cursor, numQueriesInBatch, outer, pipe, aborted, rejected,
    nQ, toDb, buffer, lost, peer, closed, astray

onlySingle   == <<flux, ritemDone, cmd, calling, unset, reentered>>
onlyPipeline == <<sendBatch, cursor, numQueriesInBatch, outer, pipe, aborted, rejected>>
onlyWire     == <<nQ, toDb, buffer, lost, peer, closed, astray>>
idleSingle   == <<posted, processed, onlyPipeline, onlyWire>>
idlePipeline == <<q, onlySingle, onlyWire>>
idleWire     == <<ritem, prepStmtMap, prepared, results, known, sendFails, onlySingle, onlyPipeline>>
vars == <<mode, Q, at, q, mulQCnt, got, finals, used, idleSingle, idleWire>>

-----------------------------------------------------------------------------
Select(stmt, fails)  == [select |-> TRUE, multi |-> 0, stmt |-> stmt, fails |-> fails]
Update(stmt, fails)  == [select |-> FALSE, multi |-> 0, stmt |-> stmt, fails |-> fails]
Multi(n, sel, fails) == [select |-> sel, multi |-> n, stmt |-> None, fails |-> fails]

(* A shared statement, refused statements, a multi query, a failing update. *)
MixedPlan ==
    [r \in Requests |->
        CASE r = r1 -> <<Select(s1, FALSE), Update(None, FALSE)>>
          [] r = r2 -> <<Select(s1, FALSE), Update(s2, FALSE)>>
          [] r = r3 -> <<Update(s2, FALSE)>>
          [] r = r4 -> <<Multi(3, TRUE, FALSE), Update(None, TRUE)>>]

(* A SELECT and a multi query that fail, a request without queries. *)
BrokenPlan ==
    [r \in Requests |->
        CASE r = r1 -> <<Select(s1, TRUE)>>
          [] r = r2 -> <<>>
          [] r = r3 -> <<Multi(2, FALSE, TRUE)>>
          [] r = r4 -> <<Select(None, FALSE), Select(s1, FALSE)>>]

(* A shared statement, a refused one, a query that fails. *)
FailingPlan ==
    [r \in Requests |->
        CASE r = r1 -> <<Select(s1, FALSE), Update(s2, FALSE)>>
          [] r = r2 -> <<Select(s1, FALSE)>>
          [] r = r3 -> <<Update(None, TRUE), Select(s1, FALSE)>>
          [] r = r4 -> <<Select(s1, FALSE), Select(None, FALSE)>>]

(* Multi queries, which pipeline mode refuses, and a request without any. *)
RefusingPlan ==
    [r \in Requests |->
        CASE r = r1 -> <<Multi(2, TRUE, FALSE), Update(None, FALSE)>>
          [] r = r2 -> <<Multi(2, FALSE, FALSE), Update(s1, FALSE)>>
          [] r = r3 -> <<>>
          [] r = r4 -> <<Select(s1, FALSE), Update(None, FALSE)>>]

OnWire(n, fails) == [multi |-> n, fails |-> fails]

(* One to three statements, none of which fails. *)
EndingPlan ==
    [r \in Requests |->
        CASE r = r1 -> <<OnWire(0, 0), OnWire(0, 0)>>
          [] r = r2 -> <<OnWire(0, 0)>>
          [] r = r3 -> <<OnWire(3, 0)>>
          [] r = r4 -> <<OnWire(2, 0), OnWire(0, 0)>>]

(* Requests that fail in their first statement or in the last. *)
EarlyPlan ==
    [r \in Requests |->
        CASE r = r1 -> <<OnWire(0, 1), OnWire(0, 0)>>
          [] r = r2 -> <<OnWire(0, 0)>>
          [] r = r3 -> <<OnWire(3, 3)>>
          [] r = r4 -> <<OnWire(0, 0), OnWire(0, 0)>>]

Mixed    == INSTANCE PgReadTask WITH Plan <- MixedPlan, BadStatements <- Refused, MaxSendFail <- 0
Broken   == INSTANCE PgReadTask WITH Plan <- BrokenPlan, BadStatements <- Refused, MaxSendFail <- 2
Failing  == INSTANCE PgPipeline WITH Plan <- FailingPlan, BadStatements <- Refused, MaxSendFail <- 0
Refusing == INSTANCE PgPipeline WITH Plan <- RefusingPlan, BadStatements <- Refused, MaxSendFail <- 1
Ending   == INSTANCE FpgWire WITH Plan <- EndingPlan, Pipelined <- FALSE, MayClose <- FALSE
Early    == INSTANCE FpgWire WITH Plan <- EarlyPlan, Pipelined <- FALSE, MayClose <- TRUE
Piped    == INSTANCE FpgWire WITH Plan <- EarlyPlan, Pipelined <- TRUE, MayClose <- FALSE

ASSUME PlansAssumption ==
    /\ Mixed!PlanAssumption /\ Broken!PlanAssumption
    /\ Failing!PlanAssumption /\ Refusing!PlanAssumption
    /\ Ending!PlanAssumption /\ Early!PlanAssumption /\ Piped!PlanAssumption

-----------------------------------------------------------------------------
NoSingle ==
    /\ ritem = None /\ flux = FALSE /\ prepStmtMap = {} /\ prepared = {} /\ ritemDone = FALSE
    /\ cmd = None /\ results = <<>> /\ known = {} /\ sendFails = 0
    /\ calling = 0 /\ unset = FALSE /\ reentered = FALSE
NoBatch ==
    /\ sendBatch = TRUE /\ cursor = Out /\ numQueriesInBatch = 0 /\ outer = <<>>
    /\ pipe = <<>> /\ aborted = FALSE /\ rejected = {}
NoWire ==
    /\ nQ = 0 /\ toDb = <<>> /\ buffer = <<>> /\ lost = FALSE
    /\ peer = "open" /\ closed = FALSE /\ astray = FALSE

Init ==
    \/ /\ NoBatch /\ NoWire /\ posted = {} /\ processed = {}
       /\ \/ mode = "mixed" /\ Mixed!Init
          \/ mode = "broken" /\ Broken!Init
    \/ /\ NoWire /\ q = None /\ flux = FALSE /\ ritemDone = FALSE /\ cmd = None
       /\ calling = 0 /\ unset = FALSE /\ reentered = FALSE
       /\ \/ mode = "failing" /\ Failing!Init
          \/ mode = "refusing" /\ Refusing!Init
    \/ /\ NoSingle /\ NoBatch
       /\ \/ mode = "ending" /\ Ending!Init
          \/ mode = "early" /\ Early!Init
          \/ mode = "piped" /\ Piped!Init

Single ==
    \/ mode = "mixed" /\ Mixed!Next
    \/ mode = "broken" /\ Broken!Next
Pipeline ==
    \/ mode = "failing" /\ Failing!Next
    \/ mode = "refusing" /\ Refusing!Next
Wire ==
    \/ mode = "ending" /\ Ending!Next
    \/ mode = "early" /\ Early!Next
    \/ mode = "piped" /\ Piped!Next

Next ==
    /\ \/ Single /\ UNCHANGED idleSingle
       \/ Pipeline /\ UNCHANGED idlePipeline
       \/ Wire /\ UNCHANGED idleWire
    /\ UNCHANGED mode

(* The database answers what it was asked, and the event loop reads what   *)
(* has come back; nobody need post, and a notice of the database, which    *)
(* makes run look at an idle connection, need not come.                    *)
Fairness ==
    /\ WF_vars(mode = "mixed" /\ Mixed!Serve /\ UNCHANGED <<mode, idleSingle>>)
    /\ WF_vars(mode = "mixed" /\ Mixed!Run /\ UNCHANGED <<mode, idleSingle>>)
    /\ WF_vars(mode = "failing" /\ Failing!Serve /\ UNCHANGED <<mode, idlePipeline>>)
    /\ WF_vars(mode = "failing" /\ Failing!Thread /\ UNCHANGED <<mode, idlePipeline>>)
    /\ WF_vars(mode = "ending" /\ Ending!Serve /\ UNCHANGED <<mode, idleWire>>)
    /\ WF_vars(mode = "ending" /\ Ending!Run /\ UNCHANGED <<mode, idleWire>>)

Spec == Init /\ [][Next]_vars /\ Fairness

-----------------------------------------------------------------------------
(* A request's callbacks are given the results of its own queries and of   *)
(* no other's, in order, and all of them if it is told that it succeeded,  *)
(* whatever fails around it - until submit has refused a request in the    *)
(* pipeline or on the wire, or its final callback for a command that could *)
(* not be sent has posted another (the code then gives results away) - and *)
(* the query of a request that is gone is used only after a failed SELECT  *)
(* has left it behind.                                                     *)
OwnResults ==
    CASE mode = "mixed"    -> Mixed!OwnResults
      [] mode = "broken"   -> Broken!OwnResults
      [] mode = "failing"  -> Failing!OwnResults
      [] mode = "refusing" -> Refusing!OwnResults
      [] mode = "ending"   -> Ending!OwnResults
      [] mode = "early"    -> Early!OwnResults
      [] mode = "piped"    -> Piped!OwnResults

Waiting == CASE mode = "mixed" -> Mixed!Waiting [] mode = "broken" -> Broken!Waiting [] OTHER -> Q

Promise == INSTANCE AsyncQueries WITH waiting <- Waiting

(* Whichever data source is used, each request's final callback runs once, *)
(* in the order of the posts, until submit was entered again from such a   *)
(* callback, a request was refused, or the connection is gone.             *)
Implements ==
    Promise!Init
    /\ [][Promise!Next \/ reentered' \/ rejected' # {} \/ astray' \/ closed']_<<Waiting, finals>>

(* Every request that is in the queue is answered, if requests have        *)
(* queries, commands can be sent, no SELECT fails outside a pipeline,      *)
(* nothing fails on the wire, the connection holds and no notice makes run *)
(* look at an idle pipeline: each of these leaves the rest of the queue    *)
(* with nothing to move it.                                                *)
RequestAnswered ==
    \A r \in Requests :
        (mode \in {"mixed", "failing", "ending"} /\ \E i \in DOMAIN Q : Q[i] = r)
            ~> (finals[r] # <<>> \/ used = "spins")
=============================================================================
