----------------------------- MODULE PgPipeline -----------------------------
(***************************************************************************)
(* The asynchronous PostgreSQL data source in pipeline mode                *)
(* (PgBatchReadTask): submit puts the queries of every request that is not *)
(* processed into one batch, ends it with a sync and sends no other until  *)
(* the answer to the sync is read; run gives each result to the front      *)
(* query of the front request.  The database answers in order and skips    *)
(* what follows an error up to the sync.  Queries are as in PgReadTask.    *)
(***************************************************************************)
EXTENDS Integers, Sequences, FiniteSets

CONSTANTS
    Requests,
    Plan,           \* request -> sequence of its queries
    BadStatements,  \* prepared statements the database refuses
    MaxSendFail,    \* bound: PQsend* calls that fail
    None, Out, Calling   \* cursor: between requests; outside submit; in a callback

PlanAssumption == DOMAIN Plan = Requests /\ MaxSendFail \in Nat

VARIABLES
    Q, at, ritem, prepStmtMap, prepared, got, finals, sendFails,   \* as in PgReadTask
    posted,     \* requests that were posted
    mulQCnt,    \* request -> statements of its multi query without a result
    processed,  \* requests submit has been through
    sendBatch,  \* no batch is out
    cursor,     \* submit: query to be put into the batch, None between requests,
                \* Calling in the final callback of a request given up; or Out
    numQueriesInBatch,
    outer,      \* numQueriesInBatch of the calls of submit whose callback has
                \* entered submit again, the innermost first
    pipe,       \* commands on their way to the database
    aborted,    \* the database skips commands up to the next sync
    known,      \* statements the database has prepared
    results,    \* results on their way back
    used,       \* "ok"; "null": run has used a query that is not there;
                \* "spins": run asks for results for ever
    rejected    \* history: requests submit gave up in the middle

loop  == <<Q, at, ritem, mulQCnt>>
batch == <<processed, sendBatch, cursor, numQueriesInBatch, outer, prepStmtMap>>
db    == <<pipe, aborted, known, results>>
notes == <<got, finals, used, rejected>>
vars  == <<loop, batch, db, notes, prepared, sendFails, posted>>

Query(x)  == Plan[x[1]][x[2]]

Init ==
    /\ Q = <<>> /\ at = [r \in Requests |-> 1] /\ ritem = None
    /\ mulQCnt = [r \in Requests |-> 2]
    /\ processed = {} /\ sendBatch = TRUE /\ cursor = Out /\ numQueriesInBatch = 0
    /\ outer = <<>> /\ prepStmtMap = {} /\ prepared = {}
    /\ pipe = <<>> /\ aborted = FALSE /\ known = {} /\ results = <<>>
    /\ got = [r \in Requests |-> <<>>] /\ finals = [r \in Requests |-> <<>>]
    /\ sendFails = 0 /\ posted = {} /\ used = "ok" /\ rejected = {}

Final(r, ok) == finals' = [finals EXCEPT ![r] = Append(@, ok)]

-----------------------------------------------------------------------------
(* submit: nothing while a batch is out; otherwise it goes through Q.      *)
(* Called from a callback of submit it leaves that call's count on the     *)
(* stack.                                                                  *)
Submit(ready) ==
    IF ready
    THEN /\ cursor' = None /\ numQueriesInBatch' = 0
         /\ outer' = IF cursor = Calling THEN <<numQueriesInBatch>> \o outer ELSE outer
    ELSE UNCHANGED <<cursor, numQueriesInBatch, outer>>

Idle == used = "ok" /\ cursor = Out

(* getAsyncRequest, the caller's queries, postAsync: from a handler, or    *)
(* from a callback while run is reading or submit is telling a request     *)
(* that it was given up.                                                   *)
Post(r) ==
    /\ used = "ok" /\ cursor \in {Out, Calling} /\ r \notin posted
    /\ posted' = posted \cup {r}
    /\ Q' = Append(Q, r)
    /\ Submit(sendBatch)
    /\ UNCHANGED <<at, ritem, mulQCnt, processed, sendBatch, prepStmtMap, prepared, db, notes, sendFails>>

Unprocessed == {i \in DOMAIN Q : Q[i] \notin processed}

(* submit, the next request that is not processed. *)
TakeRequest ==
    /\ used = "ok" /\ cursor = None /\ Unprocessed # {}
    /\ LET r == Q[CHOOSE i \in Unprocessed : \A j \in Unprocessed : i <= j]
       IN /\ processed' = processed \cup {r}
          /\ cursor' = IF Plan[r] = <<>> THEN None ELSE <<r, at[r]>>
    /\ UNCHANGED <<loop, sendBatch, numQueriesInBatch, outer, prepStmtMap, db, notes, prepared,
                   sendFails, posted>>

Following(x) == IF x[2] = Len(Plan[x[1]]) THEN None ELSE <<x[1], x[2] + 1>>

(* batchQueries gives up: the caller is told, the request stays in Q. *)
GiveUp(x) ==
    /\ Final(x[1], FALSE)
    /\ rejected' = rejected \cup {x[1]}
    /\ cursor' = Calling
    /\ UNCHANGED <<got, used>>

(* The callback returns to submit. *)
Returns ==
    /\ used = "ok" /\ cursor = Calling
    /\ cursor' = None
    /\ UNCHANGED <<loop, processed, sendBatch, numQueriesInBatch, outer, prepStmtMap, db, notes,
                   prepared, sendFails, posted>>

AtQuery == used = "ok" /\ cursor \notin {Out, None, Calling}

(* batchQueries, a multi query. *)
RefuseMulti ==
    /\ AtQuery /\ Query(cursor).multi > 0
    /\ GiveUp(cursor)
    /\ UNCHANGED <<loop, processed, sendBatch, numQueriesInBatch, outer, prepStmtMap, db, prepared,
                   sendFails, posted>>

Command(type, x) == [type |-> type, of |-> x]

(* batchQueries, a query: PREPARE if its statement has no name yet, and    *)
(* the query itself. *)
BatchQuery ==
    /\ AtQuery /\ Query(cursor).multi = 0
    /\ LET stmt == Query(cursor).stmt
           new  == stmt \notin prepStmtMap \cup {None}
           prep == IF new THEN <<Command("prepare", cursor)>> ELSE <<>>
       IN /\ prepStmtMap' = IF new THEN prepStmtMap \cup {stmt} ELSE prepStmtMap
          /\ prepared' = IF stmt # None /\ ~new THEN prepared \cup {cursor} ELSE prepared
          /\ \/ /\ pipe' = pipe \o prep \o <<Command("exec", cursor)>>
                /\ numQueriesInBatch' = numQueriesInBatch + Len(prep) + 1
                /\ cursor' = Following(cursor)
                /\ UNCHANGED <<notes, sendFails>>
             \/ /\ sendFails < MaxSendFail      \* PQsendPrepare or PQsendQuery* fails
                /\ sendFails' = sendFails + 1
                /\ \E s \in IF new THEN {<<>>, prep} ELSE {<<>>} :
                      /\ pipe' = pipe \o s
                      /\ numQueriesInBatch' = numQueriesInBatch + Len(s) + 1
                /\ GiveUp(cursor)
    /\ UNCHANGED <<loop, processed, sendBatch, outer, aborted, known, results, posted>>

(* submit, once Q has been gone through: back to the caller, which may be  *)
(* the callback of another submit; that one ends its batch as well.        *)
EndBatch ==
    /\ used = "ok" /\ cursor = None /\ Unprocessed = {}
    /\ IF outer = <<>>
       THEN cursor' = Out /\ UNCHANGED <<numQueriesInBatch, outer>>
       ELSE cursor' = Calling /\ numQueriesInBatch' = Head(outer) /\ outer' = Tail(outer)
    /\ IF numQueriesInBatch > 0
       THEN pipe' = Append(pipe, Command("sync", None)) /\ sendBatch' = FALSE
       ELSE UNCHANGED <<pipe, sendBatch>>
    /\ UNCHANGED <<loop, processed, prepStmtMap, aborted, known, results,
                   notes, prepared, sendFails, posted>>

-----------------------------------------------------------------------------
(* External: the database takes the next command. *)
Serve ==
    /\ pipe # <<>> /\ pipe' = Tail(pipe)
    /\ LET c  == Head(pipe)
           qu == Query(c.of)
           ok == /\ ~aborted
                 /\ IF c.type = "prepare" THEN qu.stmt \notin BadStatements
                    ELSE ~qu.fails /\ qu.stmt \in known \cup {None}
       IN IF c.type = "sync"
          THEN /\ results' = Append(results, [type |-> "sync", ok |-> TRUE, of |-> None])
               /\ aborted' = FALSE /\ UNCHANGED known
          ELSE /\ results' = Append(results, [type |-> c.type, ok |-> ok, of |-> c.of])
               /\ aborted' = ~ok
               /\ known' = IF ok /\ c.type = "prepare" THEN known \cup {qu.stmt} ELSE known
    /\ UNCHANGED <<loop, batch, notes, prepared, sendFails, posted>>

(* run, the end of the batch: it stops reading and submits. *)
ReadSync ==
    /\ Idle /\ results # <<>> /\ Head(results).type = "sync"
    /\ results' = Tail(results)
    /\ sendBatch' = TRUE
    /\ Submit(TRUE)
    /\ UNCHANGED <<loop, processed, prepStmtMap, pipe, aborted, known, notes, prepared, sendFails, posted>>

(* run, called by the loop for a notice while nothing is out: PQisBusy is  *)
(* false, PQgetResult has no result, and the loop around them never ends.  *)
Notice ==
    /\ Idle /\ pipe = <<>> /\ results = <<>>
    /\ used' = "spins"
    /\ UNCHANGED <<loop, batch, db, got, finals, rejected, prepared, sendFails, posted>>

Front == IF ritem # None THEN ritem ELSE IF Q = <<>> THEN None ELSE Head(Q)

Reading ==
    /\ Idle /\ results # <<>> /\ Head(results).type # "sync"
    /\ results' = Tail(results)
    /\ UNCHANGED <<batch, pipe, aborted, known, sendFails, posted, rejected>>

(* run, a result without a request: dropped; or for a request without      *)
(* queries: run goes through a null pointer.                               *)
NoQuery ==
    /\ Reading
    /\ Front # None => at[Front] > Len(Plan[Front])
    /\ used' = IF Front = None THEN used ELSE "null"
    /\ UNCHANGED <<loop, prepared, got, finals>>

(* run, a result for q, the front query of the front request. *)
Reads(ok) ==
    /\ Reading /\ Front # None /\ at[Front] <= Len(Plan[Front])
    /\ Head(results).ok = ok
    /\ UNCHANGED used

q       == <<Front, at[Front]>>
Prepare == Query(q).stmt # None /\ q \notin prepared
Pop     == Q' = Tail(Q) /\ ritem' = None

Prepared ==
    /\ Reads(TRUE) /\ Prepare
    /\ prepared' = prepared \cup {q}
    /\ ritem' = Front
    /\ UNCHANGED <<Q, at, mulQCnt, got, finals>>

(* Mutant: the request is told of the failure and stays. *)
FailedNoPop ==
    /\ Reads(FALSE)
    /\ Final(Front, FALSE) /\ ritem' = None
    /\ UNCHANGED <<Q, at, mulQCnt, prepared, got>>

Failed ==
    /\ Reads(FALSE)
    /\ Final(Front, FALSE) /\ Pop
    /\ UNCHANGED <<at, mulQCnt, prepared, got>>

(* A multi query in front - one that was refused - counts the results down *)
(* and an update of that kind stays in front when it is not the last.      *)
Result ==
    /\ Reads(TRUE) /\ ~Prepare
    /\ got' = [got EXCEPT ![Front] = Append(@, Head(results).of)]
    /\ mulQCnt' = IF Query(q).multi > 0 THEN [mulQCnt EXCEPT ![Front] = @ - 1] ELSE mulQCnt
    /\ IF Query(q).multi > 0 /\ mulQCnt[Front] > 1
       THEN ritem' = Front /\ UNCHANGED <<Q, at, finals>>
       ELSE IF at[Front] = Len(Plan[Front])
       THEN Final(Front, TRUE) /\ Pop /\ UNCHANGED at
       ELSE /\ at' = IF Query(q).multi > 0 /\ ~Query(q).select THEN at
                     ELSE [at EXCEPT ![Front] = @ + 1]
            /\ ritem' = Front
            /\ UNCHANGED <<Q, finals>>
    /\ UNCHANGED prepared

Next ==
    \/ \E r \in Requests : Post(r)
    \/ TakeRequest \/ RefuseMulti \/ BatchQuery \/ Returns \/ EndBatch
    \/ Serve \/ ReadSync \/ Notice \/ NoQuery \/ Prepared \/ Failed \/ Result

Thread == TakeRequest \/ RefuseMulti \/ BatchQuery \/ Returns \/ EndBatch
              \/ ReadSync \/ NoQuery \/ Prepared \/ Failed \/ Result

(* The database answers and the event loop goes on; it need not send a     *)
(* notice.                                                                 *)
Spec == Init /\ [][Next]_vars /\ WF_vars(Serve) /\ WF_vars(Thread)

-----------------------------------------------------------------------------
(* A request that is told that it succeeded has been given the results of  *)
(* its own queries and no other's, all of them and in order, whatever      *)
(* fails in the batches - until submit has given a request up in the       *)
(* middle, which leaves it in front of the queue for the results of        *)
(* others.                                                                 *)
OwnResults ==
    rejected = {} =>
        \A r \in Requests :
            /\ \A i \in DOMAIN got[r] : got[r][i] = <<r, i>>
            /\ finals[r] = <<TRUE>> => Len(got[r]) = Len(Plan[r])
=============================================================================
