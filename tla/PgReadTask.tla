----------------------------- MODULE PgReadTask -----------------------------
(***************************************************************************)
(* The asynchronous PostgreSQL data source without pipelining: requests    *)
(* posted to LibpqDataSourceImpl are kept in Q and PgReadTask sends their  *)
(* queries one at a time, reads the results in the event loop and calls    *)
(* back.  Everything runs in the loop's thread.  A callback may post more  *)
(* requests: while run is reading they only join Q, for flux is up; but a  *)
(* callback from inside submit, for a command that could not be sent,      *)
(* finds flux down and enters submit again, with ritem and q still those   *)
(* of the request that has failed.                                         *)
(*                                                                         *)
(* A query is [select, multi, stmt, fails]: multi is the number of         *)
(* statements of a multi query (0 for an ordinary one), stmt the text of a *)
(* prepared statement or None, fails whether the database rejects it.      *)
(***************************************************************************)
EXTENDS Integers, Sequences, FiniteSets

CONSTANTS
    Requests,
    Plan,           \* request -> sequence of its queries
    BadStatements,  \* prepared statements the database refuses
    MaxSendFail,    \* bound: PQsend* calls that fail
    None

PlanAssumption == DOMAIN Plan = Requests /\ MaxSendFail \in Nat

VARIABLES
    Q,          \* requests of the data source, oldest first
    at,         \* request -> position of its front query
    ritem,      \* request being served, or None
    q,          \* query being served <<request, position>>, or None
    mulQCnt,    \* statements of q still without a result
    flux,       \* a command is out and its results are not all read
    prepStmtMap,\* statements that have a name
    prepared,   \* queries whose flag prepared is set
    ritemDone,  \* local of run: the rest of the results is dropped
    cmd,        \* command on its way to the database, or None
    results,    \* results of the last command, not read
    known,      \* statements the database has prepared
    got,        \* request -> queries whose results its callbacks were given
    finals,     \* request -> outcomes its final callback was given
    calling,    \* calls of submit on the stack that are inside a final callback
    sendFails,
    used,       \* "ok"; or "freed" or "null": run or submit has used a query
                \* of a request that is gone, or none
    unset,      \* history: a failed SELECT left q behind
    reentered   \* history: a final callback of submit has entered submit again

task  == <<ritem, q, mulQCnt, flux, prepStmtMap, prepared, ritemDone>>
db    == <<cmd, results, known>>
notes == <<unset, reentered>>
vars  == <<Q, at, task, db, got, finals, calling, sendFails, used, notes>>

Query(x)   == Plan[x[1]][x[2]]
Posted     == {r \in Requests : r \in {Q[i] : i \in DOMAIN Q} \/ finals[r] # <<>>}
Empty(r)   == at[r] > Len(Plan[r])

Init ==
    /\ Q = <<>> /\ at = [r \in Requests |-> 1]
    /\ ritem = None /\ q = None /\ mulQCnt = 0 /\ flux = FALSE
    /\ prepStmtMap = {} /\ prepared = {} /\ ritemDone = FALSE
    /\ cmd = None /\ results = <<>> /\ known = {}
    /\ got = [r \in Requests |-> <<>>] /\ finals = [r \in Requests |-> <<>>]
    /\ calling = 0 /\ sendFails = 0 /\ used = "ok" /\ unset = FALSE /\ reentered = FALSE

-----------------------------------------------------------------------------
Final(r, ok) == finals' = [finals EXCEPT ![r] = Append(@, ok)]

(* submit, from the point where a command is to be made out of query x of  *)
(* the request at the head of queue Qn.                                    *)
Sent(Qn, r, x, c) ==
    /\ Q' = Qn /\ ritem' = r /\ q' = x /\ flux' = TRUE /\ cmd' = c
    /\ mulQCnt' = IF q = x THEN mulQCnt ELSE Query(x).multi
    /\ UNCHANGED <<finals, calling>>

SendFails == sendFails < MaxSendFail /\ sendFails' = sendFails + 1

(* PQsend* has failed: the request is told, from inside submit. *)
NotSent(Qn, r, x) ==
    /\ SendFails
    /\ Final(r, FALSE)
    /\ calling' = calling + 1
    /\ Q' = Qn /\ ritem' = r /\ q' = x /\ flux' = FALSE
    /\ UNCHANGED <<cmd, mulQCnt>>

(* For a multi query nobody looks whether it was sent. *)
SendMulti(Qn, r, x) ==
    /\ Query(x).multi > 0
    /\ \/ Sent(Qn, r, x, [type |-> "multi", of |-> x]) /\ UNCHANGED sendFails
       \/ Sent(Qn, r, x, None) /\ SendFails
    /\ UNCHANGED <<prepStmtMap, prepared>>

SendPrepare(Qn, r, x) ==
    /\ Query(x).multi = 0 /\ Query(x).stmt # None
    /\ Query(x).stmt \notin prepStmtMap
    /\ prepStmtMap' = prepStmtMap \cup {Query(x).stmt}
    /\ UNCHANGED prepared
    /\ \/ Sent(Qn, r, x, [type |-> "prepare", of |-> x]) /\ UNCHANGED sendFails
       \/ NotSent(Qn, r, x)

SendQuery(Qn, r, x) ==
    /\ Query(x).multi = 0 /\ Query(x).stmt \in prepStmtMap \cup {None}
    /\ prepared' = IF Query(x).stmt # None THEN prepared \cup {x} ELSE prepared
    /\ UNCHANGED prepStmtMap
    /\ \/ Sent(Qn, r, x, [type |-> "exec", of |-> x]) /\ UNCHANGED sendFails
       \/ NotSent(Qn, r, x)

(* submit with flux down: rit and qn are what ritem and q are at the call, *)
(* atn the positions, Qn the queue.                                        *)
Submit(Qn, atn, rit, qn) ==
    LET r == IF rit # None THEN rit ELSE IF Qn = <<>> THEN None ELSE Head(Qn)
        x == IF qn = None THEN <<r, atn[r]>> ELSE qn
    IN \/ /\ r = None
          /\ Q' = Qn /\ ritem' = None /\ q' = qn /\ flux' = FALSE
          /\ UNCHANGED <<mulQCnt, prepStmtMap, prepared, cmd, finals, calling, sendFails, used>>
       \/ /\ r # None /\ atn[r] > Len(Plan[r])      \* no query in it
          /\ Q' = Tail(Qn) /\ ritem' = None /\ q' = qn /\ flux' = FALSE
          /\ UNCHANGED <<mulQCnt, prepStmtMap, prepared, cmd, finals, calling, sendFails, used>>
       \/ /\ r # None /\ atn[r] <= Len(Plan[r]) /\ x[1] # r
          /\ used' = "freed"
          /\ Q' = Qn /\ ritem' = r /\ q' = qn
          /\ UNCHANGED <<mulQCnt, flux, prepStmtMap, prepared, cmd, finals, calling, sendFails>>
       \/ /\ r # None /\ atn[r] <= Len(Plan[r]) /\ x[1] = r
          /\ SendMulti(Qn, r, x) \/ SendPrepare(Qn, r, x) \/ SendQuery(Qn, r, x)
          /\ UNCHANGED used

-----------------------------------------------------------------------------
(* getAsyncRequest, the caller's withSelectQuery and the like, postAsync:  *)
(* from a handler when the loop is free, or from a callback of run or of   *)
(* submit.                                                                 *)
Post(r) ==
    /\ used = "ok" /\ r \notin Posted /\ at[r] = 1
    /\ IF flux THEN Q' = Append(Q, r) /\ UNCHANGED <<task, cmd, finals, calling, sendFails, used>>
       ELSE Submit(Append(Q, r), at, ritem, q) /\ UNCHANGED ritemDone
    /\ reentered' = (reentered \/ calling > 0)
    /\ UNCHANGED <<at, results, known, got, unset>>

(* submit, once the final callback has returned: the request in front is   *)
(* dropped, which is another one if the callback's submit has dropped its  *)
(* own already, and nothing looks at the next one.                         *)
Dropped ==
    /\ used = "ok" /\ calling > 0
    /\ calling' = calling - 1
    /\ q' = None /\ ritem' = None
    /\ Q' = IF Q = <<>> THEN Q ELSE Tail(Q)
    /\ UNCHANGED <<at, mulQCnt, flux, prepStmtMap, prepared, ritemDone, db, got, finals,
                   sendFails, used, notes>>

(* External: the database carries out a command.  A refused statement is   *)
(* unknown, and using it fails; a multi query stops at its last statement  *)
(* if it fails at all.                                                     *)
Serve ==
    /\ cmd # None
    /\ LET x == cmd.of
           qu == Query(x)
           ok == CASE cmd.type = "prepare" -> qu.stmt \notin BadStatements
                   [] cmd.type = "multi"   -> ~qu.fails
                   [] OTHER -> ~qu.fails /\ qu.stmt \in known \cup {None}
       IN /\ known' = IF cmd.type = "prepare" /\ ok THEN known \cup {qu.stmt} ELSE known
          /\ results' = IF cmd.type = "multi"
                        THEN [i \in 1 .. qu.multi |-> i < qu.multi \/ ok]
                        ELSE <<ok>>
    /\ cmd' = None
    /\ UNCHANGED <<Q, at, task, got, finals, calling, sendFails, used, notes>>

Reading(ok) ==
    /\ used = "ok" /\ calling = 0 /\ cmd = None /\ results # <<>> /\ Head(results) = ok
    /\ ritemDone \/ q # None
    /\ results' = Tail(results)
    /\ UNCHANGED <<cmd, known, prepStmtMap, prepared, flux, calling, sendFails, used, reentered>>

(* run, a result for a query that the callback of a failure has sent again *)
(* and submit then forgot: q is a null pointer.                            *)
NoQuery ==
    /\ used = "ok" /\ calling = 0 /\ cmd = None /\ results # <<>>
    /\ ~ritemDone /\ q = None
    /\ used' = "null"
    /\ UNCHANGED <<Q, at, task, db, got, finals, calling, sendFails, notes>>

(* run, a result that follows a failure. *)
DropResult ==
    /\ \E ok \in BOOLEAN : Reading(ok)
    /\ ritemDone
    /\ UNCHANGED <<Q, at, ritem, q, mulQCnt, ritemDone, got, finals, unset>>

Prepare == Query(q).stmt # None /\ q \notin prepared

(* run, a result of PREPARE. *)
Prepared ==
    /\ Reading(TRUE) /\ ~ritemDone /\ Prepare
    /\ UNCHANGED <<Q, at, ritem, q, mulQCnt, ritemDone, got, finals, unset>>

(* run, a failure: the request is told and dropped.  q is reset for a      *)
(* PREPARE and for an update, not for a SELECT.                            *)
Failed ==
    /\ Reading(FALSE) /\ ~ritemDone
    /\ Final(ritem, FALSE)
    /\ Q' = Tail(Q) /\ ritem' = None /\ ritemDone' = TRUE
    /\ IF Prepare \/ ~Query(q).select
       THEN q' = None /\ UNCHANGED unset
       ELSE unset' = TRUE /\ UNCHANGED q
    /\ UNCHANGED <<at, mulQCnt, got>>

(* Mutant: q is not reset after the last result of a query. *)
ResultKeepsQuery ==
    /\ Reading(TRUE) /\ ~ritemDone /\ ~Prepare
    /\ got' = [got EXCEPT ![ritem] = Append(@, q)]
    /\ IF at[ritem] = Len(Plan[ritem])
       THEN Final(ritem, TRUE) /\ Q' = Tail(Q) /\ ritem' = None /\ ritemDone' = TRUE /\ UNCHANGED at
       ELSE at' = [at EXCEPT ![ritem] = @ + 1] /\ UNCHANGED <<Q, ritem, ritemDone, finals>>
    /\ UNCHANGED <<q, mulQCnt, unset>>

(* run, a result of the query: its callback, and then the next statement   *)
(* of a multi query, the next query of the request or its final callback.  *)
Result ==
    /\ Reading(TRUE) /\ ~ritemDone /\ ~Prepare
    /\ got' = [got EXCEPT ![ritem] = Append(@, q)]
    /\ mulQCnt' = IF Query(q).multi > 0 THEN mulQCnt - 1 ELSE mulQCnt
    /\ IF Query(q).multi > 0 /\ mulQCnt > 1
       THEN UNCHANGED <<Q, at, ritem, q, ritemDone, finals>>
       ELSE /\ q' = None
            /\ IF at[ritem] = Len(Plan[ritem])
               THEN /\ Final(ritem, TRUE)
                    /\ Q' = Tail(Q) /\ ritem' = None /\ ritemDone' = TRUE
                    /\ UNCHANGED at
               ELSE /\ at' = [at EXCEPT ![ritem] = @ + 1]
                    /\ UNCHANGED <<Q, ritem, ritemDone, finals>>
    /\ UNCHANGED unset

(* run, once PQgetResult is out of results: the next command.  The loop    *)
(* calls run for a notice of the database too.                             *)
RunEnds ==
    /\ used = "ok" /\ calling = 0 /\ cmd = None /\ results = <<>>
    /\ ritemDone' = FALSE
    /\ Submit(Q, at, ritem, q)
    /\ UNCHANGED <<at, results, known, got, notes>>

Next ==
    \/ \E r \in Requests : Post(r)
    \/ Dropped \/ Serve \/ DropResult \/ Prepared \/ Failed \/ Result \/ NoQuery \/ RunEnds

Run == Dropped \/ DropResult \/ Prepared \/ Failed \/ Result \/ NoQuery \/ (flux /\ RunEnds)

(* The database answers and the event loop goes on; a notice may never     *)
(* come, nor a request.                                                    *)
Spec == Init /\ [][Next]_vars /\ WF_vars(Serve) /\ WF_vars(Run)

-----------------------------------------------------------------------------
(* The results a request's callbacks have seen are those of its own        *)
(* queries, as many as it has statements and in order, and a request told  *)
(* that it succeeded has seen them all - until the final callback of a     *)
(* command that could not be sent has posted a request.  A query of a      *)
(* request that is gone is used only when a failed SELECT has left it in q *)
(* or after such a callback.                                               *)
Expected(r) ==
    LET Reps(i) == IF Plan[r][i].multi = 0 THEN 1 ELSE Plan[r][i].multi
        UpTo[n \in 0 .. Len(Plan[r])] ==
            IF n = 0 THEN <<>>
            ELSE UpTo[n - 1] \o [k \in 1 .. Reps(n) |-> <<r, n>>]
    IN UpTo[Len(Plan[r])]

OwnResults ==
    ~reentered =>
        /\ \A r \in Requests :
              /\ Len(got[r]) <= Len(Expected(r))
              /\ got[r] = SubSeq(Expected(r), 1, Len(got[r]))
              /\ finals[r] = <<TRUE>> => got[r] = Expected(r)
        /\ used # "ok" => unset

(* What the caller takes for the queue: a request without queries is       *)
(* dropped unanswered, and one that was told of its failure from inside    *)
(* submit is about to leave.                                               *)
Waiting ==
    SelectSeq(IF calling > 0 /\ Q # <<>> THEN Tail(Q) ELSE Q, LAMBDA r : ~Empty(r))
=============================================================================
