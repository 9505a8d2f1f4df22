------------------------------- MODULE FpgWire -------------------------------
(***************************************************************************)
(* The data source that speaks PostgreSQL's wire protocol itself (FpgWire) *)
(* in the event loop: submit writes the queries of every request that is   *)
(* not processed, each with a sync of its own, and run hands every message *)
(* that comes back to the front query of the front request.  nQ counts the *)
(* statements that are out.  A query is [multi, fails]: multi is the       *)
(* number of statements of a multi query, or 0, fails the statement the    *)
(* database rejects, or 0.                                                 *)
(*                                                                         *)
(* An ErrorResponse is the last message run ever takes: readString counts  *)
(* more than it reads, so that run leaves the message in its middle, takes *)
(* text for the length of the next one and waits for that many bytes.      *)
(*                                                                         *)
(* A callback of run that posts does so before its request leaves Q; the   *)
(* outcome is that of a post just after.  Callbacks of requests that       *)
(* submit refuses are taken not to post.                                   *)
(***************************************************************************)
EXTENDS Integers, Sequences, FiniteSets

CONSTANTS
    Requests,
    Plan,           \* request -> sequence of its queries, not empty
    Pipelined,      \* the data source is configured for pipelining
    MaxOut,         \* 100: statements out, and statements of one submit
    MayClose,       \* the database may close the connection
    None

PlanAssumption == DOMAIN Plan = Requests /\ MaxOut \in Nat \ {0}

VARIABLES
    Q,          \* requests, oldest first
    at,         \* request -> position of its front query
    mulQCnt,    \* request -> statements of its front query without a result
    processed,  \* requests whose queries were written
    nQ,         \* statements that are out
    q,          \* query of the last message <<request, position>>, or None
    toDb,       \* queries on their way to the database
    buffer,     \* messages that came back and were not read
    lost,       \* run stands in the middle of an ErrorResponse
    peer,       \* the database's end: "open", "closed" (its end is shut), "reset"
    closed,     \* FpgWire::isClosed
    posted,     \* requests posted
    got,        \* request -> statements whose results it was given
    finals,     \* request -> outcomes its callback was given
    used,       \* "ok", or "freed": q of a request that is gone was used
    astray      \* history: submit has refused a request and erased another

queue == <<Q, at, mulQCnt, processed, posted>>
notes == <<got, finals, used, astray>>
vars  == <<queue, nQ, q, toDb, buffer, lost, peer, closed, notes>>

Query(x)      == Plan[x[1]][x[2]]
Statements(u) == IF u.multi = 0 THEN 1 ELSE u.multi

Init ==
    /\ Q = <<>> /\ at = [r \in Requests |-> 1] /\ processed = {} /\ posted = {}
    /\ mulQCnt = [r \in Requests |-> Statements(Plan[r][1])]
    /\ nQ = 0 /\ q = None /\ toDb = <<>> /\ buffer = <<>> /\ lost = FALSE
    /\ peer = "open" /\ closed = FALSE
    /\ got = [r \in Requests |-> <<>>] /\ finals = [r \in Requests |-> <<>>]
    /\ used = "ok" /\ astray = FALSE

-----------------------------------------------------------------------------
(* submit, one request: the queries it writes, up to a multi query, which  *)
(* pipelining refuses, and what it adds to nQ.                             *)
Refused(r) == {j \in 1 .. Len(Plan[r]) : Pipelined /\ Plan[r][j].multi > 0}
FirstOf(S) == CHOOSE j \in S : \A k \in S : j <= k
Written(r) ==
    [j \in 1 .. (IF Refused(r) = {} THEN Len(Plan[r]) ELSE FirstOf(Refused(r)) - 1) |-> <<r, j>>]
Counted(s) ==
    LET Upto[n \in 0 .. Len(s)] == IF n = 0 THEN 0 ELSE Upto[n - 1] + Statements(Query(s[n]))
    IN Upto[Len(s)]

(* submit goes through the queue Qn; the requests it takes end with the    *)
(* one that brings the statements written above MaxOut.                    *)
Batch(Qn) ==
    LET open == SelectSeq(Qn, LAMBDA r : r \notin processed)
        To[n \in 0 .. Len(open)] ==
            IF n = 0 THEN [take |-> <<>>, out |-> <<>>]
            ELSE IF Counted(To[n - 1].out) > MaxOut THEN To[n - 1]
            ELSE [take |-> Append(To[n - 1].take, open[n]),
                  out  |-> To[n - 1].out \o Written(open[n])]
    IN To[Len(open)]

(* The requests refused are counted, and as many are erased from the front *)
(* of the queue: Q.begin()+i with i the number of the removal.             *)
Erase(s, n) ==
    LET E[k \in 0 .. n] ==
            IF k = 0 THEN s
            ELSE SubSeq(E[k - 1], 1, k - 1) \o SubSeq(E[k - 1], k + 1, Len(E[k - 1]))
    IN E[n]

(* submit: n and fin are nQ and the answers at the call. *)
Submit(Qn, n, fin) ==
    IF n >= MaxOut
    THEN Q' = Qn /\ nQ' = n /\ finals' = fin /\ UNCHANGED <<toDb, processed>>
    ELSE LET b   == Batch(Qn)
             ref == SelectSeq(b.take, LAMBDA r : Refused(r) # {})
             R   == {ref[i] : i \in DOMAIN ref}
             Extra[i \in 0 .. Len(ref)] ==
                 IF i = 0 THEN 0
                 ELSE Extra[i - 1] + Statements(Plan[ref[i]][FirstOf(Refused(ref[i]))])
         IN /\ toDb' = IF peer = "open" THEN toDb \o b.out ELSE toDb
            /\ processed' = processed \cup {b.take[i] : i \in DOMAIN b.take}
            /\ nQ' = n + Counted(b.out) + Extra[Len(ref)]
            /\ finals' = [r \in Requests |-> IF r \in R THEN Append(fin[r], FALSE) ELSE fin[r]]
            /\ Q' = Erase(Qn, Len(ref))

(* getAsyncRequest, the caller's queries, postAsync. *)
Post(r) ==
    /\ used = "ok" /\ r \notin posted
    /\ posted' = posted \cup {r}
    /\ Submit(Append(Q, r), nQ, finals)
    /\ astray' = (astray \/ Refused(r) # {})
    /\ UNCHANGED <<at, mulQCnt, q, buffer, lost, peer, closed, got, used>>

-----------------------------------------------------------------------------
(* External: the database carries out a query: the results of its          *)
(* statements up to the one that fails.                                    *)
Serve ==
    /\ peer = "open" /\ toDb # <<>> /\ toDb' = Tail(toDb)
    /\ LET x == Head(toDb)
           u == Query(x)
           n == IF u.fails = 0 THEN Statements(u) ELSE u.fails
       IN buffer' = buffer \o [i \in 1 .. n |-> [of |-> x, ok |-> i # u.fails]]
    /\ UNCHANGED <<queue, nQ, q, lost, peer, closed, notes>>

(* External: the database goes away; queries on their way are lost, what   *)
(* it sent can still be read, unless the connection is reset.              *)
Close ==
    /\ MayClose /\ peer = "open"
    /\ peer' \in {"closed", "reset"}
    /\ toDb' = <<>>
    /\ UNCHANGED <<queue, nQ, q, buffer, lost, closed, notes>>

-----------------------------------------------------------------------------
Front == IF Q = <<>> THEN None ELSE Head(Q)
QNow  == IF Front = None THEN q ELSE <<Front, at[Front]>>

Reading(ok) ==
    /\ used = "ok" /\ ~closed /\ ~lost /\ peer # "reset"
    /\ buffer # <<>> /\ Head(buffer).ok = ok
    /\ buffer' = Tail(buffer)
    /\ lost' = ~ok
    /\ UNCHANGED <<toDb, peer, closed, processed, posted>>

(* run, a message without a request in Q: rows go to the q of before. *)
Stray ==
    /\ \E ok \in BOOLEAN : Reading(ok)
    /\ Front = None
    /\ used' = IF q = None \/ ~Head(buffer).ok THEN "ok" ELSE "freed"
    /\ UNCHANGED <<Q, at, mulQCnt, nQ, q, got, finals, astray>>

(* run, an ErrorResponse: the request is told and dropped, with nQ lowered *)
(* by the number of its queries.                                           *)
Failed ==
    /\ Reading(FALSE) /\ Front # None
    /\ q' = QNow
    /\ finals' = [finals EXCEPT ![Front] = Append(@, FALSE)]
    /\ nQ' = nQ - Len(Plan[Front])
    /\ Q' = Tail(Q)
    /\ UNCHANGED <<at, mulQCnt, got, used, astray>>

(* run, the rows and the CommandComplete of a statement. *)
Result ==
    /\ Reading(TRUE) /\ Front # None
    /\ got' = [got EXCEPT ![Front] = Append(@, Head(buffer).of)]
    /\ nQ' = nQ - 1
    /\ IF mulQCnt[Front] > 1
       THEN /\ mulQCnt' = [mulQCnt EXCEPT ![Front] = @ - 1]
            /\ q' = QNow /\ UNCHANGED <<Q, at, finals>>
       ELSE /\ q' = None
            /\ IF at[Front] = Len(Plan[Front])
               THEN /\ finals' = [finals EXCEPT ![Front] = Append(@, TRUE)]
                    /\ Q' = Tail(Q) /\ UNCHANGED <<at, mulQCnt>>
               ELSE /\ at' = [at EXCEPT ![Front] = @ + 1]
                    /\ mulQCnt' = [mulQCnt EXCEPT ![Front] = Statements(Plan[Front][at[Front] + 1])]
                    /\ UNCHANGED <<Q, finals>>
    /\ UNCHANGED <<used, astray>>

(* Mutant: run leaves the requests that wait to the next post. *)
RunEndsSilent ==
    /\ used = "ok" /\ ~closed /\ peer = "open" /\ buffer = <<>>
    /\ UNCHANGED vars

(* run, nothing more that it can read: the next requests. *)
RunEnds ==
    /\ used = "ok" /\ ~closed /\ peer = "open" /\ (lost \/ buffer = <<>>)
    /\ Submit(Q, nQ, finals)
    /\ UNCHANGED <<at, mulQCnt, posted, q, buffer, lost, peer, closed, got, used, astray>>

(* run on a connection that is gone.  recv returning 0 ends it at once;    *)
(* after an error it goes on, and tells the requests in Q only if a part   *)
(* of a message is left in the buffer; the rest is lost.                   *)
RunClosed ==
    /\ used = "ok" /\ ~closed /\ closed' = TRUE
    /\ \/ /\ peer = "closed" /\ (lost \/ buffer = <<>>)
          /\ UNCHANGED <<Q, processed, nQ, toDb, finals>>
       \/ peer = "reset" /\ ~lost /\ Submit(Q, nQ, finals)
       \/ /\ peer = "reset" /\ (lost \/ buffer # <<>>)
          /\ Submit(Q, nQ, [r \in Requests |-> IF \E i \in DOMAIN Q : Q[i] = r
                                               THEN Append(finals[r], FALSE) ELSE finals[r]])
    /\ UNCHANGED <<at, mulQCnt, posted, q, buffer, lost, peer, got, used, astray>>

Next ==
    \/ \E r \in Requests : Post(r)
    \/ Serve \/ Close \/ Stray \/ Failed \/ Result \/ RunEnds \/ RunClosed

Run == Stray \/ Failed \/ Result \/ RunEnds \/ RunClosed

(* The database answers while it is there, and the event loop goes on. *)
Spec == Init /\ [][Next]_vars /\ WF_vars(Serve) /\ WF_vars(Run)

-----------------------------------------------------------------------------
(* Until submit has refused a request, and with it erased another from Q,  *)
(* the results of a request are those of its own statements, all of them   *)
(* if it is told that it succeeded, and no query of a request that is gone *)
(* is used; also when requests fail.                                       *)
OwnResults ==
    ~astray =>
        /\ used = "ok"
        /\ \A r \in Requests :
              /\ \A i \in DOMAIN got[r] : got[r][i][1] = r
              /\ finals[r] = <<TRUE>> =>
                     Len(got[r]) = Counted([j \in 1 .. Len(Plan[r]) |-> <<r, j>>])
=============================================================================
