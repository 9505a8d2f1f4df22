--------------------------- MODULE SocketInterface --------------------------
(***************************************************************************)
(* One connection of RequestReaderHandler, the default handler of the      *)
(* embedded server, in the edge-triggered epoll build.  The event-loop     *)
(* thread turns events into tasks; the worker the socket is pinned to runs *)
(* them: HttpReadTask reads, serves and pushes responses, HttpWriteTask    *)
(* completes the ones that did not fit.  That the tasks of one socket run  *)
(* one at a time and in order is what module ThreadPool shows              *)
(* (SocketSerial, SocketInOrder); here they are a queue.                   *)
(*                                                                         *)
(* A request is one message: Http11Handler::readRequest frames requests    *)
(* with the code that module Http11Socket models.  The responses are those *)
(* of plain HTTP/1.1 requests; upgrades to websockets and HTTP/2 are not   *)
(* modelled.                                                               *)
(***************************************************************************)
EXTENDS Integers, Sequences, FiniteSets

CONSTANTS
    K,              \* requests the peer may send
    Size,           \* Size[r]: bytes of the response to request r, 0 when
                    \* the handler returns false and answers by itself
    SndBuf          \* what the socket's send buffer holds

Reqs == 1 .. K

ASSUME SocketAssumption ==
    /\ K \in Nat /\ SndBuf \in Nat \ {0}
    /\ Size \in [Reqs -> Nat]

VARIABLES
    peer,           \* "open", "fin": no more data, "reset"
    sent,           \* requests the peer has sent
    inFlight,       \* bytes in the send buffer that the peer has not read
    wire,           \* every byte written: <<r, k>> is byte k of response r
    interest,       \* the epoll registration: "in" or "out"
    armed,          \* the descriptor is on epoll's ready list
    fdOpen,         \* close(fd) has not been called
    closed,         \* BaseSocket::closed
    queued,         \* how often the socket was put in toBeClosedConns
    lpc,            \* where the event-loop thread is
    tasks,          \* the socket's tasks in its worker's queue
    wpc,            \* where the worker is
    ret,            \* where the worker goes on after closeSocket
    got,            \* requests received into buffer
    reqPos,         \* SocketInterface::reqPos
    current,        \* SocketInterface::current
    wtl,            \* SocketInterface::wtl, each [len, oft]
    pos             \* the response the worker is writing

kernelVars == <<peer, sent, inFlight>>
epollVars  == <<interest, armed>>
closeVars  == <<fdOpen, closed, queued>>
respVars   == <<reqPos, current, wtl, pos>>
vars == <<kernelVars, wire, epollVars, closeVars, lpc, tasks, wpc, ret, got, respVars>>

Init ==
    /\ peer = "open" /\ sent = 0 /\ inFlight = 0 /\ wire = <<>>
    /\ interest = "in" /\ armed = FALSE
    /\ fdOpen = TRUE /\ closed = FALSE /\ queued = 0
    /\ lpc = "wait" /\ tasks = <<>>
    /\ wpc = "idle" /\ ret = "idle" /\ got = 0
    /\ reqPos = 0 /\ current = 0 /\ wtl = <<>> /\ pos = 0

-----------------------------------------------------------------------------
(* The peer and the kernel *)

Readable == sent > got
Writable == inFlight < SndBuf
Hangup   == peer # "open"

Pending(i) ==
    \/ Hangup
    \/ i = "in" /\ Readable
    \/ i = "out" /\ Writable

Raise(i) == armed' = (armed \/ (fdOpen /\ interest = i))

\* EPOLL_CTL_MOD looks at the descriptor again; it fails on a closed one.
Modify(i) ==
    IF fdOpen THEN interest' = i /\ armed' = Pending(i)
              ELSE UNCHANGED epollVars

\* Response r has left the server, or leaves by another way.
Answered(r) ==
    \/ Size[r] = 0 /\ reqPos >= r
    \/ \E i \in 1 .. Len(wire) : wire[i] = <<r, Size[r]>>

\* The peer sends its next request when it has read the last response.
PeerSends ==
    /\ peer = "open" /\ sent < K
    /\ sent > 0 => Answered(sent) /\ inFlight = 0
    /\ sent' = sent + 1
    /\ Raise("in")
    /\ UNCHANGED <<peer, inFlight, wire, interest, closeVars, lpc, tasks, wpc,
                   ret, got, respVars>>

PeerReads ==
    /\ peer # "reset"
    /\ \E n \in 1 .. inFlight : inFlight' = inFlight - n
    /\ Raise("out")
    /\ UNCHANGED <<peer, sent, wire, interest, closeVars, lpc, tasks, wpc, ret,
                   got, respVars>>

PeerHangsUp ==
    /\ \/ peer = "open" /\ peer' \in {"fin", "reset"}
       \/ peer = "fin" /\ peer' = "reset"
    /\ armed' = (armed \/ fdOpen)
    /\ UNCHANGED <<sent, inFlight, wire, interest, closeVars, lpc, tasks, wpc,
                   ret, got, respVars>>

-----------------------------------------------------------------------------
(* The event-loop thread: SelEpolKqEvPrt::loop and loopEventCb *)

\* epoll_wait returns; what it reports is handled in a step of its own.
Fetch ==
    /\ lpc = "wait" /\ armed
    /\ armed' = FALSE
    /\ lpc' = CASE Hangup                          -> "hangup"
                [] ~Hangup /\ ~Pending(interest)   -> "wait"
                [] ~Hangup /\ Pending(interest)    ->
                       IF interest = "in" THEN "read" ELSE "write"
    /\ UNCHANGED <<kernelVars, wire, interest, closeVars, tasks, wpc, ret, got,
                   respVars>>

\* closeSocket up to the call of sockCloseFunc; closed is set afterwards.
CloseBegin ==
    /\ fdOpen' = FALSE
    /\ armed' = FALSE
    /\ queued' = queued + 1

\* Mutant: the hangup is left to the read task.
LoopHangupUnclosed ==
    /\ lpc = "hangup"
    /\ lpc' = "read"
    /\ UNCHANGED <<kernelVars, wire, epollVars, closeVars, tasks, wpc, ret, got, respVars>>

\* getDescriptor closes the socket on EPOLLERR, EPOLLHUP and EPOLLRDHUP.
LoopHangup ==
    /\ lpc = "hangup"
    /\ IF closed
       THEN lpc' = "read" /\ UNCHANGED <<armed, fdOpen, queued>>
       ELSE lpc' = "closing" /\ CloseBegin
    /\ UNCHANGED <<kernelVars, wire, interest, closed, tasks, wpc, ret, got, respVars>>

LoopCloseEnd ==
    /\ lpc = "closing"
    /\ closed' = TRUE
    /\ lpc' = "read"
    /\ UNCHANGED <<kernelVars, wire, epollVars, fdOpen, queued, tasks, wpc, ret,
                   got, respVars>>

LoopRead ==
    /\ lpc = "read"
    /\ tasks' = IF closed THEN tasks ELSE Append(tasks, "read")
    /\ lpc' = "wait"
    /\ UNCHANGED <<kernelVars, wire, epollVars, closeVars, wpc, ret, got, respVars>>

\* Mutant: the write task is not submitted.
LoopWriteUnsubmitted ==
    /\ lpc = "write"
    /\ IF closed THEN UNCHANGED epollVars ELSE Modify("in")
    /\ lpc' = "wait"
    /\ UNCHANGED <<kernelVars, wire, closeVars, tasks, wpc, ret, got, respVars>>

LoopWrite ==
    /\ lpc = "write"
    /\ IF closed
       THEN UNCHANGED <<epollVars, tasks>>
       ELSE Modify("in") /\ tasks' = Append(tasks, "write")
    /\ lpc' = "wait"
    /\ UNCHANGED <<kernelVars, wire, closeVars, wpc, ret, got, respVars>>

-----------------------------------------------------------------------------
(* The worker: HttpReadTask and HttpWriteTask *)

\* closeSocket, after which the worker goes on at next
WorkerClose(next) ==
    IF closed
    THEN wpc' = next /\ UNCHANGED <<ret, armed, fdOpen, queued>>
    ELSE wpc' = "closing" /\ ret' = next /\ CloseBegin

WorkerCloseEnd ==
    /\ wpc = "closing"
    /\ closed' = TRUE
    /\ wpc' = ret
    /\ UNCHANGED <<kernelVars, wire, epollVars, fdOpen, queued, lpc, tasks, ret,
                   got, respVars>>

\* readFrom, in the task at the head of the queue
ReadTask ==
    /\ wpc = "idle" /\ tasks # <<>> /\ Head(tasks) = "read"
    /\ tasks' = Tail(tasks)
    /\ \/ /\ fdOpen /\ Readable
          /\ got' = sent
          /\ wpc' = "serve"
          /\ UNCHANGED <<ret, armed, fdOpen, queued>>
       \/ /\ fdOpen /\ ~Readable /\ peer = "open"      \* EAGAIN
          /\ wpc' = "serve"
          /\ UNCHANGED <<ret, got, armed, fdOpen, queued>>
       \/ /\ fdOpen /\ ~Readable /\ peer = "fin"       \* 0: run returns
          /\ WorkerClose("idle")
          /\ UNCHANGED got
       \/ /\ ~fdOpen \/ (~Readable /\ peer = "reset")  \* -1: run goes on
          /\ WorkerClose("serve")
          /\ UNCHANGED got
    /\ UNCHANGED <<kernelVars, wire, interest, closed, lpc, respVars>>

\* readRequest, startRequest and hsh; pushResponse fills the response.
ServeRequest ==
    /\ wpc = "serve" /\ reqPos < got
    /\ reqPos' = reqPos + 1
    /\ wtl' = [p \in DOMAIN wtl \cup {reqPos'} |->
                 IF p = reqPos' THEN [len |-> Size[p], oft |-> 0] ELSE wtl[p]]
    /\ IF Size[reqPos'] > 0
       THEN pos' = reqPos' /\ wpc' = "push"
       ELSE UNCHANGED <<pos, wpc>>
    /\ UNCHANGED <<kernelVars, wire, epollVars, closeVars, lpc, tasks, ret, got, current>>

ServeDone ==
    /\ wpc = "serve" /\ reqPos = got
    /\ wpc' = "idle"
    /\ UNCHANGED <<kernelVars, wire, epollVars, closeVars, lpc, tasks, ret, got, respVars>>

\* Mutant: the response stays in wtl.
EndRequestKept ==
    /\ current' = current + 1
    /\ UNCHANGED wtl

\* endRequest(pos)
EndRequest ==
    /\ wtl' = [p \in DOMAIN wtl \ {pos} |-> wtl[p]]
    /\ current' = current + 1

\* completeWrite's loop: its reqPos is computed once, before the loop.
WriteTask ==
    /\ wpc = "idle" /\ tasks # <<>> /\ Head(tasks) = "write"
    /\ tasks' = Tail(tasks)
    /\ pos' = current + 1
    /\ wpc' = "check"
    /\ UNCHANGED <<kernelVars, wire, epollVars, closeVars, lpc, ret, got, reqPos,
                   current, wtl>>

CompleteNext ==
    /\ wpc = "check" /\ current # reqPos
    /\ wtl' = IF pos \in DOMAIN wtl THEN wtl
              ELSE [p \in DOMAIN wtl \cup {pos} |->
                      IF p = pos THEN [len |-> 0, oft |-> 0] ELSE wtl[p]]
    /\ wpc' = "complete"
    /\ UNCHANGED <<kernelVars, wire, epollVars, closeVars, lpc, tasks, ret, got,
                   reqPos, current, pos>>

CompleteDone ==
    /\ wpc = "check" /\ current = reqPos
    /\ Modify("in")
    /\ wpc' = "idle"
    /\ UNCHANGED <<kernelVars, wire, closeVars, lpc, tasks, ret, got, respVars>>

-----------------------------------------------------------------------------
(* BaseSocket::writeTo, called by pushResponse and by completeWrite *)

Writing == wpc \in {"push", "complete"}
Left    == wtl[pos].len - wtl[pos].oft
CanSend == fdOpen /\ peer # "reset"

\* After a response has been written: pushResponse returns to the serving
\* loop, completeWrite to the head of its own.
Written == IF wpc = "push" THEN "serve" ELSE "check"

\* Mutant: a partial write does not advance oft.
SendSomeRestarts ==
    /\ Writing /\ CanSend
    /\ \E n \in 1 .. Left :
         /\ inFlight + n <= SndBuf
         /\ inFlight' = inFlight + n
         /\ wire' = wire \o [j \in 1 .. n |-> <<pos, wtl[pos].oft + j>>]
         /\ IF n = Left
            THEN EndRequest /\ wpc' = Written
            ELSE UNCHANGED <<wtl, current, wpc>>
    /\ UNCHANGED <<peer, sent, epollVars, closeVars, lpc, tasks, ret, got, reqPos, pos>>

SendSome ==
    /\ Writing /\ CanSend
    /\ \E n \in 1 .. Left :
         /\ inFlight + n <= SndBuf
         /\ inFlight' = inFlight + n
         /\ wire' = wire \o [j \in 1 .. n |-> <<pos, wtl[pos].oft + j>>]
         /\ IF n = Left
            THEN EndRequest /\ wpc' = Written
            ELSE /\ wtl' = [wtl EXCEPT ![pos].oft = @ + n]
                 /\ UNCHANGED <<current, wpc>>
    /\ UNCHANGED <<peer, sent, epollVars, closeVars, lpc, tasks, ret, got, reqPos, pos>>

\* pushResponse registers for EPOLLOUT; completeWrite just returns.
PushBlocked ==
    /\ wpc = "push" /\ CanSend /\ ~Writable
    /\ Modify("out")
    /\ wpc' = "serve"
    /\ UNCHANGED <<kernelVars, wire, closeVars, lpc, tasks, ret, got, respVars>>

CompleteBlocked ==
    /\ wpc = "complete" /\ CanSend /\ ~Writable /\ Left > 0
    /\ wpc' = "idle"
    /\ UNCHANGED <<kernelVars, wire, epollVars, closeVars, lpc, tasks, ret, got, respVars>>

\* send fails, or is given nothing to send and returns 0.
SendFails ==
    /\ Writing
    /\ ~CanSend \/ Left = 0
    /\ EndRequest
    /\ WorkerClose(IF wpc = "push" THEN "serve" ELSE "idle")
    /\ UNCHANGED <<kernelVars, wire, interest, closed, lpc, tasks, got, reqPos, pos>>

-----------------------------------------------------------------------------
Loop == Fetch \/ LoopHangup \/ LoopCloseEnd \/ LoopRead \/ LoopWrite

Worker ==
    \/ ReadTask \/ ServeRequest \/ ServeDone
    \/ WriteTask \/ CompleteNext \/ CompleteDone
    \/ SendSome \/ PushBlocked \/ CompleteBlocked \/ SendFails
    \/ WorkerCloseEnd

Next == Loop \/ Worker \/ PeerSends \/ PeerReads \/ PeerHangsUp

Spec == Init /\ [][Next]_vars

\* The event loop and the worker keep running, and a peer that has not gone
\* away keeps reading.
FairSpec == Spec /\ WF_vars(Loop) /\ WF_vars(Worker) /\ WF_vars(PeerReads)

-----------------------------------------------------------------------------
(* Properties *)

\* The responses in wtl are the ones begun and not ended: startRequest,
\* endRequest and the operator[] of completeWrite keep reqPos, current and wtl
\* in step, so that completeWrite finds a blocked response where it looks.
\* It holds where the requests answered by another way (Size 0) come last: such
\* an answer stays in wtl, and later responses are counted against it.
WindowExact == Cardinality(DOMAIN wtl) = reqPos - current

\* With a peer that awaits each response the connection is an in-order,
\* gapless response stream, although a response is begun by the read task and
\* finished by a write task.  As above, requests answered by another way come last.
Responses == INSTANCE PipelinedResponses
    WITH served <- reqPos, open <- fdOpen
ImplementsResponses == Responses!Spec

\* Every request with a response gets all of it, unless the peer goes away.
EveryRequestAnswered ==
    \A r \in Reqs :
        (sent >= r /\ Size[r] > 0) ~> (peer # "open" \/ Answered(r))

\* A response that cannot block twice, however slowly the peer reads, is sent
\* whole: the write task that registerWrite asked for takes up what was left.
OnceBlockedAnswered ==
    \A r \in Reqs :
        (sent >= r /\ Size[r] \in 1 .. SndBuf + 1) ~> (peer # "open" \/ Answered(r))

\* A socket whose peer has shut down or reset the connection is closed and
\* queued for deletion in the end, whichever thread notices.
HangupCloses == (peer # "open") ~> (closed /\ queued > 0)
=============================================================================
