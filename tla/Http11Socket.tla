---------------------------- MODULE Http11Socket ----------------------------
(***************************************************************************)
(* One connection of RequestHandler2 in the edge-triggered epoll build:    *)
(* Http11Socket::handle and read, the WRITE_READY callback,                *)
(* BaseSocket::readFrom, writeTo and closeSocket, and the part of          *)
(* SelEpolKqEvPrt that arms and delivers its events.  The event-loop       *)
(* thread's system calls interleave with the peer, which sends its         *)
(* pipelined requests in pieces, reads what it is sent, stops sending, or  *)
(* resets the connection.                                                  *)
(*                                                                         *)
(* The peer's bytes are positions 1, 2, ... of one stream.  buffer is the  *)
(* positions bufBeg + 1 .. bufEnd; bufEnd + 1 .. sent wait in the kernel.  *)
(* Request r is the positions End[r - 1] + 1 .. End[r], the first          *)
(* HdrEnd[r] - End[r - 1] of them its headers.                             *)
(***************************************************************************)
EXTENDS Integers, Sequences, FiniteSets

CONSTANTS
    K,              \* requests the peer may send
    HdrEnd,         \* HdrEnd[r]: where the headers of request r end
    End,            \* End[r]: where request r ends; End[0] = 0
    Fin,            \* positions at which a match of HDR_FIN ends
    FinLen,         \* length of HDR_FIN
    Chunk,          \* bytes one recv asks for (8192)
    Size,           \* Size[r]: bytes of the response to request r, 0 when
                    \* the handler returns false and answers by itself
    SndBuf          \* what the socket's send buffer holds

Reqs == 1 .. K

\* The streams a conforming peer can send: HDR_FIN ends the headers and does
\* not occur in them before; it may occur in a body or span its end.
ASSUME StreamAssumption ==
    /\ K \in Nat /\ FinLen \in Nat \ {0} /\ Chunk \in Nat \ {0}
    /\ SndBuf \in Nat \ {0}
    /\ End \in [0 .. K -> Nat] /\ End[0] = 0
    /\ HdrEnd \in [Reqs -> Nat]
    /\ Fin \in SUBSET Nat
    /\ Size \in [Reqs -> Nat]
    /\ \A q, r \in 0 .. K : q < r => End[q] < End[r]
    /\ \A r \in Reqs :
         /\ End[r - 1] + FinLen <= HdrEnd[r] /\ HdrEnd[r] <= End[r]
         /\ HdrEnd[r] \in Fin
         /\ \A p \in Fin : p < End[r - 1] + FinLen \/ HdrEnd[r] <= p

VARIABLES
    peer,           \* "open", "fin": no more data, "reset"
    sent,           \* bytes of the stream the peer has sent
    inFlight,       \* bytes in the send buffer that the peer has not read
    wire,           \* every byte written: <<r, k>> is byte k of response r
    interest,       \* the epoll registration: "none", "in" or "out"
    armed,          \* the descriptor is on epoll's ready list
    pc,             \* where the event-loop thread is
    closed,         \* BaseSocket::closed
    bufBeg, bufEnd, \* BaseSocket::buffer
    isHeadersDone,  \* Http11Socket::isHeadersDone
    hdr,            \* req: where its headers begin and end
    bytesToRead,    \* Http11Socket::bytesToRead
    served,         \* the requests given to hsh, as <<begin, headers, end>>
    pd,             \* handle's local pd
    outbuf          \* Http11Socket::outbuf, each [req, oft]

kernelVars == <<peer, sent, inFlight>>
epollVars  == <<interest, armed>>
readVars   == <<bufBeg, bufEnd, isHeadersDone, hdr, bytesToRead, served>>
vars       == <<kernelVars, wire, epollVars, pc, closed, readVars, pd, outbuf>>

Pcs == {"wait", "recv", "parse", "write", "register", "unregister"}

TypeOK ==
    /\ peer \in {"open", "fin", "reset"}
    /\ sent \in 0 .. End[K]
    /\ inFlight \in 0 .. SndBuf
    /\ wire \in Seq(Reqs \X (Nat \ {0}))
    /\ interest \in {"none", "in", "out"}
    /\ armed \in BOOLEAN
    /\ pc \in Pcs
    /\ closed \in BOOLEAN
    /\ bufBeg \in 0 .. bufEnd
    /\ bufEnd \in 0 .. sent
    /\ isHeadersDone \in BOOLEAN
    /\ hdr \in Nat \X Nat
    /\ bytesToRead \in Nat
    /\ served \in Seq(Nat \X Nat \X Nat)
    /\ pd \in BOOLEAN
    /\ outbuf \in Seq([req : Reqs, oft : Nat])

Init ==
    /\ peer = "open" /\ sent = 0 /\ inFlight = 0 /\ wire = <<>>
    /\ interest = "none" /\ armed = FALSE
    /\ pc = "wait" /\ closed = FALSE
    /\ bufBeg = 0 /\ bufEnd = 0
    /\ isHeadersDone = FALSE /\ hdr = <<0, 0>> /\ bytesToRead = 0
    /\ served = <<>> /\ pd = FALSE /\ outbuf = <<>>

-----------------------------------------------------------------------------
(* The peer and the kernel *)

Readable == sent > bufEnd
Writable == inFlight < SndBuf
Hangup   == peer # "open"

\* Whether a descriptor registered for i has an event to report.
Pending(i) ==
    \/ Hangup
    \/ i = "in" /\ Readable
    \/ i = "out" /\ Writable

\* A change that raises an event of the registered kind puts the descriptor
\* on the ready list; every registration includes EPOLLERR, HUP and RDHUP.
Raise(i) == armed' = (armed \/ (~closed /\ interest = i))

PeerSends ==
    /\ peer = "open"
    /\ \E n \in 1 .. End[K] - sent : sent' = sent + n
    /\ Raise("in")
    /\ UNCHANGED <<peer, inFlight, wire, interest, pc, closed, readVars, pd, outbuf>>

PeerReads ==
    /\ peer # "reset"
    /\ \E n \in 1 .. inFlight : inFlight' = inFlight - n
    /\ Raise("out")
    /\ UNCHANGED <<peer, sent, wire, interest, pc, closed, readVars, pd, outbuf>>

PeerHangsUp ==
    /\ \/ peer = "open" /\ peer' \in {"fin", "reset"}
       \/ peer = "fin" /\ peer' = "reset"
    /\ armed' = (armed \/ (~closed /\ interest # "none"))
    /\ UNCHANGED <<sent, inFlight, wire, interest, pc, closed, readVars, pd, outbuf>>

-----------------------------------------------------------------------------
(* SelEpolKqEvPrt *)

\* registerRead, by the acceptor thread once the ACCEPTED callback has made
\* the socket
Accept ==
    /\ interest = "none"
    /\ interest' = "in"
    /\ armed' = Pending("in")
    /\ UNCHANGED <<kernelVars, wire, pc, closed, readVars, pd, outbuf>>

\* closeSocket: close(fd) also takes the descriptor out of epoll.
CloseSocket ==
    /\ closed' = TRUE
    /\ armed' = FALSE

\* getDescriptor on EPOLLERR, EPOLLHUP or EPOLLRDHUP: the socket is closed and
\* its READ_READY callback still runs.
DeliverHangup ==
    /\ pc = "wait" /\ armed /\ Hangup
    /\ CloseSocket
    /\ pc' = "recv"
    /\ UNCHANGED <<kernelVars, wire, interest, readVars, pd, outbuf>>

DeliverWrite ==
    /\ pc = "wait" /\ armed /\ ~Hangup
    /\ interest = "out" /\ Writable
    /\ armed' = FALSE
    /\ pc' = "unregister"
    /\ UNCHANGED <<kernelVars, wire, interest, closed, readVars, pd, outbuf>>

DeliverRead ==
    /\ pc = "wait" /\ armed /\ ~Hangup
    /\ interest = "in" /\ Readable
    /\ armed' = FALSE
    /\ pc' = "recv"
    /\ UNCHANGED <<kernelVars, wire, interest, closed, readVars, pd, outbuf>>

\* epoll_wait finds nothing to report any more and drops the entry.
DeliverNothing ==
    /\ pc = "wait" /\ armed /\ ~Pending(interest)
    /\ armed' = FALSE
    /\ UNCHANGED <<kernelVars, wire, interest, pc, closed, readVars, pd, outbuf>>

-----------------------------------------------------------------------------
(* BaseSocket::readFrom *)

\* Mutant: one recv per event.
RecvDataOnce ==
    /\ pc = "recv" /\ ~closed /\ Readable
    /\ bufEnd' = IF sent - bufEnd < Chunk THEN sent ELSE bufEnd + Chunk
    /\ pc' = "parse"
    /\ pd' = FALSE
    /\ UNCHANGED <<kernelVars, wire, epollVars, closed, bufBeg, isHeadersDone,
                   hdr, bytesToRead, served, outbuf>>

\* recv returned fewer bytes than asked for, or as many
RecvData ==
    /\ pc = "recv" /\ ~closed /\ Readable
    /\ LET er == IF sent - bufEnd < Chunk THEN sent - bufEnd ELSE Chunk
       IN  /\ bufEnd' = bufEnd + er
           /\ pc' = IF er < Chunk THEN "parse" ELSE "recv"
    /\ pd' = FALSE
    /\ UNCHANGED <<kernelVars, wire, epollVars, closed, bufBeg, isHeadersDone,
                   hdr, bytesToRead, served, outbuf>>

\* Mutant: EAGAIN is taken for an error.
RecvNothingCloses ==
    /\ pc = "recv"
    /\ closed \/ (~Readable /\ peer = "open")
    /\ CloseSocket
    /\ pc' = "parse"
    /\ pd' = FALSE
    /\ UNCHANGED <<kernelVars, wire, interest, readVars, outbuf>>

\* EAGAIN, or EBADF on a descriptor getDescriptor has just closed
RecvNothing ==
    /\ pc = "recv"
    /\ closed \/ (~Readable /\ peer = "open")
    /\ pc' = "parse"
    /\ pd' = FALSE
    /\ UNCHANGED <<kernelVars, wire, epollVars, closed, readVars, outbuf>>

\* The peer has shut down: readFrom returns 0 and handle returns.
RecvEnd ==
    /\ pc = "recv" /\ ~closed /\ ~Readable /\ peer = "fin"
    /\ CloseSocket
    /\ pc' = "wait"
    /\ UNCHANGED <<kernelVars, wire, interest, readVars, pd, outbuf>>

\* The connection is reset: readFrom returns -1 and handle goes on.
RecvError ==
    /\ pc = "recv" /\ ~closed /\ ~Readable /\ peer = "reset"
    /\ CloseSocket
    /\ pc' = "parse"
    /\ pd' = FALSE
    /\ UNCHANGED <<kernelVars, wire, interest, readVars, outbuf>>

-----------------------------------------------------------------------------
(* Http11Socket::read and the parsing loop of handle *)

\* buffer.find(HDR_FIN): where the first match inside buffer ends
Matches == {p \in Fin : bufBeg + FinLen <= p /\ p <= bufEnd}
Found   == Matches # {}
FirstMatch == CHOOSE p \in Matches : \A q \in Matches : p <= q

\* req.reset: the Content-Length of the headers at b + 1 .. e; what are not
\* the headers of a request leave it 0.
ContentLength(b, e) ==
    IF \E r \in Reqs : b = End[r - 1] /\ e = HdrEnd[r]
    THEN LET r == CHOOSE r \in Reqs : b = End[r - 1] /\ e = HdrEnd[r]
         IN  End[r] - HdrEnd[r]
    ELSE 0

\* Mutant: read looks for headers although it is waiting for content.
ReadHeadersAgain ==
    /\ pc = "parse" /\ bufBeg < bufEnd
    /\ Found
    /\ hdr' = <<bufBeg, FirstMatch>>
    /\ bytesToRead' = ContentLength(bufBeg, FirstMatch)
    /\ bufBeg' = FirstMatch
    /\ isHeadersDone' = TRUE
    /\ UNCHANGED <<kernelVars, wire, epollVars, pc, closed, bufEnd, served, pd, outbuf>>

ReadHeaders ==
    /\ pc = "parse" /\ bufBeg < bufEnd
    /\ ~isHeadersDone /\ Found
    /\ hdr' = <<bufBeg, FirstMatch>>
    /\ bytesToRead' = ContentLength(bufBeg, FirstMatch)
    /\ bufBeg' = FirstMatch
    /\ isHeadersDone' = TRUE
    /\ UNCHANGED <<kernelVars, wire, epollVars, pc, closed, bufEnd, served, pd, outbuf>>

\* Mutant: handle reads one request per event.
ReadContentOnce ==
    /\ pc = "parse"
    /\ isHeadersDone /\ bufEnd - bufBeg >= bytesToRead
    /\ bufBeg' = bufBeg + bytesToRead
    /\ bytesToRead' = 0
    /\ isHeadersDone' = FALSE
    /\ served' = Append(served, <<hdr[1], hdr[2], bufBeg + bytesToRead>>)
    /\ \/ /\ Len(served') \in Reqs /\ Size[Len(served')] > 0
          /\ outbuf' = Append(outbuf, [req |-> Len(served'), oft |-> 0])
          /\ pd' = TRUE
          /\ pc' = "write"
       \/ /\ Len(served') \notin Reqs \/ Size[Len(served')] = 0
          /\ UNCHANGED <<outbuf, pd, pc>>
    /\ UNCHANGED <<kernelVars, wire, epollVars, closed, bufEnd, hdr>>

\* The content is complete: hsh handles the request and its response, if it
\* made one, joins outbuf.
ReadContent ==
    /\ pc = "parse"
    /\ isHeadersDone /\ bufEnd - bufBeg >= bytesToRead
    /\ bufBeg' = bufBeg + bytesToRead
    /\ bytesToRead' = 0
    /\ isHeadersDone' = FALSE
    /\ served' = Append(served, <<hdr[1], hdr[2], bufBeg + bytesToRead>>)
    /\ \/ /\ Len(served') \in Reqs /\ Size[Len(served')] > 0
          /\ outbuf' = Append(outbuf, [req |-> Len(served'), oft |-> 0])
          /\ pd' = TRUE
       \/ /\ Len(served') \notin Reqs \/ Size[Len(served')] = 0
          /\ UNCHANGED <<outbuf, pd>>
    /\ UNCHANGED <<kernelVars, wire, epollVars, pc, closed, bufEnd, hdr>>

\* The buffer is empty or read returns false.
ReadIncomplete ==
    /\ pc = "parse"
    /\ \/ ~isHeadersDone /\ ~Found
       \/ isHeadersDone /\ bufEnd - bufBeg < bytesToRead
    /\ pc' = IF pd THEN "write" ELSE "wait"
    /\ UNCHANGED <<kernelVars, wire, epollVars, closed, readVars, pd, outbuf>>

-----------------------------------------------------------------------------
(* The writing loops of handle and of WRITE_READY, and BaseSocket::writeTo *)

Erase == outbuf' = Tail(outbuf)

\* Mutant: a partial write does not advance oft.
SendSomeRestarts ==
    /\ pc = "write" /\ outbuf # <<>>
    /\ ~closed /\ peer # "reset"
    /\ LET d    == Head(outbuf)
           left == Size[d.req] - d.oft
       IN  \E n \in 1 .. left :
             /\ inFlight + n <= SndBuf
             /\ inFlight' = inFlight + n
             /\ wire' = wire \o [j \in 1 .. n |-> <<d.req, d.oft + j>>]
             /\ IF n = left THEN Erase ELSE UNCHANGED outbuf
    /\ UNCHANGED <<peer, sent, epollVars, pc, closed, readVars, pd>>

\* send takes n bytes of the first response; one written whole is erased.
SendSome ==
    /\ pc = "write" /\ outbuf # <<>>
    /\ ~closed /\ peer # "reset"
    /\ LET d    == Head(outbuf)
           left == Size[d.req] - d.oft
       IN  \E n \in 1 .. left :
             /\ inFlight + n <= SndBuf
             /\ inFlight' = inFlight + n
             /\ wire' = wire \o [j \in 1 .. n |-> <<d.req, d.oft + j>>]
             /\ IF n = left THEN Erase
                ELSE outbuf' = [outbuf EXCEPT ![1].oft = @ + n]
    /\ UNCHANGED <<peer, sent, epollVars, pc, closed, readVars, pd>>

\* Mutant: the loop breaks without registering for EPOLLOUT.
SendBlockedForgotten ==
    /\ pc = "write" /\ outbuf # <<>>
    /\ ~closed /\ peer # "reset" /\ ~Writable
    /\ pc' = "wait"
    /\ UNCHANGED <<kernelVars, wire, epollVars, closed, readVars, pd, outbuf>>

SendBlocked ==
    /\ pc = "write" /\ outbuf # <<>>
    /\ ~closed /\ peer # "reset" /\ ~Writable
    /\ pc' = "register"
    /\ UNCHANGED <<kernelVars, wire, epollVars, closed, readVars, pd, outbuf>>

\* send fails: writeTo closes the socket and returns 0, and the loop erases
\* the response and goes on.
SendFails ==
    /\ pc = "write" /\ outbuf # <<>>
    /\ closed \/ peer = "reset"
    /\ CloseSocket
    /\ Erase
    /\ UNCHANGED <<kernelVars, wire, interest, pc, readVars, pd>>

WriteDone ==
    /\ pc = "write" /\ outbuf = <<>>
    /\ pc' = "wait"
    /\ UNCHANGED <<kernelVars, wire, epollVars, closed, readVars, pd, outbuf>>

\* EPOLL_CTL_MOD looks at the descriptor again.
RegisterWrite ==
    /\ pc = "register"
    /\ interest' = "out"
    /\ armed' = Pending("out")
    /\ pc' = "wait"
    /\ UNCHANGED <<kernelVars, wire, closed, readVars, pd, outbuf>>

UnRegisterWrite ==
    /\ pc = "unregister"
    /\ interest' = "in"
    /\ armed' = Pending("in")
    /\ pc' = "write"
    /\ UNCHANGED <<kernelVars, wire, closed, readVars, pd, outbuf>>

-----------------------------------------------------------------------------
Loop ==
    \/ DeliverHangup \/ DeliverWrite \/ DeliverRead \/ DeliverNothing
    \/ RecvData \/ RecvNothing \/ RecvEnd \/ RecvError
    \/ ReadHeaders \/ ReadContent \/ ReadIncomplete
    \/ SendSome \/ SendBlocked \/ SendFails \/ WriteDone
    \/ RegisterWrite \/ UnRegisterWrite

Next == Loop \/ Accept \/ PeerSends \/ PeerReads \/ PeerHangsUp

Spec == Init /\ [][Next]_vars

\* The acceptor and the event loop keep running, and a peer that has not gone
\* away keeps reading.
FairSpec == Spec /\ WF_vars(Loop) /\ WF_vars(Accept) /\ WF_vars(PeerReads)
-----------------------------------------------------------------------------
(* Properties *)

\* Requests are framed the way the peer sent them: whatever the pieces the
\* bytes arrive in, and whatever a body contains, the r-th request read()
\* completes has exactly the headers and the content of the peer's r-th.
Framed ==
    \A r \in 1 .. Len(served) :
        r \in Reqs /\ served[r] = <<End[r - 1], HdrEnd[r], End[r]>>

\* The two registrations and the output buffer agree whenever the loop goes
\* back to epoll_wait: an open connection waits for EPOLLOUT exactly when
\* responses are left, so output never waits unwatched and an idle connection
\* never stops listening for requests.
OutputWatched ==
    pc = "wait" /\ ~closed => (outbuf # <<>> <=> interest = "out")

\* No edge is lost: when the loop waits, a connection with bytes to read, with
\* room for the output it holds, or hung up, is on the ready list.
EdgeKept ==
    pc = "wait" /\ ~closed /\ interest # "none" /\ Pending(interest) => armed

\* The server closes a connection only after the peer has shut down or reset
\* it: no partial write, retry or empty send closes a healthy connection.
PeerClosesFirst == closed => peer # "open"

\* The socket implements an in-order, gapless response stream: every send
\* continues the response that is under way, or begins the next one after it
\* is whole, across partial writes, EAGAIN and the hand-over from handle to
\* the WRITE_READY callback.
Responses == INSTANCE PipelinedResponses
    WITH served <- Len(served), open <- ~closed
ImplementsResponses == Responses!Spec

\* Every complete request that has a response gets all of it, unless the peer
\* goes away.
EveryRequestAnswered ==
    \A r \in Reqs :
        (sent >= End[r] /\ Size[r] > 0) ~>
            (peer # "open" \/ \E i \in 1 .. Len(wire) : wire[i] = <<r, Size[r]>>)
=============================================================================
