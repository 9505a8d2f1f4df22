------------------------ MODULE SocketInterfaceProofs ------------------------
(***************************************************************************)
(* Proofs about module SocketInterface, for any number of requests, sizes  *)
(* of responses and size of the send buffer.                               *)
(*                                                                         *)
(* completeWrite looks for the response to go on with at current + 1.      *)
(* That it finds it there rests on two things: the peer awaits each        *)
(* response, and a request that the handler answers by another way, which  *)
(* stays in wtl, is not followed by one that is answered here              *)
(* (ElsewhereLast).  Without the second WindowExact is false: of responses *)
(* of 0, 1 and 3 bytes the third, when it blocks, is looked for at 2.      *)
(***************************************************************************)
EXTENDS SocketInterface, FiniteSetTheorems, SequenceTheorems, TLAPS

\* The requests that are answered by another way are the last ones.
ElsewhereLast == \A r \in Reqs : Size[r] = 0 => \A q \in r .. K : Size[q] = 0

WorkerPcs == {"idle", "serve", "push", "check", "complete", "closing"}
LoopPcs   == {"wait", "hangup", "closing", "read", "write"}

\* The types of the state
TypeOK ==
    /\ peer \in {"open", "fin", "reset"} /\ sent \in Nat /\ inFlight \in Nat
    /\ wire \in Seq(Nat \X Nat)
    /\ interest \in {"in", "out"} /\ armed \in BOOLEAN
    /\ fdOpen \in BOOLEAN /\ closed \in BOOLEAN /\ queued \in Nat
    /\ lpc \in LoopPcs /\ tasks \in Seq({"read", "write"})
    /\ wpc \in WorkerPcs /\ ret \in {"idle", "serve"} /\ got \in Nat
    /\ reqPos \in Nat /\ current \in Nat /\ pos \in Nat
    /\ wtl \in [DOMAIN wtl -> [len : Nat, oft : Nat]]

\* The peer awaits each response: a request after one that is answered here has
\* been sent only when that one is ended.
Lockstep ==
    /\ current <= reqPos /\ reqPos <= got /\ got <= sent /\ sent <= K
    /\ sent <= reqPos + 1
    /\ sent = reqPos + 1 /\ reqPos > 0 /\ Size[reqPos] > 0 => current = reqPos

\* wtl holds the requests after current; of those only the last can have a
\* response here, and part of that may have been sent.
Window ==
    /\ DOMAIN wtl = current + 1 .. reqPos
    /\ \A p \in current + 1 .. reqPos :
         /\ wtl[p].len = Size[p]
         /\ IF Size[p] = 0 THEN wtl[p].oft = 0 ELSE wtl[p].oft < Size[p] /\ p = reqPos

\* What the worker writes is the first response in wtl.
Position ==
    /\ Writing => pos = current + 1 /\ pos <= reqPos
    /\ wpc = "push" => Size[pos] > 0
    /\ wpc = "check" => pos = current + 1 \/ current = reqPos

\* A response whose last byte is on the wire has been ended.
Ended == \A i \in 1 .. Len(wire), r \in Reqs : wire[i] = <<r, Size[r]>> => r <= current

\* The descriptor is closed before the socket is marked closed.
ClosedFirst == closed \/ lpc = "closing" \/ wpc = "closing" => ~fdOpen

\* The last unit of a connection on which everything up to current is whole
Before == IF current = 0 THEN <<0, 0>> ELSE <<current, Size[current]>>

\* While the descriptor is open the wire ends where wtl says.
Continues == fdOpen =>
    /\ \A r \in 1 .. current : Size[r] > 0
    /\ Responses!LastUnit(wire) =
         IF current < reqPos /\ wtl[current + 1].oft > 0
         THEN <<current + 1, wtl[current + 1].oft>> ELSE Before

Inv == TypeOK /\ Lockstep /\ Window /\ Position /\ Ended /\ ClosedFirst /\ Continues
IInv == ElsewhereLast /\ Inv

-----------------------------------------------------------------------------
(* Steps that leave the responses alone *)

LEMMA Unmoved ==
    ASSUME IInv, TypeOK', ClosedFirst',
           UNCHANGED <<sent, wire, reqPos, current, wtl>>,
           got' \in {got, sent}, fdOpen' => fdOpen,
           \/ UNCHANGED <<wpc, pos>>
           \/ wpc' \in {"idle", "serve", "closing"}
           \/ wpc' = "check" /\ pos' = current + 1
           \/ wpc = "check" /\ wpc' = "complete" /\ current # reqPos /\ pos' = pos
    PROVE  IInv'
<1> USE DEF IInv, Inv
<1>1. Lockstep'
  BY SMTT(30) DEF Lockstep, TypeOK
<1>2. Window'
  BY DEF Window
<1>3. Position'
  <2>1. CASE UNCHANGED <<wpc, pos>>
    BY <2>1 DEF Position, Writing
  <2>2. CASE wpc' \in {"idle", "serve", "closing"}
    BY <2>2 DEF Position, Writing
  <2>3. CASE wpc' = "check" /\ pos' = current + 1
    BY <2>3 DEF Position, Writing
  <2>4. CASE wpc = "check" /\ wpc' = "complete" /\ current # reqPos /\ pos' = pos
    <3>1. pos = current + 1
      BY <2>4 DEF Position
    <3>2. pos <= reqPos
      BY <2>4, <3>1 DEF Lockstep, TypeOK
    <3> QED BY <2>4, <3>1, <3>2 DEF Position, Writing
  <2> QED BY <2>1, <2>2, <2>3, <2>4
<1>4. Ended'
  BY DEF Ended
<1>5. Continues'
  BY DEF Continues, Before, Responses!LastUnit
<1>6. ElsewhereLast'
  BY DEF ElsewhereLast, Reqs
<1> QED BY <1>1, <1>2, <1>3, <1>4, <1>5, <1>6

\* EPOLL_CTL_MOD keeps the types.
LEMMA ModifyTypes ==
    ASSUME TypeOK, NEW i \in {"in", "out"}, Modify(i)
    PROVE  interest' \in {"in", "out"} /\ armed' \in BOOLEAN
  BY DEF TypeOK, Modify, Pending, Hangup, Readable, Writable, epollVars

LEMMA PeerReadsKeeps == ASSUME IInv, PeerReads PROVE IInv'
<1>1. /\ inFlight' \in Nat /\ armed' \in BOOLEAN
      /\ UNCHANGED <<peer, sent, wire, interest, closeVars, lpc, tasks, wpc, ret, got, respVars>>
  BY DEF PeerReads, Raise, IInv, Inv, TypeOK
<1>2. TypeOK' /\ ClosedFirst'
  BY <1>1 DEF IInv, Inv, TypeOK, ClosedFirst, closeVars, respVars
<1> QED BY <1>1, <1>2, Unmoved DEF closeVars, respVars

LEMMA PeerHangsUpKeeps == ASSUME IInv, PeerHangsUp PROVE IInv'
<1>1. /\ peer' \in {"open", "fin", "reset"} /\ armed' \in BOOLEAN
      /\ UNCHANGED <<sent, inFlight, wire, interest, closeVars, lpc, tasks, wpc, ret, got, respVars>>
  BY DEF PeerHangsUp, IInv, Inv, TypeOK
<1>2. TypeOK' /\ ClosedFirst'
  BY <1>1 DEF IInv, Inv, TypeOK, ClosedFirst, closeVars, respVars
<1> QED BY <1>1, <1>2, Unmoved DEF closeVars, respVars

\* The event loop only takes events, closes and submits tasks.
LEMMA LoopKeeps == ASSUME IInv, Loop PROVE IInv'
<1> USE DEF IInv, Inv
<1>1. UNCHANGED <<kernelVars, wire, wpc, ret, got, respVars>>
  BY DEF Loop, Fetch, LoopHangup, LoopCloseEnd, LoopRead, LoopWrite
<1>2. /\ interest' \in {"in", "out"} /\ armed' \in BOOLEAN
      /\ fdOpen' \in BOOLEAN /\ closed' \in BOOLEAN /\ queued' \in Nat
      /\ lpc' \in LoopPcs /\ tasks' \in Seq({"read", "write"})
      /\ fdOpen' => fdOpen /\ ~closed' /\ lpc' # "closing"
  <2>1. CASE Fetch
    BY <2>1 DEF Fetch, closeVars, TypeOK, LoopPcs, ClosedFirst, Hangup
  <2>2. CASE LoopHangup
    <3>1. CASE closed
      BY <2>2, <3>1 DEF LoopHangup, TypeOK, LoopPcs, ClosedFirst
    <3>2. CASE ~closed
      <4>1. lpc' = "closing" /\ fdOpen' = FALSE /\ armed' = FALSE /\ queued' = queued + 1
            /\ UNCHANGED <<interest, closed, tasks>>
        BY <2>2, <3>2 DEF LoopHangup, CloseBegin
      <4>2. fdOpen' \in BOOLEAN /\ armed' \in BOOLEAN /\ ~fdOpen'
        BY <4>1, Zenon
      <4>3. queued' \in Nat /\ lpc' \in LoopPcs
        BY <4>1 DEF TypeOK, LoopPcs
      <4>4. interest' \in {"in", "out"} /\ closed' \in BOOLEAN /\ tasks' \in Seq({"read", "write"})
        BY <4>1, Zenon DEF TypeOK
      <4> QED BY <4>2, <4>3, <4>4
    <3> QED BY <3>1, <3>2
  <2>3. CASE LoopCloseEnd
    BY <2>3 DEF LoopCloseEnd, epollVars, TypeOK, LoopPcs, ClosedFirst
  <2>4. CASE LoopRead
    BY <2>4 DEF LoopRead, epollVars, closeVars, TypeOK, LoopPcs, ClosedFirst
  <2>5. CASE LoopWrite
    <3>1. interest' \in {"in", "out"} /\ armed' \in BOOLEAN
      BY <2>5, ModifyTypes DEF LoopWrite, epollVars, TypeOK
    <3>2. tasks' \in Seq({"read", "write"})
      <4>1. tasks \in Seq({"read", "write"})
        BY DEF TypeOK
      <4>2. tasks' = tasks \/ tasks' = Append(tasks, "write")
        BY <2>5 DEF LoopWrite
      <4> QED BY <4>1, <4>2
    <3>3. lpc' = "wait" /\ UNCHANGED <<fdOpen, closed, queued>>
      BY <2>5 DEF LoopWrite, closeVars
    <3> QED BY <3>1, <3>2, <3>3 DEF TypeOK, LoopPcs, ClosedFirst
  <2> QED BY <2>1, <2>2, <2>3, <2>4, <2>5 DEF Loop
<1>3. TypeOK'
  BY <1>1, <1>2 DEF TypeOK, kernelVars, respVars
<1>4. ClosedFirst'
  BY <1>1, <1>2 DEF ClosedFirst, TypeOK
<1> QED BY <1>1, <1>2, <1>3, <1>4, Unmoved DEF kernelVars, respVars

\* closeSocket, as the worker calls it
LEMMA WorkerCloseTypes ==
    ASSUME IInv, NEW next \in {"idle", "serve"}, WorkerClose(next)
    PROVE  /\ wpc' \in {"idle", "serve", "closing"} /\ ret' \in {"idle", "serve"}
           /\ armed' \in BOOLEAN /\ queued' \in Nat /\ fdOpen' \in BOOLEAN /\ ~fdOpen'
<1>1. CASE closed
  BY <1>1 DEF WorkerClose, IInv, Inv, TypeOK, ClosedFirst
<1>2. CASE ~closed
  <2>1. wpc' = "closing" /\ ret' = next /\ fdOpen' = FALSE /\ armed' = FALSE /\ queued' = queued + 1
    BY <1>2 DEF WorkerClose, CloseBegin
  <2>2. fdOpen' \in BOOLEAN /\ armed' \in BOOLEAN /\ ~fdOpen'
    BY <2>1, Zenon
  <2>3. queued' \in Nat
    BY <2>1 DEF IInv, Inv, TypeOK
  <2> QED BY <2>1, <2>2, <2>3
<1> QED BY <1>1, <1>2

LEMMA ReadTaskKeeps == ASSUME IInv, ReadTask PROVE IInv'
<1> USE DEF IInv, Inv
<1>1. /\ UNCHANGED <<kernelVars, wire, interest, closed, lpc, respVars>>
      /\ tasks' = Tail(tasks) /\ tasks # <<>> /\ wpc = "idle"
  BY DEF ReadTask
<1>2. /\ wpc' \in {"idle", "serve", "closing"} /\ ret' \in {"idle", "serve"}
      /\ armed' \in BOOLEAN /\ queued' \in Nat /\ got' \in {got, sent}
      /\ fdOpen' \in BOOLEAN /\ (fdOpen' => fdOpen /\ wpc' # "closing")
  <2>1. CASE got' = sent /\ wpc' = "serve" /\ UNCHANGED <<ret, armed, fdOpen, queued>>
    BY <2>1 DEF TypeOK
  <2>2. CASE wpc' = "serve" /\ UNCHANGED <<ret, got, armed, fdOpen, queued>>
    BY <2>2 DEF TypeOK
  <2>3. CASE WorkerClose("idle") /\ UNCHANGED got
    BY <2>3, WorkerCloseTypes
  <2>4. CASE WorkerClose("serve") /\ UNCHANGED got
    BY <2>4, WorkerCloseTypes
  <2> QED BY <2>1, <2>2, <2>3, <2>4 DEF ReadTask
<1>3. TypeOK'
  BY <1>1, <1>2 DEF TypeOK, kernelVars, respVars, WorkerPcs
<1>4. ClosedFirst'
  BY <1>1, <1>2 DEF ClosedFirst
<1> QED BY <1>1, <1>2, <1>3, <1>4, Unmoved DEF kernelVars, respVars

LEMMA ControlKeeps ==
    ASSUME IInv, ServeDone \/ CompleteDone \/ PushBlocked \/ CompleteBlocked \/ WorkerCloseEnd
    PROVE  IInv'
<1> USE DEF IInv, Inv
<1>1. /\ UNCHANGED <<kernelVars, wire, fdOpen, queued, lpc, tasks, ret, got, respVars>>
      /\ wpc' \in {"idle", "serve"}
      /\ closed' \in BOOLEAN /\ (closed' => closed \/ wpc = "closing")
  <2>1. CASE WorkerCloseEnd
    BY <2>1 DEF WorkerCloseEnd, TypeOK
  <2>2. CASE ServeDone \/ CompleteDone \/ PushBlocked \/ CompleteBlocked
    BY <2>2 DEF ServeDone, CompleteDone, PushBlocked, CompleteBlocked, closeVars, TypeOK
  <2> QED BY <2>1, <2>2
<1>2. interest' \in {"in", "out"} /\ armed' \in BOOLEAN
  BY ModifyTypes DEF ServeDone, CompleteDone, PushBlocked, CompleteBlocked, WorkerCloseEnd,
                     epollVars, TypeOK
<1>3. TypeOK'
  BY <1>1, <1>2 DEF TypeOK, kernelVars, respVars, WorkerPcs
<1>4. ClosedFirst'
  BY <1>1 DEF ClosedFirst
<1> QED BY <1>1, <1>3, <1>4, Unmoved DEF kernelVars, respVars

LEMMA WriteTaskKeeps == ASSUME IInv, WriteTask PROVE IInv'
<1> USE DEF IInv, Inv
<1>1. /\ UNCHANGED <<kernelVars, wire, epollVars, closeVars, lpc, ret, got, reqPos, current, wtl>>
      /\ wpc' = "check" /\ pos' = current + 1 /\ tasks' = Tail(tasks) /\ tasks # <<>>
  BY DEF WriteTask
<1>2. TypeOK'
  BY <1>1 DEF TypeOK, kernelVars, epollVars, closeVars, WorkerPcs
<1>3. ClosedFirst'
  BY <1>1 DEF ClosedFirst, closeVars
<1> QED BY <1>1, <1>2, <1>3, Unmoved DEF kernelVars, closeVars

\* completeWrite finds a response at its position.
LEMMA CompleteNextKeeps == ASSUME IInv, CompleteNext PROVE IInv'
<1> USE DEF IInv, Inv
<1>1. /\ UNCHANGED <<kernelVars, wire, epollVars, closeVars, lpc, tasks, ret, got,
                     reqPos, current, pos>>
      /\ wpc = "check" /\ wpc' = "complete" /\ current # reqPos
  BY DEF CompleteNext
<1>2. wtl' = wtl
  BY <1>1 DEF CompleteNext, Position, Window, Lockstep, TypeOK
<1>3. TypeOK'
  BY <1>1, <1>2 DEF TypeOK, kernelVars, epollVars, closeVars, WorkerPcs
<1>4. ClosedFirst'
  BY <1>1 DEF ClosedFirst, closeVars
<1> QED BY <1>1, <1>2, <1>3, <1>4, Unmoved DEF kernelVars, closeVars

-----------------------------------------------------------------------------
(* Requests *)

\* The next request is sent when the last one is ended or answered elsewhere.
LEMMA PeerSendsKeeps == ASSUME IInv, PeerSends PROVE IInv'
<1> USE DEF IInv, Inv
<1>1. /\ sent < K /\ sent' = sent + 1 /\ armed' \in BOOLEAN
      /\ UNCHANGED <<peer, inFlight, wire, interest, closeVars, lpc, tasks, wpc, ret, got, respVars>>
      /\ sent > 0 => Answered(sent)
  BY DEF PeerSends, Raise, TypeOK
<1>2. K \in Nat /\ Size \in [1 .. K -> Nat]
  BY SocketAssumption DEF Reqs
<1>3. TypeOK'
  BY <1>1 DEF TypeOK, closeVars, respVars
<1>4. sent > 0 => reqPos = sent /\ (Size[sent] > 0 => current = sent)
  <2> HAVE sent > 0
  <2>0. sent \in Nat
    BY DEF TypeOK
  <2>1. sent \in Reqs /\ Size[sent] \in Nat
    <3>1. sent \in 1 .. K
      BY <1>1, <1>2, <2>0
    <3> QED BY <1>2, <3>1 DEF Reqs
  <2>2. CASE Size[sent] = 0 /\ reqPos >= sent
    BY <2>2 DEF Lockstep, TypeOK
  <2>3. CASE \E i \in 1 .. Len(wire) : wire[i] = <<sent, Size[sent]>>
    <3>1. sent <= current
      BY <2>1, <2>3 DEF Ended
    <3> QED BY <3>1 DEF Lockstep, TypeOK
  <2> QED BY <1>1, <2>2, <2>3 DEF Answered
<1>5. Lockstep'
  BY <1>1, <1>2, <1>4 DEF Lockstep, TypeOK, respVars
<1>6. Window' /\ Ended' /\ ClosedFirst' /\ ElsewhereLast'
  BY <1>1 DEF Window, Ended, ClosedFirst, ElsewhereLast, Reqs, respVars, closeVars
<1>7. Position' /\ Continues'
  BY <1>1 DEF Position, Writing, Continues, Before, Responses!LastUnit, respVars, closeVars
<1> QED BY <1>3, <1>5, <1>6, <1>7

\* A request with a response here is served only when wtl is empty.
LEMMA ServeRequestKeeps == ASSUME IInv, ServeRequest PROVE IInv'
<1> USE DEF IInv, Inv
<1> DEFINE r == reqPos + 1
           e == [len |-> Size[r], oft |-> 0]
<1>0. K \in Nat /\ Size \in [1 .. K -> Nat]
  BY SocketAssumption DEF Reqs
<1>1. /\ wpc = "serve" /\ reqPos < got /\ reqPos' = r
      /\ wtl' = [p \in DOMAIN wtl \cup {r} |-> IF p = r THEN e ELSE wtl[p]]
      /\ UNCHANGED <<kernelVars, wire, epollVars, closeVars, lpc, tasks, ret, got, current>>
      /\ IF Size[r] > 0 THEN pos' = r /\ wpc' = "push" ELSE UNCHANGED <<pos, wpc>>
  BY DEF ServeRequest
<1>2. /\ r \in 1 .. K /\ Size[r] \in Nat /\ sent = r /\ reqPos \in Nat /\ current \in Nat
      /\ current <= reqPos /\ got = r
  BY <1>0, <1>1 DEF Lockstep, TypeOK
<1>3. Size[r] > 0 => current = reqPos
  <2> HAVE Size[r] > 0
  <2>1. CASE reqPos = 0
    BY <1>2, <2>1
  <2>2. CASE reqPos > 0
    <3>1. reqPos \in Reqs /\ r \in reqPos .. K
      BY <1>0, <1>2, <2>2 DEF Reqs
    <3>2. Size[reqPos] # 0
      BY <3>1 DEF ElsewhereLast
    <3>3. Size[reqPos] \in Nat
      BY <1>0, <3>1 DEF Reqs
    <3> QED BY <1>2, <2>2, <3>2, <3>3 DEF Lockstep
  <2> QED BY <1>2, <2>1, <2>2
<1>4. e \in [len : Nat, oft : Nat] /\ e.len = Size[r] /\ e.oft = 0
  BY <1>2
<1> HIDE DEF e
<1>5. /\ DOMAIN wtl' = current + 1 .. r
      /\ wtl'[r] = e
      /\ \A p \in current + 1 .. reqPos : wtl'[p] = wtl[p]
  BY <1>1, <1>2 DEF Window
<1>6. TypeOK'
  <2>1. wtl' \in [DOMAIN wtl' -> [len : Nat, oft : Nat]]
    BY <1>1, <1>4 DEF TypeOK
  <2> QED BY <1>1, <1>2, <2>1 DEF TypeOK, kernelVars, epollVars, closeVars, WorkerPcs
<1>7. Lockstep'
  BY <1>1, <1>2 DEF Lockstep, kernelVars
<1>8. Window'
  <2>1. \A p \in current + 1 .. reqPos : Size[r] > 0 => FALSE
    BY <1>2, <1>3
  <2>2. \A p \in current + 1 .. reqPos : Size[p] = 0 \/ p = reqPos
    BY DEF Window
  <2>3. \A p \in current + 1 .. reqPos : Size[p] = 0
    <3> SUFFICES ASSUME NEW p \in current + 1 .. reqPos, Size[p] # 0 PROVE FALSE
      OBVIOUS
    <3>1. p = reqPos /\ reqPos \in 1 .. K /\ reqPos > 0 /\ Size[reqPos] > 0
      BY <1>0, <1>2, <2>2
    <3> QED BY <1>2, <3>1 DEF Lockstep
  <2> QED BY <1>1, <1>2, <1>4, <1>5, <2>3 DEF Window
<1>9. Position'
  BY <1>1, <1>2, <1>3 DEF Position, Writing
<1>10. Ended' /\ ClosedFirst' /\ ElsewhereLast'
  BY <1>1 DEF Ended, ClosedFirst, ElsewhereLast, Reqs, closeVars
<1>11. Continues'
  <2> SUFFICES ASSUME fdOpen PROVE
         /\ \A q \in 1 .. current : Size[q] > 0
         /\ Responses!LastUnit(wire) =
              IF current < r /\ wtl'[current + 1].oft > 0
              THEN <<current + 1, wtl'[current + 1].oft>> ELSE Before
    BY <1>1 DEF Continues, Before, closeVars, Responses!LastUnit
  <2>1. CASE current = reqPos
    BY <1>2, <1>4, <1>5, <2>1 DEF Continues
  <2>2. CASE current < reqPos
    BY <1>2, <1>5, <2>2 DEF Continues
  <2> QED BY <1>2, <2>1, <2>2
<1> QED BY <1>6, <1>7, <1>8, <1>9, <1>10, <1>11

-----------------------------------------------------------------------------
(* Responses *)

\* endRequest takes the first response out of wtl.
LEMMA EndRequestMoves ==
    ASSUME IInv, Writing, EndRequest
    PROVE  /\ pos = current + 1 /\ pos <= reqPos /\ pos \in 1 .. K /\ current' = pos
           /\ DOMAIN wtl' = pos + 1 .. reqPos
           /\ \A p \in pos + 1 .. reqPos : wtl'[p] = wtl[p]
           /\ wtl' \in [DOMAIN wtl' -> [len : Nat, oft : Nat]]
<1> USE DEF IInv, Inv
<1>1. pos = current + 1 /\ pos <= reqPos /\ pos \in 1 .. K /\ current' = pos
      /\ wtl' = [p \in DOMAIN wtl \ {pos} |-> wtl[p]]
  BY SocketAssumption DEF EndRequest, Position, Lockstep, TypeOK
<1>2. DOMAIN wtl \ {pos} = pos + 1 .. reqPos
  BY <1>1 DEF Window, TypeOK
<1> QED BY <1>1, <1>2 DEF TypeOK

\* What is left of the window, in any step that ends a request
LEMMA EndedWindow ==
    ASSUME IInv, Writing, EndRequest, UNCHANGED <<sent, got, reqPos>>
    PROVE  Lockstep' /\ Window'
<1> USE DEF IInv, Inv
<1>1. /\ pos = current + 1 /\ pos <= reqPos /\ pos \in 1 .. K /\ current' = pos
      /\ DOMAIN wtl' = pos + 1 .. reqPos
      /\ \A p \in pos + 1 .. reqPos : wtl'[p] = wtl[p]
  BY EndRequestMoves
<1>2. Lockstep'
  BY <1>1 DEF Lockstep, TypeOK
<1>3. Window'
  BY <1>1 DEF Window, TypeOK
<1> QED BY <1>2, <1>3

LEMMA SendFailsKeeps == ASSUME IInv, SendFails PROVE IInv'
<1> USE DEF IInv, Inv
<1>1. /\ Writing /\ EndRequest
      /\ UNCHANGED <<kernelVars, wire, interest, closed, lpc, tasks, got, reqPos, pos>>
      /\ WorkerClose("serve") \/ WorkerClose("idle")
  BY DEF SendFails
<1>2. /\ wpc' \in {"idle", "serve", "closing"} /\ ret' \in {"idle", "serve"}
      /\ armed' \in BOOLEAN /\ queued' \in Nat /\ fdOpen' \in BOOLEAN /\ ~fdOpen'
  BY <1>1, WorkerCloseTypes
<1>3. /\ pos = current + 1 /\ current' = pos
      /\ wtl' \in [DOMAIN wtl' -> [len : Nat, oft : Nat]]
  BY <1>1, EndRequestMoves
<1>4. TypeOK'
  BY <1>1, <1>2, <1>3 DEF TypeOK, kernelVars, WorkerPcs
<1>5. Lockstep' /\ Window'
  BY <1>1, EndedWindow DEF kernelVars
<1>6. Position' /\ ClosedFirst' /\ Continues' /\ ElsewhereLast'
  BY <1>1, <1>2 DEF Position, Writing, ClosedFirst, Continues, ElsewhereLast, Reqs
<1>7. Ended'
  <2>1. \A r \in Reqs : r <= current => r <= current'
    BY <1>3, SocketAssumption DEF Reqs, TypeOK
  <2> QED BY <1>1, <2>1 DEF Ended
<1> QED BY <1>4, <1>5, <1>6, <1>7

\* What SendSome does: n bytes of the first response follow what is on the wire.
LEMMA SendSomeDoes ==
    ASSUME IInv, SendSome
    PROVE  \E n \in Nat :
             /\ n > 0 /\ pos = current + 1 /\ pos = reqPos /\ pos \in 1 .. K
             /\ wtl[pos].oft \in Nat /\ wtl[pos].oft + n <= Size[pos] /\ wtl[pos].len = Size[pos]
             /\ wire' = wire \o [j \in 1 .. n |-> <<pos, wtl[pos].oft + j>>]
             /\ inFlight' = inFlight + n
             /\ IF wtl[pos].oft + n = Size[pos]
                THEN EndRequest /\ wpc' = Written
                ELSE /\ wtl' = [wtl EXCEPT ![pos].oft = @ + n]
                     /\ UNCHANGED <<current, wpc>>
<1> USE DEF IInv, Inv
<1>1. Writing /\ pos = current + 1 /\ pos <= reqPos /\ pos \in 1 .. K
  BY SocketAssumption, SMTT(30) DEF SendSome, Position, Lockstep, TypeOK
<1>2. /\ pos \in DOMAIN wtl /\ wtl[pos] \in [len : Nat, oft : Nat]
      /\ wtl[pos].len = Size[pos]
      /\ IF Size[pos] = 0 THEN wtl[pos].oft = 0 ELSE wtl[pos].oft < Size[pos] /\ pos = reqPos
  BY <1>1 DEF Window, TypeOK
<1>3. wtl[pos].oft \in Nat /\ Size[pos] \in Nat
  BY <1>1, <1>2, SocketAssumption DEF Reqs
<1>4. PICK n \in 1 .. Left :
         /\ inFlight' = inFlight + n
         /\ wire' = wire \o [j \in 1 .. n |-> <<pos, wtl[pos].oft + j>>]
         /\ IF n = Left
            THEN EndRequest /\ wpc' = Written
            ELSE /\ wtl' = [wtl EXCEPT ![pos].oft = @ + n]
                 /\ UNCHANGED <<current, wpc>>
  BY DEF SendSome
<1>5. Left = Size[pos] - wtl[pos].oft /\ Left \in Int
  BY <1>2, <1>3 DEF Left
<1>6. n \in Nat /\ n > 0 /\ wtl[pos].oft + n <= Size[pos] /\ pos = reqPos
  BY <1>2, <1>3, <1>4, <1>5
<1>7. n = Left <=> wtl[pos].oft + n = Size[pos]
  BY <1>3, <1>5, <1>6
<1> QED BY <1>1, <1>2, <1>3, <1>4, <1>6, <1>7

\* What a concatenation holds
LEMMA Appended ==
    ASSUME NEW U, NEW w \in Seq(U), NEW s \in Seq(U), NEW n \in Nat, Len(s) = n, n > 0
    PROVE  /\ w \o s \in Seq(U) /\ w \o s # <<>> /\ Len(w \o s) = Len(w) + n
           /\ (w \o s)[Len(w) + n] = s[n]
           /\ \A i \in 1 .. Len(w) + n :
                 \/ i \in 1 .. Len(w) /\ (w \o s)[i] = w[i]
                 \/ \E j \in 1 .. n : (w \o s)[i] = s[j]
<1>1. /\ w \o s \in Seq(U) /\ Len(w \o s) = Len(w) + Len(s)
      /\ \A i \in 1 .. Len(w) + Len(s) : (w \o s)[i] = IF i <= Len(w) THEN w[i] ELSE s[i - Len(w)]
  BY ConcatProperties
<1>2. Len(w) \in Nat
  BY LenProperties
<1> DEFINE v == w \o s
           l == Len(w)
<1>3. /\ l \in Nat /\ Len(v) = l + n /\ v \in Seq(U)
      /\ \A i \in 1 .. l + n : v[i] = IF i <= l THEN w[i] ELSE s[i - l]
  BY <1>1, <1>2
<1> HIDE DEF v, l
<1>4. v[l + n] = s[n]
  <2>1. l + n \in 1 .. l + n /\ ~(l + n <= l) /\ (l + n) - l = n
    BY <1>3
  <2> QED BY <1>3, <2>1
<1>5. \A i \in 1 .. l + n : (i \in 1 .. l /\ v[i] = w[i]) \/ \E j \in 1 .. n : v[i] = s[j]
  <2> TAKE i \in 1 .. l + n
  <2>1. CASE i <= l
    BY <1>3, <2>1
  <2>2. CASE ~(i <= l)
    <3>1. i - l \in 1 .. n
      BY <1>3, <2>2
    <3> QED BY <1>3, <2>2, <3>1
  <2> QED BY <2>1, <2>2
<1>6. v # <<>>
  <2>1. Len(v) # 0
    BY <1>3
  <2> QED BY <2>1
<1> QED BY <1>3, <1>4, <1>5, <1>6 DEF v, l

\* n units of response p, from the one after o on
Units(p, o, n) == [j \in 1 .. n |-> <<p, o + j>>]

LEMMA UnitsSeq ==
    ASSUME NEW p \in Nat, NEW o \in Nat, NEW n \in Nat
    PROVE  /\ Units(p, o, n) \in Seq(Nat \X Nat) /\ Len(Units(p, o, n)) = n
           /\ \A j \in 1 .. n : Units(p, o, n)[j] = <<p, o + j>>
<1>1. \A j \in 1 .. n : <<p, o + j>> \in Nat \X Nat
  OBVIOUS
<1>2. Units(p, o, n) \in [1 .. n -> Nat \X Nat]
  BY <1>1 DEF Units
<1>3. Units(p, o, n) \in Seq(Nat \X Nat) /\ Len(Units(p, o, n)) = n
  BY <1>2
<1> QED BY <1>3 DEF Units

LEMMA SendSomeKeeps == ASSUME IInv, SendSome PROVE IInv'
<1> USE DEF IInv, Inv
<1> DEFINE o == wtl[pos].oft
<1>1. PICK n \in Nat :
         /\ n > 0 /\ pos = current + 1 /\ pos = reqPos /\ pos \in 1 .. K
         /\ o \in Nat /\ o + n <= Size[pos] /\ wtl[pos].len = Size[pos]
         /\ wire' = wire \o [j \in 1 .. n |-> <<pos, o + j>>]
         /\ inFlight' = inFlight + n
         /\ IF o + n = Size[pos]
            THEN EndRequest /\ wpc' = Written
            ELSE wtl' = [wtl EXCEPT ![pos].oft = @ + n] /\ UNCHANGED <<current, wpc>>
  BY SendSomeDoes
<1>2. /\ UNCHANGED <<peer, sent, epollVars, closeVars, lpc, tasks, ret, got, reqPos, pos>>
      /\ Writing /\ fdOpen
  BY DEF SendSome, CanSend
<1>3. Size[pos] \in Nat /\ \A r \in Reqs : Size[r] \in Nat /\ r \in Nat
  BY <1>1, SocketAssumption DEF Reqs
<1>a. current \in Nat /\ reqPos \in Nat /\ pos \in Nat /\ inFlight \in Nat
  BY DEF TypeOK
<1> HIDE DEF o
<1>4. /\ wire' \in Seq(Nat \X Nat) /\ wire' # <<>>
      /\ wire'[Len(wire')] = <<pos, o + n>>
      /\ \A i \in 1 .. Len(wire') :
            \/ i \in 1 .. Len(wire) /\ wire'[i] = wire[i]
            \/ \E j \in 1 .. n : wire'[i] = <<pos, o + j>>
  <2> DEFINE u == Units(pos, o, n)
             U == Nat \X Nat
  <2>0. pos \in Nat /\ wire \in Seq(U)
    BY DEF TypeOK
  <2>1. u \in Seq(U) /\ Len(u) = n /\ \A j \in 1 .. n : u[j] = <<pos, o + j>>
    BY <1>1, <2>0, UnitsSeq
  <2>2. wire' = wire \o u
    BY <1>1 DEF Units
  <2> HIDE DEF u, U
  <2>3. /\ wire' \in Seq(U) /\ wire' # <<>> /\ Len(wire') = Len(wire) + n
        /\ wire'[Len(wire) + n] = u[n]
        /\ \A i \in 1 .. Len(wire) + n :
                 \/ i \in 1 .. Len(wire) /\ wire'[i] = wire[i]
                 \/ \E j \in 1 .. n : wire'[i] = u[j]
    <3>1. n \in Nat /\ n > 0 /\ Len(u) = n /\ u \in Seq(U) /\ wire \in Seq(U)
      BY <1>1, <2>0, <2>1
    <3> HIDE DEF IInv, Inv
    <3> QED BY <2>2, <3>1, Appended
  <2>4. n \in 1 .. n
    BY <1>1
  <2> QED BY <2>1, <2>3, <2>4 DEF U
<1>5. Responses!LastUnit(wire)' = <<pos, o + n>>
  BY <1>4 DEF Responses!LastUnit
<1>6. CASE o + n = Size[pos]
  <2>1. EndRequest /\ wpc' = Written
    BY <1>1, <1>6
  <2>2. /\ current' = pos
        /\ DOMAIN wtl' = pos + 1 .. reqPos
        /\ wtl' \in [DOMAIN wtl' -> [len : Nat, oft : Nat]]
    BY <1>2, <2>1, EndRequestMoves
  <2>3. Lockstep' /\ Window'
    BY <1>2, <2>1, EndedWindow
  <2>4. TypeOK'
    <3>1. inFlight' \in Nat /\ current' \in Nat /\ pos' \in Nat /\ reqPos' \in Nat
      BY <1>1, <1>2, <1>a, <2>2
    <3>2. wpc' \in WorkerPcs
      BY <2>1 DEF WorkerPcs, Written
    <3> QED BY <1>2, <1>4, <2>2, <3>1, <3>2 DEF TypeOK, epollVars, closeVars
  <2>5. Position' /\ ClosedFirst' /\ ElsewhereLast'
    BY <1>1, <1>2, <2>1, <2>2
       DEF Position, Writing, Written, ClosedFirst, ElsewhereLast, Reqs, closeVars, TypeOK
  <2>6. Ended'
    <3>1. \A r \in Reqs : r <= current => r <= pos
      BY <1>1, <1>3 DEF TypeOK
    <3>2. \A i \in 1 .. Len(wire'), r \in Reqs : wire'[i] = <<r, Size[r]>> => r <= pos
      <4> SUFFICES ASSUME NEW i \in 1 .. Len(wire'), NEW r \in Reqs, wire'[i] = <<r, Size[r]>>
                   PROVE  r <= pos
        OBVIOUS
      <4>1. CASE i \in 1 .. Len(wire) /\ wire'[i] = wire[i]
        BY <3>1, <4>1 DEF Ended
      <4>2. CASE \E j \in 1 .. n : wire'[i] = <<pos, o + j>>
        BY <4>2, <1>3
      <4> QED BY <1>4, <4>1, <4>2
    <3> QED BY <2>2, <3>2 DEF Ended
  <2>7. Continues'
    <3>1. \A r \in 1 .. current : Size[r] > 0
      BY <1>2 DEF Continues
    <3>2. Size[pos] > 0
      BY <1>1, <1>3, <1>6
    <3>3. \A r \in 1 .. pos : Size[r] > 0
      BY <1>1, <3>1, <3>2 DEF TypeOK
    <3>4. ~(current' < reqPos') /\ Before' = <<pos, Size[pos]>>
      <4>1. pos # 0 /\ current' = pos /\ reqPos' = pos
        BY <1>1, <1>2, <1>a, <2>2
      <4> QED BY <1>a, <4>1 DEF Before
    <3> QED BY <1>5, <1>6, <2>2, <3>3, <3>4 DEF Continues
  <2> QED BY <2>3, <2>4, <2>5, <2>6, <2>7
<1>7. CASE o + n # Size[pos]
  <2>1. wtl' = [wtl EXCEPT ![pos].oft = @ + n] /\ UNCHANGED <<current, wpc>>
    BY <1>1, <1>7
  <2>2. /\ pos \in DOMAIN wtl /\ DOMAIN wtl = current + 1 .. reqPos
        /\ wtl \in [DOMAIN wtl -> [len : Nat, oft : Nat]]
    BY <1>1 DEF Window, TypeOK
  <2>3. /\ DOMAIN wtl' = DOMAIN wtl
        /\ wtl' \in [DOMAIN wtl' -> [len : Nat, oft : Nat]]
        /\ wtl'[pos].len = Size[pos] /\ wtl'[pos].oft = o + n
        /\ \A p \in DOMAIN wtl : p = pos
    <3>1. wtl' = [p \in DOMAIN wtl |-> IF p = pos THEN [wtl[pos] EXCEPT !.oft = @ + n] ELSE wtl[p]]
      BY <2>1, <2>2
    <3>2. wtl[pos] \in [len : Nat, oft : Nat] /\ wtl[pos].len = Size[pos] /\ wtl[pos].oft = o
      BY <1>1, <2>2 DEF o
    <3>3. /\ [wtl[pos] EXCEPT !.oft = @ + n] \in [len : Nat, oft : Nat]
          /\ [wtl[pos] EXCEPT !.oft = @ + n].len = Size[pos]
          /\ [wtl[pos] EXCEPT !.oft = @ + n].oft = o + n
      BY <3>2
    <3>4. \A p \in DOMAIN wtl : p = pos
      BY <1>1, <1>a, <2>2
    <3> QED BY <2>2, <3>1, <3>3, <3>4
  <2>4. o + n < Size[pos]
    <3>1. o \in Nat /\ n \in Nat /\ o + n <= Size[pos]
      BY <1>1
    <3> QED BY <3>1, <1>3, <1>7
  <2>5. TypeOK'
    <3>1. inFlight' \in Nat
      BY <1>1, <1>a
    <3> QED BY <1>2, <1>4, <2>1, <2>3, <3>1 DEF TypeOK, epollVars, closeVars
  <2>6. Lockstep'
    BY <1>2, <2>1 DEF Lockstep
  <2>7. Window'
    BY <1>1, <1>2, <1>3, <2>1, <2>2, <2>3, <2>4 DEF Window
  <2>8. Position' /\ ClosedFirst' /\ ElsewhereLast'
    BY <1>2, <2>1 DEF Position, Writing, ClosedFirst, ElsewhereLast, Reqs, closeVars
  <2>9. Ended'
    <3>1. \A i \in 1 .. Len(wire'), r \in Reqs : wire'[i] = <<r, Size[r]>> => r <= current
      <4> SUFFICES ASSUME NEW i \in 1 .. Len(wire'), NEW r \in Reqs, wire'[i] = <<r, Size[r]>>
                   PROVE  r <= current
        OBVIOUS
      <4>1. CASE i \in 1 .. Len(wire) /\ wire'[i] = wire[i]
        BY <4>1 DEF Ended
      <4>2. ASSUME NEW j \in 1 .. n, wire'[i] = <<pos, o + j>> PROVE FALSE
        BY <1>1, <1>3, <2>4, <4>2, SMTT(30)
      <4> QED BY <1>4, <4>1, <4>2
    <3> QED BY <2>1, <3>1 DEF Ended
  <2>10. Continues'
    <3>1. \A r \in 1 .. current : Size[r] > 0
      BY <1>2 DEF Continues
    <3>2. current < reqPos /\ current + 1 = pos /\ o + n > 0
      BY <1>1, <1>a
    <3>3. current' = current /\ reqPos' = reqPos
      BY <1>2, <2>1
    <3> QED BY <1>5, <2>3, <3>1, <3>2, <3>3 DEF Continues
  <2> QED BY <2>5, <2>6, <2>7, <2>8, <2>9, <2>10
<1> QED BY <1>6, <1>7

-----------------------------------------------------------------------------
(* The invariant *)

LEMMA InitImplies == ElsewhereLast /\ Init => IInv
<1> SUFFICES ASSUME ElsewhereLast, Init PROVE IInv
  OBVIOUS
<1>1. DOMAIN wtl = 1 .. 0 /\ wtl \in [DOMAIN wtl -> [len : Nat, oft : Nat]]
  BY DEF Init
<1>2. TypeOK
  <2>1. /\ peer = "open" /\ sent \in Nat /\ inFlight \in Nat /\ queued \in Nat /\ got \in Nat
        /\ reqPos \in Nat /\ current \in Nat /\ pos \in Nat
    BY DEF Init
  <2>2. wire = <<>> /\ tasks = <<>> /\ lpc \in LoopPcs /\ wpc \in WorkerPcs
    BY DEF Init, LoopPcs, WorkerPcs
  <2>3. armed \in BOOLEAN /\ fdOpen \in BOOLEAN /\ closed \in BOOLEAN /\ ret = "idle" /\ interest = "in"
    BY Zenon DEF Init
  <2>4. wire \in Seq(Nat \X Nat) /\ tasks \in Seq({"read", "write"})
    BY <2>2
  <2> QED BY <1>1, <2>1, <2>2, <2>3, <2>4 DEF TypeOK
<1>3. Lockstep /\ Window /\ Position /\ Ended /\ ClosedFirst
  BY <1>1, SocketAssumption DEF Init, Lockstep, Window, Position, Writing, Ended, ClosedFirst
<1>4. Continues
  BY DEF Init, Continues, Before, Responses!LastUnit
<1> QED BY <1>2, <1>3, <1>4 DEF IInv, Inv

LEMMA NextImplies == IInv /\ [Next]_vars => IInv'
<1> SUFFICES ASSUME IInv, [Next]_vars PROVE IInv'
  OBVIOUS
<1>1. CASE UNCHANGED vars
  <2>1. TypeOK' /\ ClosedFirst'
    BY <1>1 DEF vars, kernelVars, epollVars, closeVars, respVars, IInv, Inv, TypeOK, ClosedFirst
  <2> QED BY <1>1, <2>1, Unmoved DEF vars, kernelVars, epollVars, closeVars, respVars
<1>2. CASE Worker
  BY <1>2, ReadTaskKeeps, ServeRequestKeeps, ControlKeeps, WriteTaskKeeps, CompleteNextKeeps,
     SendSomeKeeps, SendFailsKeeps DEF Worker
<1> QED BY <1>1, <1>2, LoopKeeps, PeerSendsKeeps, PeerReadsKeeps, PeerHangsUpKeeps DEF Next

\* wtl holds the responses begun and not ended, and the wire continues its first
\* one: IInv holds in every reachable state of the loop, the worker and the peer.
THEOREM Inductive == ElsewhereLast /\ Spec => []IInv
  BY InitImplies, NextImplies, PTL DEF Spec

\* The variables keep their types.
THEOREM TypeCorrect == ElsewhereLast /\ Spec => []TypeOK
<1>1. IInv => TypeOK
  BY DEF IInv, Inv
<1> QED BY <1>1, Inductive, PTL

\* reqPos, current and wtl stay in step, however the responses block, fail and
\* are resumed.
THEOREM WindowExactHolds == ElsewhereLast /\ Spec => []WindowExact
<1>1. IInv => WindowExact
  <2> SUFFICES ASSUME IInv PROVE WindowExact
    OBVIOUS
  <2>1. DOMAIN wtl = current + 1 .. reqPos /\ current \in Nat /\ reqPos \in Nat
        /\ current <= reqPos
    BY DEF IInv, Inv, Window, TypeOK, Lockstep
  <2>2. Cardinality(current + 1 .. reqPos) =
           IF current + 1 > reqPos THEN 0 ELSE reqPos - (current + 1) + 1
    BY <2>1, FS_Interval
  <2> QED BY <2>1, <2>2 DEF WindowExact
<1> QED BY <1>1, Inductive, PTL

-----------------------------------------------------------------------------
(* The connection implements PipelinedResponses *)

\* The abstract Emit: the bytes follow the last unit on the wire.
LEMMA SendSomeEmits == ASSUME IInv, SendSome PROVE Responses!Emit
<1> USE DEF IInv, Inv
<1> DEFINE o == wtl[pos].oft
<1>1. PICK n \in Nat :
         /\ n > 0 /\ pos = current + 1 /\ pos = reqPos /\ pos \in 1 .. K
         /\ o \in Nat /\ o + n <= Size[pos]
         /\ wire' = wire \o [j \in 1 .. n |-> <<pos, o + j>>]
  BY SendSomeDoes
<1>2. fdOpen /\ UNCHANGED <<reqPos, fdOpen>>
  BY DEF SendSome, CanSend, closeVars
<1>3. /\ Size[pos] \in Nat /\ pos \in Nat /\ current \in Nat
      /\ current > 0 => Size[current] \in Nat
  BY <1>1, SocketAssumption, SMTT(30) DEF Reqs, TypeOK
<1>4. Responses!LastUnit(wire) = IF o > 0 THEN <<pos, o>> ELSE Before
  BY <1>1, <1>2, <1>3 DEF Continues
<1> HIDE DEF o
<1>5. Responses!Follows(Responses!LastUnit(wire), pos, o + 1)
  <2>1. CASE o > 0
    BY <1>4, <2>1 DEF Responses!Follows
  <2>2. CASE o = 0 /\ current = 0
    <3>1. Responses!LastUnit(wire) = <<0, 0>> /\ pos = 1
      BY <1>1, <1>4, <2>2 DEF Before
    <3> QED BY <2>2, <3>1 DEF Responses!Follows, Responses!Whole
  <2>3. CASE o = 0 /\ current > 0
    <3>1. Responses!LastUnit(wire) = <<current, Size[current]>>
      BY <1>3, <1>4, <2>3 DEF Before
    <3>2. \A q \in current + 1 .. pos - 1 : FALSE
      BY <1>1, <1>3
    <3>3. pos > current /\ o + 1 = 1
      BY <1>1, <1>3, <2>3
    <3> QED BY <3>1, <3>2, <3>3 DEF Responses!Follows, Responses!Whole
  <2> QED BY <1>1, <1>3, <2>1, <2>2, <2>3
<1>6. wire' = wire \o Responses!Run(pos, o + 1, n)
  <2>1. \A j \in 1 .. n : (o + 1) + j - 1 = o + j
    BY <1>1
  <2>2. Responses!Run(pos, o + 1, n) = [j \in 1 .. n |-> <<pos, o + j>>]
    BY <2>1 DEF Responses!Run
  <2> QED BY <1>1, <2>2
<1>7. pos \in 1 .. reqPos /\ o + 1 \in 1 .. Size[pos] /\ n \in 1 .. Size[pos] - (o + 1) + 1
  BY <1>1, <1>3
<1> QED BY <1>2, <1>5, <1>6, <1>7 DEF Responses!Emit

\* The abstract Serve
LEMMA ServeRequestServes == ASSUME IInv, ServeRequest PROVE Responses!Serve
<1>1. K \in Nat /\ Size \in [1 .. K -> Nat]
  BY SocketAssumption DEF Reqs
<1>2. Len(Size) = K
  BY <1>1
<1>3. reqPos < K
  BY <1>1 DEF ServeRequest, IInv, Inv, Lockstep, TypeOK
<1> QED BY <1>2, <1>3 DEF ServeRequest, Responses!Serve, closeVars

\* Everything else closes the descriptor or leaves the three variables alone.
LEMMA OthersCloseOrStutter ==
    ASSUME IInv, Next, ~SendSome, ~ServeRequest
    PROVE  Responses!Close \/ UNCHANGED Responses!vars
<1> USE DEF IInv, Inv
<1>1. UNCHANGED <<reqPos, wire>>
  BY DEF Next, Loop, Worker, Fetch, LoopHangup, LoopCloseEnd, LoopRead, LoopWrite, ReadTask,
         ServeDone, WriteTask, CompleteNext, CompleteDone, PushBlocked, CompleteBlocked,
         SendFails, WorkerCloseEnd, PeerSends, PeerReads, PeerHangsUp, respVars
<1>2. fdOpen' = fdOpen \/ fdOpen' = FALSE
  <2>1. ASSUME NEW next, WorkerClose(next) PROVE fdOpen' = fdOpen \/ fdOpen' = FALSE
    BY <2>1 DEF WorkerClose, CloseBegin
  <2> QED BY <2>1
       DEF Next, Loop, Worker, Fetch, LoopHangup, LoopCloseEnd, LoopRead, LoopWrite, ReadTask,
         ServeDone, WriteTask, CompleteNext, CompleteDone, PushBlocked, CompleteBlocked,
         SendFails, WorkerCloseEnd, PeerSends, PeerReads, PeerHangsUp, closeVars, CloseBegin
<1>3. fdOpen \in BOOLEAN
  BY DEF TypeOK
<1>4. CASE fdOpen' = fdOpen
  BY <1>1, <1>4 DEF Responses!vars
<1>5. CASE fdOpen' = FALSE
  <2>1. CASE fdOpen
    BY <1>1, <1>5, <2>1 DEF Responses!Close
  <2>2. CASE ~fdOpen
    <3>1. fdOpen' = fdOpen
      BY <1>3, <1>5, <2>2
    <3> QED BY <1>1, <3>1 DEF Responses!vars
  <2> QED BY <2>1, <2>2
<1> QED BY <1>2, <1>4, <1>5

\* The connection is an in-order, gapless stream of responses until it is closed,
\* although a response is begun by the read task and finished by a write task.
THEOREM ImplementsResponsesHolds == ElsewhereLast /\ Spec => ImplementsResponses
<1>1. Init => Responses!Init
  BY DEF Init, Responses!Init
<1>2. IInv /\ [Next]_vars => [Responses!Next]_(Responses!vars)
  <2> SUFFICES ASSUME IInv, [Next]_vars
               PROVE  Responses!Next \/ UNCHANGED Responses!vars
    OBVIOUS
  <2>1. CASE UNCHANGED vars
    BY <2>1 DEF vars, closeVars, respVars, Responses!vars
  <2>2. CASE SendSome
    BY <2>2, SendSomeEmits DEF Responses!Next
  <2>3. CASE ServeRequest
    BY <2>3, ServeRequestServes DEF Responses!Next
  <2>4. CASE Next /\ ~SendSome /\ ~ServeRequest
    BY <2>4, OthersCloseOrStutter DEF Responses!Next
  <2> QED BY <2>1, <2>2, <2>3, <2>4
<1> QED BY <1>1, <1>2, Inductive, PTL DEF Spec, ImplementsResponses, Responses!Spec
=============================================================================
