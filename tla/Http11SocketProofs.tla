------------------------- MODULE Http11SocketProofs -------------------------
(***************************************************************************)
(* Proofs about Http11Socket, for every stream of requests, every size of  *)
(* recv, every size of response and every send buffer.                     *)
(***************************************************************************)
EXTENDS Http11Socket, SequenceTheorems, TLAPS

-----------------------------------------------------------------------------
(* The inductive invariant *)

\* Where read() stands in the stream: at the start of the next request, or
\* behind its headers with its Content-Length still to come.
InStream ==
    /\ Len(served) <= K
    /\ ~isHeadersDone => bufBeg = End[Len(served)]
    /\ isHeadersDone =>
         /\ Len(served) < K
         /\ hdr = <<End[Len(served)], HdrEnd[Len(served) + 1]>>
         /\ bufBeg = HdrEnd[Len(served) + 1]
         /\ bytesToRead = End[Len(served) + 1] - HdrEnd[Len(served) + 1]

\* What an open connection is registered for and holds at each place of the
\* loop.
Registered ==
    ~closed =>
      /\ interest = "none" => pc = "wait"
      /\ pc = "wait" => (outbuf # <<>> <=> interest = "out")
      /\ pc = "recv" => interest = "in" /\ outbuf = <<>>
      /\ pc = "parse" => interest = "in" /\ (outbuf # <<>> <=> pd)
      /\ pc = "write" => interest = "in"
      /\ pc = "register" => interest = "in" /\ outbuf # <<>>
      /\ pc = "unregister" => interest = "out" /\ outbuf # <<>>

\* Where an event that is not on the ready list is being handled.
EdgeTaken ==
    ~closed /\ interest # "none" =>
      /\ Hangup => armed
      /\ interest = "in" /\ Readable => armed \/ pc = "recv"
      /\ interest = "out" /\ Writable => armed \/ pc = "unregister"

IInv ==
    /\ TypeOK
    /\ Framed /\ InStream
    /\ Registered
    /\ EdgeTaken
    /\ PeerClosesFirst

-----------------------------------------------------------------------------
(* Facts about the stream *)

\* Ends of requests are numbers, and no request has the end of another.
LEMMA EndFacts ==
    /\ K \in Nat
    /\ \A r \in 0 .. K : End[r] \in Nat
    /\ \A q, r \in 0 .. K : End[q] = End[r] => q = r
    /\ \A r \in Reqs : HdrEnd[r] \in Nat
    /\ \A r \in Reqs : End[r - 1] < HdrEnd[r] /\ HdrEnd[r] <= End[r]
PROOF
<1>1. K \in Nat /\ FinLen \in Nat \ {0}
  BY StreamAssumption
<1>2. \A r \in 0 .. K : End[r] \in Nat
  BY StreamAssumption
<1>3. \A q, r \in 0 .. K : q < r => End[q] < End[r]
  BY StreamAssumption
<1>4. \A q, r \in 0 .. K : End[q] = End[r] => q = r
  BY <1>1, <1>2, <1>3
<1>5. \A r \in Reqs : HdrEnd[r] \in Nat
  BY StreamAssumption
<1>6. \A r \in Reqs : End[r - 1] + FinLen <= HdrEnd[r] /\ HdrEnd[r] <= End[r]
  BY StreamAssumption
<1>7. \A r \in Reqs : r - 1 \in 0 .. K
  BY <1>1 DEF Reqs
<1>8. \A r \in Reqs : End[r - 1] < HdrEnd[r]
  BY <1>1, <1>2, <1>5, <1>6, <1>7
<1> QED
  BY <1>1, <1>2, <1>4, <1>5, <1>6, <1>8

\* At the start of a request the first match of HDR_FIN in buffer ends its
\* headers, however little of what follows has arrived, and the headers give
\* the length of its body.  After the last request there is no match.
LEMMA FindsHeaders ==
    ASSUME TypeOK, InStream, ~isHeadersDone, Found
    PROVE  /\ Len(served) < K
           /\ FirstMatch = HdrEnd[Len(served) + 1]
           /\ FirstMatch \in Nat /\ FirstMatch <= bufEnd
           /\ ContentLength(bufBeg, FirstMatch)
                = End[Len(served) + 1] - HdrEnd[Len(served) + 1]
PROOF
<1> DEFINE n == Len(served)
           r == n + 1
<1>1. n \in Nat /\ n <= K /\ bufBeg = End[n]
  BY DEF TypeOK, InStream
<1>2. /\ bufEnd \in Nat /\ bufEnd <= End[K] /\ bufBeg \in Nat
  <2>1. End[K] \in Nat
    BY EndFacts
  <2>2. sent \in 0 .. End[K] /\ bufEnd \in 0 .. sent /\ bufBeg \in 0 .. bufEnd
    BY DEF TypeOK
  <2> QED BY <2>1, <2>2
<1>3. FinLen \in Nat \ {0} /\ K \in Nat /\ Fin \subseteq Nat
  BY StreamAssumption
<1>4. PICK m \in Matches : TRUE
  BY DEF Found
<1>5. m \in Fin /\ m \in Nat /\ bufBeg + FinLen <= m /\ m <= bufEnd
  BY <1>3, <1>4 DEF Matches
<1>6. n # K
  BY <1>1, <1>2, <1>3, <1>5
<1>7. r \in Reqs /\ r - 1 = n /\ n < K
  BY <1>1, <1>3, <1>6 DEF Reqs
<1>8. HdrEnd[r] \in Fin /\ HdrEnd[r] \in Nat /\ End[n] + FinLen <= HdrEnd[r]
  BY <1>7, StreamAssumption
<1>9. \A p \in Fin : p < End[n] + FinLen \/ HdrEnd[r] <= p
  BY <1>7, StreamAssumption
<1>10. \A p \in Matches : p \in Nat /\ HdrEnd[r] <= p
  <2> SUFFICES ASSUME NEW p \in Matches PROVE p \in Nat /\ HdrEnd[r] <= p
    OBVIOUS
  <2>1. p \in Fin /\ p \in Nat /\ bufBeg + FinLen <= p
    BY <1>3 DEF Matches
  <2>2. p < End[n] + FinLen \/ HdrEnd[r] <= p
    BY <1>9, <2>1
  <2> QED BY <1>1, <1>2, <1>3, <1>8, <2>1, <2>2
<1>11. HdrEnd[r] \in Matches
  <2>1. HdrEnd[r] <= m
    BY <1>4, <1>10
  <2>2. HdrEnd[r] <= bufEnd
    BY <1>2, <1>5, <1>8, <2>1
  <2> QED BY <1>1, <1>8, <2>2 DEF Matches
<1>12. FirstMatch = HdrEnd[r]
  <2>1. \E p \in Matches : \A q \in Matches : p <= q
    BY <1>10, <1>11
  <2>2. FirstMatch \in Matches /\ \A q \in Matches : FirstMatch <= q
    BY <2>1 DEF FirstMatch
  <2>3. FirstMatch \in Nat /\ HdrEnd[r] <= FirstMatch
    BY <1>10, <2>2
  <2>4. FirstMatch <= HdrEnd[r]
    BY <1>11, <2>2
  <2> QED BY <1>8, <2>3, <2>4
<1>13. FirstMatch <= bufEnd
  BY <1>11, <1>12 DEF Matches
<1>14. ContentLength(End[n], HdrEnd[r]) = End[r] - HdrEnd[r]
  <2> DEFINE Is(q) == End[n] = End[q - 1] /\ HdrEnd[r] = HdrEnd[q]
  <2>1. Is(r)
    BY <1>7
  <2>2. \A q \in Reqs : Is(q) => q = r
    <3> SUFFICES ASSUME NEW q \in Reqs, End[n] = End[q - 1] PROVE q = r
      OBVIOUS
    <3>1. q - 1 \in 0 .. K /\ n \in 0 .. K /\ q \in Int
      BY <1>1, <1>3 DEF Reqs
    <3>2. n = q - 1
      BY <3>1, EndFacts
    <3> QED BY <1>1, <3>1, <3>2
  <2>3. (CHOOSE q \in Reqs : Is(q)) = r
    BY <1>7, <2>1, <2>2
  <2> QED BY <1>7, <2>1, <2>3 DEF ContentLength
<1> QED
  BY <1>1, <1>7, <1>8, <1>12, <1>13, <1>14

-----------------------------------------------------------------------------
(* Framing *)

\* What the framing depends on does not change, but for more data to read.
LEMMA FramingKept ==
    ASSUME Framed, InStream, UNCHANGED <<bufBeg, isHeadersDone, hdr, bytesToRead, served>>
    PROVE  Framed' /\ InStream'
PROOF BY DEF Framed, InStream

LEMMA FramingStep ==
    ASSUME TypeOK, Framed, InStream, [Next]_vars
    PROVE  Framed' /\ InStream'
PROOF
<1> DEFINE kept == UNCHANGED <<bufBeg, isHeadersDone, hdr, bytesToRead, served>>
<1>1. CASE ReadHeaders
  <2> DEFINE n == Len(served)
  <2>1. /\ n < K
        /\ FirstMatch = HdrEnd[n + 1]
        /\ ContentLength(bufBeg, FirstMatch) = End[n + 1] - HdrEnd[n + 1]
    BY <1>1, FindsHeaders DEF ReadHeaders
  <2>2. bufBeg = End[n]
    BY <1>1 DEF ReadHeaders, InStream
  <2>3. /\ served' = served /\ isHeadersDone' = TRUE
        /\ hdr' = <<bufBeg, FirstMatch>> /\ bufBeg' = FirstMatch
        /\ bytesToRead' = ContentLength(bufBeg, FirstMatch)
    BY <1>1 DEF ReadHeaders
  <2>4. Framed'
    BY <2>3 DEF Framed
  <2>5. InStream'
    BY <2>1, <2>2, <2>3 DEF InStream
  <2> QED BY <2>4, <2>5
<1>2. CASE ReadContent
  <2> DEFINE n == Len(served)
             e == bufBeg + bytesToRead
  <2>1. isHeadersDone
    BY <1>2 DEF ReadContent
  <2>2. /\ n < K
        /\ hdr = <<End[n], HdrEnd[n + 1]>>
        /\ bufBeg = HdrEnd[n + 1]
        /\ bytesToRead = End[n + 1] - HdrEnd[n + 1]
    BY <2>1 DEF InStream
  <2>3. n \in Nat /\ K \in Nat /\ served \in Seq(Nat \X Nat \X Nat)
    BY EndFacts DEF TypeOK
  <2>4. n + 1 \in Reqs /\ n + 1 \in 0 .. K /\ (n + 1) - 1 = n
    BY <2>2, <2>3 DEF Reqs
  <2>5. End[n + 1] \in Nat /\ HdrEnd[n + 1] \in Nat
    BY <2>4, EndFacts
  <2>6. e = End[n + 1]
    BY <2>2, <2>5
  <2>7. /\ served' = Append(served, <<hdr[1], hdr[2], e>>)
        /\ isHeadersDone' = FALSE /\ bufBeg' = e
    BY <1>2 DEF ReadContent
  <2>8. served' = Append(served, <<End[n], HdrEnd[n + 1], End[n + 1]>>)
    BY <2>2, <2>6, <2>7
  <2>9. /\ Len(served') = n + 1
        /\ \A i \in 1 .. n : served'[i] = served[i]
        /\ served'[n + 1] = <<End[n], HdrEnd[n + 1], End[n + 1]>>
    <3> DEFINE x == <<End[n], HdrEnd[n + 1], End[n + 1]>>
    <3>1. End[n] \in Nat
      BY <2>2, <2>3, EndFacts
    <3>2. x \in Nat \X Nat \X Nat
      BY <2>5, <3>1
    <3> HIDE DEF x
    <3>3. /\ Len(Append(served, x)) = Len(served) + 1
          /\ \A i \in 1 .. Len(served) : Append(served, x)[i] = served[i]
          /\ Append(served, x)[Len(served) + 1] = x
      BY <2>3, <3>2, AppendProperties
    <3> QED BY <2>8, <3>3 DEF x
  <2>10. \A i \in 1 .. n + 1 : i \in 1 .. n \/ i = n + 1
    BY <2>3
  <2>11. Framed'
    <3> SUFFICES ASSUME NEW i \in 1 .. n + 1
                 PROVE  i \in Reqs /\ served'[i] = <<End[i - 1], HdrEnd[i], End[i]>>
      BY <2>9 DEF Framed, Reqs
    <3>1. CASE i \in 1 .. n
      BY <2>9, <3>1 DEF Framed
    <3>2. CASE i = n + 1
      BY <2>4, <2>9, <3>2
    <3> QED BY <2>10, <3>1, <3>2
  <2>12. InStream'
    <3>1. Len(served') <= K
      BY <2>2, <2>3, <2>9
    <3> QED BY <2>6, <2>7, <2>9, <3>1 DEF InStream
  <2> QED BY <2>11, <2>12
<1>3. CASE PeerSends \/ PeerReads \/ PeerHangsUp \/ Accept
  <2>1. kept BY <1>3 DEF PeerSends, PeerReads, PeerHangsUp, Accept, readVars
  <2> QED BY <2>1, FramingKept
<1>4. CASE DeliverHangup \/ DeliverWrite \/ DeliverRead \/ DeliverNothing
  <2>1. kept
    BY <1>4 DEF DeliverHangup, DeliverWrite, DeliverRead, DeliverNothing, readVars
  <2> QED BY <2>1, FramingKept
<1>5. CASE RecvData \/ RecvNothing \/ RecvEnd \/ RecvError
  <2>1. kept BY <1>5 DEF RecvData, RecvNothing, RecvEnd, RecvError, readVars
  <2> QED BY <2>1, FramingKept
<1>6. CASE ReadIncomplete \/ SendSome \/ SendBlocked \/ SendFails \/ WriteDone
  <2>1. kept
    BY <1>6 DEF ReadIncomplete, SendSome, SendBlocked, SendFails, WriteDone, readVars
  <2> QED BY <2>1, FramingKept
<1>7. CASE RegisterWrite \/ UnRegisterWrite
  <2>1. kept BY <1>7 DEF RegisterWrite, UnRegisterWrite, readVars
  <2> QED BY <2>1, FramingKept
<1>8. CASE UNCHANGED vars
  <2>1. kept BY <1>8 DEF vars, readVars
  <2> QED BY <2>1, FramingKept
<1> QED
  BY <1>1, <1>2, <1>3, <1>4, <1>5, <1>6, <1>7, <1>8 DEF Next, Loop
-----------------------------------------------------------------------------
(* Types *)

LEMMA InputTypeStep ==
    ASSUME TypeOK, InStream, [Next]_vars
    PROVE  /\ sent' \in 0 .. End[K]
           /\ bufEnd' \in 0 .. sent' /\ bufBeg' \in 0 .. bufEnd'
           /\ isHeadersDone' \in BOOLEAN
PROOF
<1>1. /\ End[K] \in Nat /\ Chunk \in Nat \ {0}
      /\ sent \in Nat /\ sent <= End[K]
      /\ bufEnd \in Nat /\ bufEnd <= sent
      /\ bufBeg \in Nat /\ bufBeg <= bufEnd
      /\ isHeadersDone \in BOOLEAN
  <2>1. K \in Nat /\ End[K] \in Nat
    BY EndFacts
  <2>2. sent \in 0 .. End[K] /\ bufEnd \in 0 .. sent /\ bufBeg \in 0 .. bufEnd
    BY DEF TypeOK
  <2>3. Chunk \in Nat \ {0} /\ isHeadersDone \in BOOLEAN
    BY StreamAssumption DEF TypeOK
  <2> QED BY <2>1, <2>2, <2>3
<1> DEFINE kept == UNCHANGED <<sent, bufBeg, bufEnd, isHeadersDone>>
<1>2. ASSUME kept PROVE /\ sent' \in 0 .. End[K]
                        /\ bufEnd' \in 0 .. sent' /\ bufBeg' \in 0 .. bufEnd'
                        /\ isHeadersDone' \in BOOLEAN
  BY <1>1, <1>2
<1>3. CASE PeerSends
  <2>1. PICK n \in 1 .. End[K] - sent : sent' = sent + n
    BY <1>3 DEF PeerSends
  <2>2. UNCHANGED <<bufBeg, bufEnd, isHeadersDone>>
    BY <1>3 DEF PeerSends, readVars
  <2>3. sent' \in Nat /\ sent <= sent' /\ sent' <= End[K]
    BY <1>1, <2>1
  <2> QED BY <1>1, <2>2, <2>3
<1>4. CASE RecvData
  <2>1. UNCHANGED <<sent, bufBeg, isHeadersDone>>
    BY <1>4 DEF RecvData, kernelVars
  <2>2. bufEnd' = bufEnd + (IF sent - bufEnd < Chunk THEN sent - bufEnd ELSE Chunk)
    BY <1>4 DEF RecvData
  <2>3. bufEnd' \in Nat /\ bufEnd <= bufEnd' /\ bufEnd' <= sent
    BY <1>1, <2>2
  <2> QED BY <1>1, <2>1, <2>3
<1>5. CASE ReadHeaders
  <2>1. FirstMatch \in Nat /\ FirstMatch <= bufEnd
    BY <1>5, FindsHeaders DEF ReadHeaders
  <2>2. UNCHANGED <<sent, bufEnd>> /\ bufBeg' = FirstMatch /\ isHeadersDone' = TRUE
    BY <1>5 DEF ReadHeaders, kernelVars
  <2> QED BY <1>1, <2>1, <2>2
<1>6. CASE ReadContent
  <2>1. bytesToRead \in Nat
    BY DEF TypeOK
  <2>2. /\ UNCHANGED <<sent, bufEnd>> /\ bufBeg' = bufBeg + bytesToRead
        /\ bufEnd - bufBeg >= bytesToRead /\ isHeadersDone' = FALSE
    BY <1>6 DEF ReadContent, kernelVars
  <2>3. bufBeg' \in Nat /\ bufBeg' <= bufEnd
    BY <1>1, <2>1, <2>2
  <2>4. sent' = sent /\ bufEnd' = bufEnd
    BY <2>2
  <2>5. sent' \in 0 .. End[K] /\ bufEnd' \in 0 .. sent' /\ bufBeg' \in 0 .. bufEnd'
    BY <1>1, <2>3, <2>4
  <2> QED BY <2>2, <2>5
<1>7. CASE PeerReads \/ PeerHangsUp \/ Accept
  <2>1. kept BY <1>7 DEF PeerReads, PeerHangsUp, Accept, readVars, kernelVars
  <2> QED BY <1>2, <2>1
<1>8. CASE DeliverHangup \/ DeliverWrite \/ DeliverRead \/ DeliverNothing
  <2>1. kept
    BY <1>8 DEF DeliverHangup, DeliverWrite, DeliverRead, DeliverNothing, readVars, kernelVars
  <2> QED BY <1>2, <2>1
<1>9. CASE RecvNothing \/ RecvEnd \/ RecvError
  <2>1. kept BY <1>9 DEF RecvNothing, RecvEnd, RecvError, readVars, kernelVars
  <2> QED BY <1>2, <2>1
<1>10. CASE ReadIncomplete \/ SendSome \/ SendBlocked \/ SendFails \/ WriteDone
  <2>1. kept
    BY <1>10 DEF ReadIncomplete, SendSome, SendBlocked, SendFails, WriteDone,
                 readVars, kernelVars
  <2> QED BY <1>2, <2>1
<1>11. CASE RegisterWrite \/ UnRegisterWrite
  <2>1. kept BY <1>11 DEF RegisterWrite, UnRegisterWrite, readVars, kernelVars
  <2> QED BY <1>2, <2>1
<1>12. CASE UNCHANGED vars
  <2>1. kept BY <1>12 DEF vars, readVars, kernelVars
  <2> QED BY <1>2, <2>1
<1> QED
  BY <1>3, <1>4, <1>5, <1>6, <1>7, <1>8, <1>9, <1>10, <1>11, <1>12 DEF Next, Loop

LEMMA RequestTypeStep ==
    ASSUME TypeOK, InStream, [Next]_vars
    PROVE  /\ hdr' \in Nat \X Nat
           /\ bytesToRead' \in Nat
           /\ served' \in Seq(Nat \X Nat \X Nat)
PROOF
<1>1. /\ hdr \in Nat \X Nat /\ bytesToRead \in Nat
      /\ served \in Seq(Nat \X Nat \X Nat)
  BY DEF TypeOK
<1>2. bufBeg \in Nat
  <2>1. End[K] \in Nat
    BY EndFacts
  <2>2. sent \in 0 .. End[K] /\ bufEnd \in 0 .. sent /\ bufBeg \in 0 .. bufEnd
    BY DEF TypeOK
  <2> QED BY <2>1, <2>2
<1> DEFINE kept == UNCHANGED <<hdr, bytesToRead, served>>
<1>3. CASE ReadHeaders
  <2> DEFINE n == Len(served)
  <2>1. /\ n < K /\ FirstMatch \in Nat
        /\ ContentLength(bufBeg, FirstMatch) = End[n + 1] - HdrEnd[n + 1]
    BY <1>3, FindsHeaders DEF ReadHeaders
  <2>2. n \in Nat /\ K \in Nat
    BY <1>1, EndFacts
  <2>3. n + 1 \in Reqs /\ n + 1 \in 0 .. K
    BY <2>1, <2>2 DEF Reqs
  <2>4. End[n + 1] \in Nat /\ HdrEnd[n + 1] \in Nat /\ HdrEnd[n + 1] <= End[n + 1]
    BY <2>3, EndFacts
  <2>5. ContentLength(bufBeg, FirstMatch) \in Nat
    BY <2>1, <2>4
  <2>6. /\ hdr' = <<bufBeg, FirstMatch>> /\ served' = served
        /\ bytesToRead' = ContentLength(bufBeg, FirstMatch)
    BY <1>3 DEF ReadHeaders
  <2> QED BY <1>1, <1>2, <2>1, <2>5, <2>6
<1>4. CASE ReadContent
  <2> DEFINE x == <<hdr[1], hdr[2], bufBeg + bytesToRead>>
  <2>1. bufBeg + bytesToRead \in Nat /\ hdr[1] \in Nat /\ hdr[2] \in Nat
    BY <1>1, <1>2
  <2>2. x \in Nat \X Nat \X Nat
    BY <2>1
  <2>3. served' = Append(served, x) /\ bytesToRead' = 0 /\ hdr' = hdr
    BY <1>4 DEF ReadContent
  <2> HIDE DEF x
  <2>4. Append(served, x) \in Seq(Nat \X Nat \X Nat)
    BY <1>1, <2>2, AppendProperties
  <2> QED BY <1>1, <2>3, <2>4
<1>5. CASE PeerSends \/ PeerReads \/ PeerHangsUp \/ Accept
  BY <1>1, <1>5 DEF PeerSends, PeerReads, PeerHangsUp, Accept, readVars
<1>6. CASE DeliverHangup \/ DeliverWrite \/ DeliverRead \/ DeliverNothing
  BY <1>1, <1>6 DEF DeliverHangup, DeliverWrite, DeliverRead, DeliverNothing, readVars
<1>7. CASE RecvData \/ RecvNothing \/ RecvEnd \/ RecvError
  BY <1>1, <1>7 DEF RecvData, RecvNothing, RecvEnd, RecvError, readVars
<1>8. CASE ReadIncomplete \/ SendSome \/ SendBlocked \/ SendFails \/ WriteDone
  BY <1>1, <1>8 DEF ReadIncomplete, SendSome, SendBlocked, SendFails, WriteDone, readVars
<1>9. CASE RegisterWrite \/ UnRegisterWrite
  BY <1>1, <1>9 DEF RegisterWrite, UnRegisterWrite, readVars
<1>10. CASE UNCHANGED vars
  BY <1>1, <1>10 DEF vars, readVars
<1> QED
  BY <1>3, <1>4, <1>5, <1>6, <1>7, <1>8, <1>9, <1>10 DEF Next, Loop

LEMMA ControlTypeStep ==
    ASSUME TypeOK, [Next]_vars
    PROVE  /\ peer' \in {"open", "fin", "reset"}
           /\ interest' \in {"none", "in", "out"}
           /\ armed' \in BOOLEAN /\ closed' \in BOOLEAN /\ pd' \in BOOLEAN
           /\ pc' \in Pcs
PROOF
<1>1. /\ peer \in {"open", "fin", "reset"} /\ interest \in {"none", "in", "out"}
      /\ armed \in BOOLEAN /\ closed \in BOOLEAN /\ pd \in BOOLEAN
      /\ pc \in Pcs
  BY DEF TypeOK
<1>2. \A i : Pending(i) \in BOOLEAN
  BY DEF Pending, Hangup, Readable, Writable
<1>3. CASE PeerSends \/ PeerReads \/ PeerHangsUp \/ Accept
  BY <1>1, <1>2, <1>3 DEF PeerSends, PeerReads, PeerHangsUp, Accept, Raise, kernelVars
<1>4. CASE DeliverHangup \/ DeliverWrite \/ DeliverRead \/ DeliverNothing
  BY <1>1, <1>4 DEF DeliverHangup, DeliverWrite, DeliverRead, DeliverNothing,
                    CloseSocket, kernelVars, Pcs
<1>5. CASE RecvData
  <2>1. pc' \in {"parse", "recv"}
    BY <1>5 DEF RecvData
  <2>2. UNCHANGED <<peer, interest, armed, closed>> /\ pd' = FALSE
    BY <1>5 DEF RecvData, kernelVars, epollVars
  <2> QED BY <1>1, <2>1, <2>2 DEF Pcs
<1>6. CASE RecvNothing \/ RecvEnd \/ RecvError
  BY <1>1, <1>6 DEF RecvNothing, RecvEnd, RecvError, CloseSocket, kernelVars,
                    epollVars, Pcs
<1>7. CASE ReadHeaders
  BY <1>1, <1>7 DEF ReadHeaders, kernelVars, epollVars
<1>8. CASE ReadContent
  <2>1. UNCHANGED <<peer, interest, armed, closed, pc>> /\ (pd' = TRUE \/ pd' = pd)
    BY <1>8 DEF ReadContent, kernelVars, epollVars
  <2> QED BY <1>1, <2>1
<1>9. CASE ReadIncomplete
  BY <1>1, <1>9 DEF ReadIncomplete, kernelVars, epollVars, Pcs
<1>10. CASE SendSome
  <2>1. UNCHANGED <<peer, interest, armed, closed, pc, pd>>
    BY <1>10 DEF SendSome, epollVars
  <2> QED BY <1>1, <2>1
<1>11. CASE SendBlocked \/ SendFails \/ WriteDone
  BY <1>1, <1>11 DEF SendBlocked, SendFails, WriteDone, CloseSocket, kernelVars,
                     epollVars, Pcs
<1>12. CASE RegisterWrite \/ UnRegisterWrite
  BY <1>1, <1>2, <1>12 DEF RegisterWrite, UnRegisterWrite, kernelVars, Pcs
<1>13. CASE UNCHANGED vars
  BY <1>1, <1>13 DEF vars, kernelVars, epollVars
<1> QED
  BY <1>3, <1>4, <1>5, <1>6, <1>7, <1>8, <1>9, <1>10, <1>11, <1>12, <1>13
     DEF Next, Loop

LEMMA OutputTypeStep ==
    ASSUME TypeOK, [Next]_vars
    PROVE  /\ inFlight' \in 0 .. SndBuf
           /\ wire' \in Seq(Reqs \X (Nat \ {0}))
           /\ outbuf' \in Seq([req : Reqs, oft : Nat])
PROOF
<1> DEFINE Out  == [req : Reqs, oft : Nat]
           Unit == Reqs \X (Nat \ {0})
<1>1. /\ SndBuf \in Nat /\ inFlight \in Nat /\ inFlight <= SndBuf
      /\ inFlight \in 0 .. SndBuf
      /\ wire \in Seq(Unit) /\ outbuf \in Seq(Out)
  BY StreamAssumption DEF TypeOK
<1> HIDE DEF Out, Unit
<1> DEFINE kept == UNCHANGED <<inFlight, wire, outbuf>>
           Goal == inFlight' \in 0 .. SndBuf /\ wire' \in Seq(Unit) /\ outbuf' \in Seq(Out)
<1> SUFFICES Goal
  BY DEF Out, Unit
<1>2. kept => Goal
  BY <1>1
<1>3. CASE PeerReads
  <2>1. PICK n \in 1 .. inFlight : inFlight' = inFlight - n
    BY <1>3 DEF PeerReads
  <2>2. UNCHANGED <<wire, outbuf>>
    BY <1>3 DEF PeerReads
  <2>3. inFlight' \in 0 .. SndBuf
    BY <1>1, <2>1
  <2> QED BY <1>1, <2>2, <2>3
<1>4. CASE ReadContent
  <2>1. UNCHANGED <<inFlight, wire>>
    BY <1>4 DEF ReadContent, kernelVars
  <2>2. CASE outbuf' = outbuf
    BY <1>1, <2>1, <2>2
  <2>3. CASE /\ Len(served') \in Reqs
             /\ outbuf' = Append(outbuf, [req |-> Len(served'), oft |-> 0])
    <3> DEFINE x == [req |-> Len(served'), oft |-> 0]
    <3>1. x \in Out
      BY <2>3 DEF Out
    <3> HIDE DEF x
    <3>2. Append(outbuf, x) \in Seq(Out)
      BY <1>1, <3>1, AppendProperties
    <3> QED BY <1>1, <2>1, <2>3, <3>2 DEF x
  <2> QED BY <1>4, <2>2, <2>3 DEF ReadContent
<1>5. CASE SendSome
  <2> DEFINE d    == Head(outbuf)
             left == Size[d.req] - d.oft
  <2>1. outbuf # <<>>
    BY <1>5 DEF SendSome
  <2>2. d \in Out /\ Tail(outbuf) \in Seq(Out) /\ Len(outbuf) \in Nat \ {0}
    BY <1>1, <2>1, HeadTailProperties, EmptySeq
  <2>3. d = outbuf[1] /\ 1 \in 1 .. Len(outbuf)
    BY <1>1, <2>1, <2>2
  <2>4. d.req \in Reqs /\ d.oft \in Nat
    BY <2>2 DEF Out
  <2>5. left \in Int
    BY <2>4, StreamAssumption
  <2>6. PICK n \in 1 .. left :
           /\ inFlight + n <= SndBuf
           /\ inFlight' = inFlight + n
           /\ wire' = wire \o [j \in 1 .. n |-> <<d.req, d.oft + j>>]
           /\ IF n = left THEN Erase ELSE outbuf' = [outbuf EXCEPT ![1].oft = @ + n]
    BY <1>5 DEF SendSome
  <2>7. n \in Nat
    BY <2>5, <2>6
  <2>8. inFlight' \in 0 .. SndBuf
    BY <1>1, <2>6, <2>7
  <2>9. [j \in 1 .. n |-> <<d.req, d.oft + j>>] \in Seq(Unit)
    <3>1. \A j \in 1 .. n : <<d.req, d.oft + j>> \in Unit
      BY <2>4, <2>7 DEF Unit
    <3> QED BY <2>7, <3>1
  <2>10. wire' \in Seq(Unit)
    BY <1>1, <2>6, <2>9, ConcatProperties
  <2>11. outbuf' \in Seq(Out)
    <3>1. CASE n = left
      BY <2>2, <2>6, <3>1 DEF Erase
    <3>2. CASE n # left
      <4> DEFINE x == [d EXCEPT !.oft = @ + n]
      <4>1. x \in Out
        BY <2>2, <2>7, SMTT(30) DEF Out
      <4>2. outbuf' = [outbuf EXCEPT ![1] = x]
        BY <2>3, <2>6, <3>2
      <4> HIDE DEF x
      <4> QED BY <1>1, <2>3, <4>1, <4>2, ExceptSeq
    <3> QED BY <3>1, <3>2
  <2> QED BY <2>8, <2>10, <2>11
<1>6. CASE SendFails
  <2>1. UNCHANGED <<inFlight, wire>> /\ outbuf # <<>> /\ outbuf' = Tail(outbuf)
    BY <1>6 DEF SendFails, Erase, kernelVars
  <2>2. Tail(outbuf) \in Seq(Out)
    BY <1>1, <2>1, HeadTailProperties
  <2> QED BY <1>1, <2>1, <2>2
<1>7. CASE PeerSends \/ PeerHangsUp \/ Accept
  <2>1. kept BY <1>7 DEF PeerSends, PeerHangsUp, Accept, kernelVars
  <2> QED BY <1>2, <2>1
<1>8. CASE DeliverHangup \/ DeliverWrite \/ DeliverRead \/ DeliverNothing
  <2>1. kept
    BY <1>8 DEF DeliverHangup, DeliverWrite, DeliverRead, DeliverNothing, kernelVars
  <2> QED BY <1>2, <2>1
<1>9. CASE RecvData \/ RecvNothing \/ RecvEnd \/ RecvError \/ ReadHeaders
  <2>1. kept
    BY <1>9 DEF RecvData, RecvNothing, RecvEnd, RecvError, ReadHeaders, kernelVars
  <2> QED BY <1>2, <2>1
<1>10. CASE ReadIncomplete \/ SendBlocked \/ WriteDone \/ RegisterWrite \/ UnRegisterWrite
  <2>1. kept
    BY <1>10 DEF ReadIncomplete, SendBlocked, WriteDone, RegisterWrite,
                 UnRegisterWrite, kernelVars
  <2> QED BY <1>2, <2>1
<1>11. CASE UNCHANGED vars
  <2>1. kept BY <1>11 DEF vars, kernelVars
  <2> QED BY <1>2, <2>1
<1> QED
  BY <1>3, <1>4, <1>5, <1>6, <1>7, <1>8, <1>9, <1>10, <1>11 DEF Next, Loop, Out, Unit

LEMMA TypeStep ==
    ASSUME TypeOK, InStream, [Next]_vars
    PROVE  TypeOK'
PROOF
  BY InputTypeStep, RequestTypeStep, ControlTypeStep, OutputTypeStep DEF TypeOK, Pcs

-----------------------------------------------------------------------------
(* Registrations *)

LEMMA RegisteredStep ==
    ASSUME TypeOK, Registered, [Next]_vars
    PROVE  Registered'
PROOF
<1>1. /\ interest \in {"none", "in", "out"} /\ closed \in BOOLEAN
      /\ pc \in Pcs /\ pd \in BOOLEAN
  BY DEF TypeOK
<1>2. ASSUME closed' = TRUE PROVE Registered'
  BY <1>2 DEF Registered
<1>3. CASE PeerSends \/ PeerReads \/ PeerHangsUp
  <2>1. UNCHANGED <<interest, pc, closed, pd, outbuf>>
    BY <1>3 DEF PeerSends, PeerReads, PeerHangsUp
  <2> QED BY <2>1 DEF Registered
<1>4. CASE Accept
  BY <1>1, <1>4 DEF Accept, Registered
<1>5. CASE DeliverHangup
  BY <1>2, <1>5 DEF DeliverHangup, CloseSocket
<1>6. CASE DeliverWrite \/ DeliverRead \/ DeliverNothing
  BY <1>1, <1>6 DEF DeliverWrite, DeliverRead, DeliverNothing, Registered
<1>7. CASE RecvData
  <2>1. pc = "recv" /\ pc' \in {"parse", "recv"} /\ pd' = FALSE
    BY <1>7 DEF RecvData
  <2>2. UNCHANGED <<interest, closed, outbuf>>
    BY <1>7 DEF RecvData, epollVars
  <2> QED BY <2>1, <2>2 DEF Registered
<1>8. CASE RecvNothing
  BY <1>8 DEF RecvNothing, Registered, epollVars
<1>9. CASE RecvEnd \/ RecvError
  BY <1>2, <1>9 DEF RecvEnd, RecvError, CloseSocket
<1>10. CASE ReadHeaders
  BY <1>10 DEF ReadHeaders, Registered, epollVars
<1>11. CASE ReadContent
  <2>1. UNCHANGED <<interest, pc, closed>> /\ pc = "parse"
    BY <1>11 DEF ReadContent, epollVars
  <2>2. CASE UNCHANGED <<outbuf, pd>>
    BY <2>1, <2>2 DEF Registered
  <2>3. CASE /\ outbuf' = Append(outbuf, [req |-> Len(served'), oft |-> 0])
             /\ pd' = TRUE
    <3>1. outbuf' # <<>>
      BY <2>3 DEF TypeOK
    <3> QED BY <2>1, <2>3, <3>1 DEF Registered
  <2> QED BY <1>11, <2>2, <2>3 DEF ReadContent
<1>12. CASE ReadIncomplete
  BY <1>1, <1>12 DEF ReadIncomplete, Registered, epollVars
<1>13. CASE SendSome
  <2>1. UNCHANGED <<interest, pc, closed>> /\ pc = "write"
    BY <1>13 DEF SendSome, epollVars
  <2> QED BY <2>1 DEF Registered
<1>14. CASE SendBlocked \/ WriteDone
  BY <1>14 DEF SendBlocked, WriteDone, Registered, epollVars
<1>15. CASE SendFails
  BY <1>2, <1>15 DEF SendFails, CloseSocket
<1>16. CASE RegisterWrite \/ UnRegisterWrite
  BY <1>16 DEF RegisterWrite, UnRegisterWrite, Registered
<1>17. CASE UNCHANGED vars
  BY <1>17 DEF vars, Registered, epollVars
<1> QED
  BY <1>3, <1>4, <1>5, <1>6, <1>7, <1>8, <1>9, <1>10, <1>11, <1>12, <1>13, <1>14,
     <1>15, <1>16, <1>17 DEF Next, Loop

-----------------------------------------------------------------------------
(* Edges *)

LEMMA EdgeStep ==
    ASSUME TypeOK, Registered, EdgeTaken, [Next]_vars
    PROVE  EdgeTaken'
PROOF
<1>1. /\ interest \in {"none", "in", "out"} /\ closed \in BOOLEAN
      /\ armed \in BOOLEAN /\ pc \in Pcs /\ peer \in {"open", "fin", "reset"}
  BY DEF TypeOK
<1>2. /\ sent \in Nat /\ bufEnd \in Nat /\ inFlight \in Nat /\ SndBuf \in Nat
      /\ Chunk \in Nat
  <2>1. End[K] \in Nat
    BY EndFacts
  <2>2. sent \in 0 .. End[K] /\ bufEnd \in 0 .. sent /\ inFlight \in 0 .. SndBuf
    BY DEF TypeOK
  <2>3. SndBuf \in Nat /\ Chunk \in Nat
    BY StreamAssumption
  <2> QED BY <2>1, <2>2, <2>3
<1>3. ASSUME closed' = TRUE PROVE EdgeTaken'
  BY <1>3 DEF EdgeTaken
<1> DEFINE same == UNCHANGED <<peer, sent, inFlight, interest, armed, closed, bufEnd>>
<1>4. ASSUME same, pc \notin {"recv", "unregister"} PROVE EdgeTaken'
  BY <1>4 DEF EdgeTaken, Hangup, Readable, Writable
<1>5. CASE PeerSends
  <2>1. /\ UNCHANGED <<peer, inFlight, interest, pc, closed, bufEnd>>
        /\ armed' = (armed \/ (~closed /\ interest = "in"))
    BY <1>5 DEF PeerSends, Raise, readVars
  <2> QED BY <1>1, <2>1 DEF EdgeTaken, Hangup, Readable, Writable
<1>6. CASE PeerReads
  <2>1. /\ UNCHANGED <<peer, sent, interest, pc, closed, bufEnd>>
        /\ armed' = (armed \/ (~closed /\ interest = "out"))
    BY <1>6 DEF PeerReads, Raise, readVars
  <2> QED BY <1>1, <2>1 DEF EdgeTaken, Hangup, Readable, Writable
<1>7. CASE PeerHangsUp
  <2>1. /\ UNCHANGED <<sent, inFlight, interest, pc, closed, bufEnd>>
        /\ armed' = (armed \/ (~closed /\ interest # "none"))
    BY <1>7 DEF PeerHangsUp, readVars
  <2> QED BY <1>1, <2>1 DEF EdgeTaken, Hangup, Readable, Writable
<1>8. CASE Accept
  <2>1. UNCHANGED <<peer, sent, inFlight, bufEnd>> /\ interest' = "in"
        /\ armed' = Pending("in")
    BY <1>8 DEF Accept, kernelVars, readVars
  <2> QED BY <2>1 DEF EdgeTaken, Pending, Hangup, Readable, Writable
<1>9. CASE DeliverHangup \/ RecvEnd \/ RecvError \/ SendFails
  BY <1>3, <1>9 DEF DeliverHangup, RecvEnd, RecvError, SendFails, CloseSocket
<1>10. CASE DeliverWrite \/ DeliverRead \/ DeliverNothing
  <2>1. UNCHANGED <<peer, sent, inFlight, interest, closed, bufEnd>>
    BY <1>10 DEF DeliverWrite, DeliverRead, DeliverNothing, kernelVars, readVars
  <2>2. ~Hangup
    BY <1>10 DEF DeliverWrite, DeliverRead, DeliverNothing, Pending
  <2>3. \/ interest = "out" /\ pc' = "unregister"
        \/ interest = "in" /\ pc' = "recv"
        \/ ~Pending(interest)
    BY <1>10 DEF DeliverWrite, DeliverRead, DeliverNothing
  <2> QED BY <2>1, <2>2, <2>3 DEF EdgeTaken, Pending, Hangup, Readable, Writable
<1>11. CASE RecvData
  <2>1. UNCHANGED <<peer, sent, inFlight, interest, armed, closed>> /\ pc = "recv"
    BY <1>11 DEF RecvData, kernelVars, epollVars
  <2> DEFINE er == IF sent - bufEnd < Chunk THEN sent - bufEnd ELSE Chunk
  <2>2. bufEnd' = bufEnd + er /\ pc' = IF er < Chunk THEN "parse" ELSE "recv"
    BY <1>11 DEF RecvData
  <2>3. pc' = "recv" \/ bufEnd' = sent
    BY <1>2, <2>2
  <2>4. ~closed => interest = "in"
    BY <2>1 DEF Registered
  <2> QED BY <1>2, <2>1, <2>3, <2>4 DEF EdgeTaken, Hangup, Readable, Writable
<1>12. CASE RecvNothing
  <2>1. same /\ pc = "recv" /\ (closed \/ ~Readable)
    BY <1>12 DEF RecvNothing, kernelVars, epollVars, readVars
  <2>2. ~closed => interest = "in"
    BY <2>1 DEF Registered
  <2> QED BY <2>1, <2>2 DEF EdgeTaken, Hangup, Readable, Writable
<1>13. CASE ReadHeaders \/ ReadContent \/ ReadIncomplete
  <2>1. same /\ pc = "parse"
    BY <1>13 DEF ReadHeaders, ReadContent, ReadIncomplete, kernelVars, epollVars, readVars
  <2> QED BY <1>4, <2>1
<1>14. CASE SendBlocked \/ WriteDone
  <2>1. same /\ pc = "write"
    BY <1>14 DEF SendBlocked, WriteDone, kernelVars, epollVars, readVars
  <2> QED BY <1>4, <2>1
<1>15. CASE SendSome
  <2>1. UNCHANGED <<peer, sent, interest, armed, closed, pc, bufEnd>> /\ pc = "write"
    BY <1>15 DEF SendSome, epollVars, readVars
  <2>2. ~closed => interest = "in"
    BY <2>1 DEF Registered
  <2> QED BY <2>1, <2>2 DEF EdgeTaken, Hangup, Readable, Writable
<1>16. CASE RegisterWrite
  <2>1. UNCHANGED <<peer, sent, inFlight, bufEnd>> /\ interest' = "out"
        /\ armed' = Pending("out")
    BY <1>16 DEF RegisterWrite, kernelVars, readVars
  <2> QED BY <2>1 DEF EdgeTaken, Pending, Hangup, Readable, Writable
<1>17. CASE UnRegisterWrite
  <2>1. UNCHANGED <<peer, sent, inFlight, bufEnd>> /\ interest' = "in"
        /\ armed' = Pending("in")
    BY <1>17 DEF UnRegisterWrite, kernelVars, readVars
  <2> QED BY <2>1 DEF EdgeTaken, Pending, Hangup, Readable, Writable
<1>18. CASE UNCHANGED vars
  <2>1. same /\ pc' = pc BY <1>18 DEF vars, kernelVars, epollVars, readVars
  <2> QED BY <2>1 DEF EdgeTaken, Hangup, Readable, Writable
<1> QED
  BY <1>5, <1>6, <1>7, <1>8, <1>9, <1>10, <1>11, <1>12, <1>13, <1>14, <1>15, <1>16,
     <1>17, <1>18 DEF Next, Loop

LEMMA PeerStep ==
    ASSUME TypeOK, PeerClosesFirst, [Next]_vars
    PROVE  PeerClosesFirst'
PROOF
<1>1. CASE PeerHangsUp
  BY <1>1 DEF PeerHangsUp, PeerClosesFirst
<1>2. CASE PeerSends \/ PeerReads \/ Accept
  BY <1>2 DEF PeerSends, PeerReads, Accept, PeerClosesFirst, kernelVars
<1>3. CASE DeliverHangup \/ DeliverWrite \/ DeliverRead \/ DeliverNothing
  BY <1>3 DEF DeliverHangup, DeliverWrite, DeliverRead, DeliverNothing,
              PeerClosesFirst, Hangup, kernelVars
<1>4. CASE RecvData \/ RecvNothing \/ RecvEnd \/ RecvError
  BY <1>4 DEF RecvData, RecvNothing, RecvEnd, RecvError, PeerClosesFirst, kernelVars
<1>5. CASE ReadHeaders \/ ReadContent \/ ReadIncomplete
  BY <1>5 DEF ReadHeaders, ReadContent, ReadIncomplete, PeerClosesFirst, kernelVars
<1>6. CASE SendSome \/ SendBlocked \/ SendFails \/ WriteDone
  BY <1>6 DEF SendSome, SendBlocked, SendFails, WriteDone, PeerClosesFirst, kernelVars
<1>7. CASE RegisterWrite \/ UnRegisterWrite
  BY <1>7 DEF RegisterWrite, UnRegisterWrite, PeerClosesFirst, kernelVars
<1>8. CASE UNCHANGED vars
  BY <1>8 DEF vars, PeerClosesFirst, kernelVars
<1> QED
  BY <1>1, <1>2, <1>3, <1>4, <1>5, <1>6, <1>7, <1>8 DEF Next, Loop

-----------------------------------------------------------------------------
(* The theorems *)

LEMMA InitIInv == Init => IInv
PROOF
<1> SUFFICES ASSUME Init PROVE IInv
  OBVIOUS
<1>1. K \in Nat /\ End[K] \in Nat /\ End[0] = 0 /\ SndBuf \in Nat
  BY EndFacts, StreamAssumption
<1>2. TypeOK
  <2>1. /\ wire \in Seq(Reqs \X (Nat \ {0}))
        /\ served \in Seq(Nat \X Nat \X Nat)
        /\ outbuf \in Seq([req : Reqs, oft : Nat])
    BY EmptySeq DEF Init
  <2>2. /\ sent \in 0 .. End[K] /\ inFlight \in 0 .. SndBuf
        /\ bufBeg \in 0 .. bufEnd /\ bufEnd \in 0 .. sent /\ bytesToRead \in Nat
    BY <1>1 DEF Init
  <2>3. /\ hdr \in Nat \X Nat /\ armed \in BOOLEAN /\ closed \in BOOLEAN
        /\ isHeadersDone \in BOOLEAN /\ pd \in BOOLEAN
    BY DEF Init
  <2>4. peer \in {"open", "fin", "reset"} /\ interest \in {"none", "in", "out"} /\ pc \in Pcs
    BY DEF Init, Pcs
  <2> QED BY <2>1, <2>2, <2>3, <2>4 DEF TypeOK
<1>3. Framed /\ InStream
  BY <1>1 DEF Init, Framed, InStream
<1>4. Registered /\ EdgeTaken /\ PeerClosesFirst
  BY DEF Init, Registered, EdgeTaken, PeerClosesFirst
<1> QED BY <1>2, <1>3, <1>4 DEF IInv

LEMMA Invariance == Spec => []IInv
PROOF
<1>1. IInv /\ [Next]_vars => IInv'
  BY TypeStep, FramingStep, RegisteredStep, EdgeStep, PeerStep DEF IInv
<1> QED
  BY <1>1, InitIInv, PTL DEF Spec

\* Every variable keeps its type: in particular read() never passes the end of
\* buffer, and the send buffer never overflows.
THEOREM TypeCorrect == Spec => []TypeOK
PROOF BY Invariance, PTL DEF IInv

\* Whatever the requests, the sizes of recv and the pieces the bytes arrive in,
\* the requests given to the handler are the peer's requests.
THEOREM FramedHolds == Spec => []Framed
PROOF BY Invariance, PTL DEF IInv

\* An open connection waits for EPOLLOUT exactly when responses are left.
THEOREM OutputWatchedHolds == Spec => []OutputWatched
PROOF
<1>1. IInv => OutputWatched
  BY DEF IInv, Registered, OutputWatched
<1> QED BY <1>1, Invariance, PTL

\* No edge of the edge-triggered descriptor is lost.
THEOREM EdgeKeptHolds == Spec => []EdgeKept
PROOF
<1>1. IInv => EdgeKept
  BY DEF IInv, EdgeTaken, EdgeKept, Pending
<1> QED BY <1>1, Invariance, PTL

\* The server never closes the connection of a peer that has not hung up.
THEOREM PeerClosesFirstHolds == Spec => []PeerClosesFirst
PROOF BY Invariance, PTL DEF IInv

-----------------------------------------------------------------------------
(* The connection implements PipelinedResponses *)

\* Unit b of response a is the last on the wire: of the n requests served, the
\* responses that are not on the wire yet or not to their end.
Due(r, a, b, n) ==
    /\ r \in 1 .. n /\ Size[r] > 0
    /\ r > a \/ (r = a /\ b < Size[r])

\* out holds what is due, in the order of the requests, and continues the wire.
InOrder(out, a, b, n) ==
    /\ a \in 0 .. n
    /\ a > 0 => b \in 1 .. Size[a]
    /\ \A i \in 1 .. Len(out) :
         /\ Due(out[i].req, a, b, n)
         /\ out[i].oft = IF out[i].req = a THEN b ELSE 0
    /\ \A i, j \in 1 .. Len(out) : i < j => out[i].req < out[j].req
    /\ \A r \in 1 .. n : Due(r, a, b, n) => \E i \in 1 .. Len(out) : out[i].req = r

\* What a failed send has erased is never missed: the connection is closed.
OutLine ==
    ~closed => LET u == Responses!LastUnit(wire)
               IN  u[2] \in Nat /\ InOrder(outbuf, u[1], u[2], Len(served))

Entry == [req : Reqs, oft : Nat]

LEMMA SizeFacts == K \in Nat /\ (\A r \in 1 .. K : Size[r] \in Nat) /\ Len(Size) = K
<1>1. K \in Nat /\ Size \in [1 .. K -> Nat]
  BY StreamAssumption DEF Reqs
<1> QED BY <1>1

\* The handler answers the next request by itself.
LEMMA ServedElsewhere ==
    ASSUME NEW out \in Seq(Entry), NEW a \in Nat, NEW b \in Nat, NEW n \in Nat, n < K,
           InOrder(out, a, b, n), Size[n + 1] = 0
    PROVE  InOrder(out, a, b, n + 1)
<1>1. \A r : Due(r, a, b, n + 1) <=> Due(r, a, b, n)
  BY SizeFacts DEF Due
<1>2. \A r \in 1 .. n + 1 : Due(r, a, b, n) => r \in 1 .. n
  BY DEF Due
<1>3. a \in 0 .. n + 1
  BY DEF InOrder
<1> QED BY <1>1, <1>2, <1>3 DEF InOrder

\* The response to the next request joins out.
LEMMA ServedHere ==
    ASSUME NEW out \in Seq(Entry), NEW a \in Nat, NEW b \in Nat, NEW n \in Nat, n < K,
           InOrder(out, a, b, n), Size[n + 1] > 0
    PROVE  InOrder(Append(out, [req |-> n + 1, oft |-> 0]), a, b, n + 1)
<1> DEFINE e == [req |-> n + 1, oft |-> 0]
           q == Append(out, e)
<1>1. e \in Entry /\ e.req = n + 1 /\ e.oft = 0
  BY SizeFacts DEF Entry, Reqs
<1> HIDE DEF e
<1>2. /\ Len(q) = Len(out) + 1 /\ q[Len(out) + 1] = e
      /\ \A i \in 1 .. Len(out) : q[i] = out[i]
  BY <1>1, AppendProperties
<1>3. \A r : Due(r, a, b, n + 1) <=> Due(r, a, b, n) \/ r = n + 1
  BY SizeFacts DEF Due, InOrder
<1>4. \A i \in 1 .. Len(out) : out[i].req \in 1 .. n
  BY DEF InOrder, Due
<1> HIDE DEF q
<1>5. \A i \in 1 .. Len(q) : /\ Due(q[i].req, a, b, n + 1)
                             /\ q[i].oft = IF q[i].req = a THEN b ELSE 0
  BY <1>1, <1>2, <1>3 DEF InOrder
<1>6. \A i, j \in 1 .. Len(q) : i < j => q[i].req < q[j].req
  <2> SUFFICES ASSUME NEW i \in 1 .. Len(q), NEW j \in 1 .. Len(q), i < j PROVE q[i].req < q[j].req
    OBVIOUS
  <2>1. i \in 1 .. Len(out) /\ (j \in 1 .. Len(out) \/ j = Len(out) + 1)
    BY <1>2
  <2>2. CASE j \in 1 .. Len(out)
    BY <1>2, <2>1, <2>2 DEF InOrder
  <2>3. CASE j = Len(out) + 1
    <3>1. q[i].req \in 1 .. n /\ q[j].req = n + 1
      BY <1>1, <1>2, <1>4, <2>1, <2>3
    <3> QED BY <3>1
  <2> QED BY <2>1, <2>2, <2>3
<1>7. \A r \in 1 .. n + 1 : Due(r, a, b, n + 1) => \E i \in 1 .. Len(q) : q[i].req = r
  <2> SUFFICES ASSUME NEW r \in 1 .. n + 1, Due(r, a, b, n + 1) PROVE \E i \in 1 .. Len(q) : q[i].req = r
    OBVIOUS
  <2>1. CASE r = n + 1
    BY <1>1, <1>2, <2>1
  <2>2. CASE Due(r, a, b, n)
    <3>1. r \in 1 .. n
      BY <2>2 DEF Due
    <3>2. PICK i \in 1 .. Len(out) : out[i].req = r
      BY <2>2, <3>1 DEF InOrder
    <3> QED BY <1>2, <3>2
  <2> QED BY <1>3, <2>1, <2>2
<1>8. InOrder(q, a, b, n + 1)
  BY <1>5, <1>6, <1>7 DEF InOrder
<1> QED BY <1>8 DEF q, e

\* The head of out is the first response that is due.
LEMMA HeadIsFirst ==
    ASSUME NEW out \in Seq(Entry), NEW a \in Nat, NEW b \in Nat, NEW n \in Nat, n <= K,
           InOrder(out, a, b, n), out # <<>>
    PROVE  /\ Due(out[1].req, a, b, n) /\ 1 \in 1 .. Len(out) /\ out[1] \in Entry
           /\ out[1].oft < Size[out[1].req]
           /\ \A r \in 1 .. n : Due(r, a, b, n) => out[1].req <= r
           /\ \A i \in 2 .. Len(out) : out[1].req < out[i].req
<1>0. Len(out) \in Nat \ {0} /\ \A i \in 1 .. Len(out) : out[i] \in Entry
  BY EmptySeq
<1>a. \A e \in Entry : e.req \in Nat
  BY SizeFacts DEF Entry, Reqs
<1>1. 1 \in 1 .. Len(out) /\ \A i \in 1 .. Len(out) : out[i] \in Entry /\ out[i].req \in Nat
  BY <1>0, <1>a
<1>2. Due(out[1].req, a, b, n) /\ out[1].oft < Size[out[1].req]
  BY <1>1 DEF InOrder, Due
<1>3. \A i \in 2 .. Len(out) : out[1].req < out[i].req
  BY <1>1 DEF InOrder
<1>4. ASSUME NEW r \in 1 .. n, Due(r, a, b, n) PROVE out[1].req <= r
  <2>1. PICK i \in 1 .. Len(out) : out[i].req = r
    BY <1>4 DEF InOrder
  <2>2. i = 1 \/ i \in 2 .. Len(out)
    OBVIOUS
  <2> QED BY <1>1, <1>3, <2>1, <2>2
<1> QED BY <1>1, <1>2, <1>3, <1>4

\* Its next unit follows the wire.
LEMMA HeadFollows ==
    ASSUME NEW out \in Seq(Entry), NEW u \in Nat \X Nat, NEW n \in Nat, n <= K,
           InOrder(out, u[1], u[2], n), out # <<>>
    PROVE  Responses!Follows(u, out[1].req, out[1].oft + 1)
<1> DEFINE a == u[1]
           b == u[2]
           r == out[1].req
<1>0. a \in Nat /\ b \in Nat
  OBVIOUS
<1>1. /\ Due(r, a, b, n) /\ r \in Nat
      /\ \A q \in 1 .. n : Due(q, a, b, n) => r <= q
      /\ out[1].oft = IF r = a THEN b ELSE 0
  <2>1. 1 \in 1 .. Len(out) /\ Due(r, a, b, n) /\ \A q \in 1 .. n : Due(q, a, b, n) => r <= q
    BY <1>0, HeadIsFirst
  <2> QED BY <2>1 DEF InOrder, Due
<1>2. CASE r = a
  BY <1>1, <1>2 DEF Responses!Follows
<1>3. CASE r # a
  <2>1. r > a /\ out[1].oft = 0 /\ r \in 1 .. n
    BY <1>1, <1>3 DEF Due
  <2>2. a = 0 \/ b = Size[a]
    <3> SUFFICES ASSUME a # 0, b # Size[a] PROVE FALSE
      OBVIOUS
    <3>1. a \in 1 .. n /\ b \in 1 .. Size[a] /\ Size[a] \in Nat
      BY <1>0, SizeFacts DEF InOrder
    <3>2. Due(a, a, b, n)
      BY <1>0, <3>1 DEF Due
    <3> QED BY <1>0, <1>1, <2>1, <3>1, <3>2
  <2>3. \A q \in a + 1 .. r - 1 : Size[q] = 0
    <3> SUFFICES ASSUME NEW q \in a + 1 .. r - 1, Size[q] # 0 PROVE FALSE
      OBVIOUS
    <3>1. q \in 1 .. n /\ q > a /\ q < r
      BY <1>0, <1>1, <2>1
    <3>2. Size[q] > 0
      BY <3>1, SizeFacts
    <3> QED BY <1>1, <3>1, <3>2 DEF Due
  <2> QED BY <2>1, <2>2, <2>3 DEF Responses!Follows, Responses!Whole
<1> QED BY <1>2, <1>3

\* A send that does not finish the head.
LEMMA SentPart ==
    ASSUME NEW out \in Seq(Entry), NEW a \in Nat, NEW b \in Nat, NEW n \in Nat, n <= K,
           InOrder(out, a, b, n), out # <<>>,
           NEW m \in Nat, m > 0, out[1].oft + m < Size[out[1].req]
    PROVE  InOrder([out EXCEPT ![1].oft = @ + m], out[1].req, out[1].oft + m, n)
<1> DEFINE q == [out EXCEPT ![1].oft = @ + m]
           x == out[1].req
           y == out[1].oft + m
<1>1. /\ Due(x, a, b, n) /\ 1 \in 1 .. Len(out) /\ out[1] \in Entry
      /\ \A r \in 1 .. n : Due(r, a, b, n) => x <= r
      /\ \A i \in 2 .. Len(out) : x < out[i].req
  BY HeadIsFirst
<1>2. /\ x \in 1 .. n /\ x \in Nat /\ y \in Nat /\ y > 0 /\ y < Size[x] /\ Size[x] \in Nat
      /\ out[1].oft \in Nat /\ a <= x
  BY <1>1, SizeFacts, SMTT(30) DEF Due, Entry
<1>3. /\ Len(q) = Len(out) /\ q[1].req = x /\ q[1].oft = y
      /\ \A i \in 2 .. Len(out) : q[i] = out[i]
  BY <1>1 DEF Entry
<1> HIDE DEF q, x, y
<1>4. \A r \in 1 .. n : Due(r, x, y, n) <=> Due(r, a, b, n)
  <2> SUFFICES ASSUME NEW r \in 1 .. n PROVE Due(r, x, y, n) <=> Due(r, a, b, n)
    OBVIOUS
  <2>1. r < x => ~Due(r, a, b, n)
    BY <1>1, <1>2
  <2>2. r > x => (Due(r, a, b, n) <=> Size[r] > 0)
    BY <1>2 DEF Due
  <2> QED BY <1>1, <1>2, <2>1, <2>2 DEF Due
<1>5. \A i \in 1 .. Len(q) : q[i].req = out[i].req /\ (i = 1 \/ i \in 2 .. Len(out))
  BY <1>3 DEF x
<1>6. \A i \in 1 .. Len(out) : Due(out[i].req, a, b, n) /\ out[i].req \in 1 .. n
  BY DEF InOrder, Due
<1>7. \A i \in 2 .. Len(out) : out[i].req # x /\ out[i].oft = 0
  <2> SUFFICES ASSUME NEW i \in 2 .. Len(out) PROVE out[i].req # x /\ out[i].oft = 0
    OBVIOUS
  <2>1. i \in 1 .. Len(out) /\ x < out[i].req /\ out[i].req \in Nat
    BY <1>1, <1>6
  <2>2. out[i].req # a
    BY <1>2, <2>1
  <2> QED BY <1>2, <2>1, <2>2 DEF InOrder
<1>8. \A i \in 1 .. Len(q) : /\ Due(q[i].req, x, y, n)
                             /\ q[i].oft = IF q[i].req = x THEN y ELSE 0
  BY <1>3, <1>4, <1>5, <1>6, <1>7
<1>9. \A i, j \in 1 .. Len(q) : i < j => q[i].req < q[j].req
  BY <1>3, <1>5 DEF InOrder
<1>10. \A r \in 1 .. n : Due(r, x, y, n) => \E i \in 1 .. Len(q) : q[i].req = r
  BY <1>3, <1>4, <1>5 DEF InOrder
<1>11. InOrder(q, x, y, n)
  BY <1>2, <1>8, <1>9, <1>10 DEF InOrder
<1> QED BY <1>11 DEF q, x, y

\* A send that finishes the head erases it.
LEMMA SentWhole ==
    ASSUME NEW out \in Seq(Entry), NEW a \in Nat, NEW b \in Nat, NEW n \in Nat, n <= K,
           InOrder(out, a, b, n), out # <<>>
    PROVE  InOrder(Tail(out), out[1].req, Size[out[1].req], n)
<1> DEFINE q == Tail(out)
           x == out[1].req
           y == Size[out[1].req]
<1>1. /\ Due(x, a, b, n) /\ 1 \in 1 .. Len(out) /\ out[1] \in Entry
      /\ \A r \in 1 .. n : Due(r, a, b, n) => x <= r
      /\ \A i \in 2 .. Len(out) : x < out[i].req
  BY HeadIsFirst
<1>2. /\ x \in 1 .. n /\ x \in Nat /\ y = Size[x] /\ y \in Nat /\ y > 0 /\ a <= x
  BY <1>1, SizeFacts DEF Due
<1>3. Len(q) = Len(out) - 1 /\ \A i \in 1 .. Len(q) : q[i] = out[i + 1] /\ i + 1 \in 2 .. Len(out)
  BY <1>1
<1> HIDE DEF q, x, y
<1>4. \A r \in 1 .. n : Due(r, x, y, n) <=> Due(r, a, b, n) /\ r # x
  <2> SUFFICES ASSUME NEW r \in 1 .. n PROVE Due(r, x, y, n) <=> Due(r, a, b, n) /\ r # x
    OBVIOUS
  <2>1. r < x => ~Due(r, a, b, n)
    BY <1>1, <1>2
  <2>2. r > x => (Due(r, a, b, n) <=> Size[r] > 0)
    BY <1>2 DEF Due
  <2> QED BY <1>2, <2>1, <2>2 DEF Due
<1>6. \A i \in 1 .. Len(out) : Due(out[i].req, a, b, n) /\ out[i].req \in 1 .. n
  BY DEF InOrder, Due
<1>7. \A i \in 2 .. Len(out) : /\ i \in 1 .. Len(out) /\ out[i].req # x /\ out[i].oft = 0
  <2> SUFFICES ASSUME NEW i \in 2 .. Len(out) PROVE i \in 1 .. Len(out) /\ out[i].req # x /\ out[i].oft = 0
    OBVIOUS
  <2>1. i \in 1 .. Len(out) /\ x < out[i].req /\ out[i].req \in Nat
    BY <1>1, <1>6
  <2>2. out[i].req # a
    BY <1>2, <2>1
  <2> QED BY <1>2, <2>1, <2>2 DEF InOrder
<1>8. \A i \in 1 .. Len(q) : /\ Due(q[i].req, x, y, n)
                             /\ q[i].oft = IF q[i].req = x THEN y ELSE 0
  BY <1>3, <1>4, <1>6, <1>7
<1>9. \A i, j \in 1 .. Len(q) : i < j => q[i].req < q[j].req
  <2> SUFFICES ASSUME NEW i \in 1 .. Len(q), NEW j \in 1 .. Len(q), i < j PROVE q[i].req < q[j].req
    OBVIOUS
  <2>1. i + 1 \in 1 .. Len(out) /\ j + 1 \in 1 .. Len(out) /\ i + 1 < j + 1
    BY <1>3, <1>7
  <2> QED BY <1>3, <2>1 DEF InOrder
<1>10. \A r \in 1 .. n : Due(r, x, y, n) => \E i \in 1 .. Len(q) : q[i].req = r
  <2> SUFFICES ASSUME NEW r \in 1 .. n, Due(r, x, y, n) PROVE \E i \in 1 .. Len(q) : q[i].req = r
    OBVIOUS
  <2>1. PICK i \in 1 .. Len(out) : out[i].req = r
    BY <1>4 DEF InOrder
  <2>2. i # 1
    BY <1>4, <2>1 DEF x
  <2>3. i - 1 \in 1 .. Len(q) /\ q[i - 1] = out[i]
    BY <1>3, <2>2
  <2> QED BY <2>1, <2>3
<1>11. InOrder(q, x, y, n)
  BY <1>2, <1>8, <1>9, <1>10 DEF InOrder
<1> QED BY <1>11 DEF q, x, y

\* What a send does to outbuf and to the wire
LEMMA SendSomeDoes ==
    ASSUME IInv, OutLine, SendSome
    PROVE  \E n \in Nat :
             LET d == outbuf[1] IN
             /\ n > 0 /\ outbuf # <<>> /\ d \in Entry /\ d.oft + n <= Size[d.req]
             /\ wire' = wire \o [j \in 1 .. n |-> <<d.req, d.oft + j>>]
             /\ Responses!LastUnit(wire') = <<d.req, d.oft + n>>
             /\ \/ d.oft + n = Size[d.req] /\ outbuf' = Tail(outbuf)
                \/ d.oft + n < Size[d.req] /\ outbuf' = [outbuf EXCEPT ![1].oft = @ + n]
<1> DEFINE d == outbuf[1]
           Unit == Reqs \X (Nat \ {0})
<1>1. outbuf \in Seq(Entry) /\ outbuf # <<>> /\ wire \in Seq(Unit)
  BY DEF IInv, TypeOK, SendSome, Entry
<1>2. Head(outbuf) = d /\ d \in Entry
  BY <1>1, HeadTailProperties, EmptySeq
<1>3. d.req \in Reqs /\ d.oft \in Nat /\ Size[d.req] \in Nat
  BY <1>2, SizeFacts DEF Entry, Reqs
<1>4. PICK n \in 1 .. Size[d.req] - d.oft :
         /\ wire' = wire \o [j \in 1 .. n |-> <<d.req, d.oft + j>>]
         /\ IF n = Size[d.req] - d.oft THEN Erase ELSE outbuf' = [outbuf EXCEPT ![1].oft = @ + n]
  BY <1>2 DEF SendSome
<1> HIDE DEF d
<1>5. n \in Nat /\ n > 0 /\ d.oft + n <= Size[d.req]
  BY <1>3, <1>4
<1>6. Responses!LastUnit(wire') = <<d.req, d.oft + n>>
  <2> DEFINE v == [j \in 1 .. n |-> <<d.req, d.oft + j>>]
  <2>1. v \in Seq(Unit) /\ Len(v) = n /\ v[n] = <<d.req, d.oft + n>>
    <3>1. \A j \in 1 .. n : <<d.req, d.oft + j>> \in Unit
      BY <1>3, <1>5
    <3>2. v \in Seq(Unit) /\ Len(v) = n
      BY <1>5, <3>1
    <3>3. n \in 1 .. n
      BY <1>5
    <3> QED BY <3>2, <3>3
  <2>2. wire' = wire \o v
    BY <1>4
  <2> HIDE DEF v, Unit
  <2>3. Len(wire') = Len(wire) + n /\ wire'[Len(wire) + n] = v[n]
    <3>1. /\ Len(wire \o v) = Len(wire) + Len(v)
          /\ \A i \in 1 .. Len(wire) + Len(v) :
               (wire \o v)[i] = IF i <= Len(wire) THEN wire[i] ELSE v[i - Len(wire)]
      BY <1>1, <2>1, ConcatProperties
    <3>2. Len(wire) \in Nat /\ Len(wire) + n \in 1 .. Len(wire) + Len(v)
      BY <1>1, <1>5, <2>1
    <3>3. ~(Len(wire) + n <= Len(wire)) /\ (Len(wire) + n) - Len(wire) = n
      BY <1>5, <3>2
    <3> QED BY <2>1, <2>2, <3>1, <3>2, <3>3
  <2>4. wire' # <<>>
    BY <1>1, <1>5, <2>3
  <2> QED BY <2>1, <2>3, <2>4 DEF Responses!LastUnit
<1>7. \/ d.oft + n = Size[d.req] /\ outbuf' = Tail(outbuf)
      \/ d.oft + n < Size[d.req] /\ outbuf' = [outbuf EXCEPT ![1].oft = @ + n]
  BY <1>3, <1>4, <1>5 DEF Erase
<1> QED BY <1>1, <1>2, <1>4, <1>5, <1>6, <1>7 DEF d

\* The last unit is a pair of numbers.
LEMMA LastUnitType == ASSUME TypeOK PROVE Responses!LastUnit(wire) \in Nat \X Nat
<1>1. wire \in Seq(Reqs \X (Nat \ {0})) /\ K \in Nat
  BY SizeFacts DEF TypeOK
<1>2. wire # <<>> => wire[Len(wire)] \in Reqs \X (Nat \ {0})
  BY <1>1, EmptySeq
<1> QED BY <1>1, <1>2 DEF Responses!LastUnit, Reqs

LEMMA SendSomeLine == ASSUME IInv, OutLine, SendSome PROVE OutLine'
<1> DEFINE d == outbuf[1]
           u == Responses!LastUnit(wire)
           s == Len(served)
<1>1. PICK n \in Nat :
             /\ n > 0 /\ outbuf # <<>> /\ d \in Entry /\ d.oft + n <= Size[d.req]
             /\ wire' = wire \o [j \in 1 .. n |-> <<d.req, d.oft + j>>]
             /\ Responses!LastUnit(wire') = <<d.req, d.oft + n>>
             /\ \/ d.oft + n = Size[d.req] /\ outbuf' = Tail(outbuf)
                \/ d.oft + n < Size[d.req] /\ outbuf' = [outbuf EXCEPT ![1].oft = @ + n]
  BY SendSomeDoes
<1>2. /\ ~closed /\ UNCHANGED <<closed, served>>
      /\ outbuf \in Seq(Entry) /\ s \in Nat /\ s <= K /\ d.oft \in Nat
  <2>1. ~closed /\ UNCHANGED <<closed, served>>
    BY DEF SendSome, readVars
  <2>2. outbuf \in Seq(Entry) /\ s \in Nat /\ s <= K
    BY DEF IInv, TypeOK, InStream, Entry
  <2>3. d.oft \in Nat
    BY <1>1 DEF Entry
  <2> QED BY <2>1, <2>2, <2>3
<1>3. u[1] \in Nat /\ u[2] \in Nat /\ InOrder(outbuf, u[1], u[2], s)
  BY <1>2, LastUnitType DEF OutLine, IInv
<1> HIDE DEF u
<1>4. InOrder(outbuf', d.req, d.oft + n, s)
  <2>1. CASE d.oft + n = Size[d.req] /\ outbuf' = Tail(outbuf)
    BY <1>1, <1>2, <1>3, <2>1, SentWhole
  <2>2. CASE d.oft + n < Size[d.req] /\ outbuf' = [outbuf EXCEPT ![1].oft = @ + n]
    BY <1>1, <1>2, <1>3, <2>2, SentPart
  <2> QED BY <1>1, <2>1, <2>2
<1>5. Responses!LastUnit(wire)' = <<d.req, d.oft + n>>
  BY <1>1 DEF Responses!LastUnit
<1> QED BY <1>1, <1>2, <1>4, <1>5 DEF OutLine

\* The abstract Emit: what is sent follows the last unit on the wire.
LEMMA SendSomeEmits == ASSUME IInv, OutLine, SendSome PROVE Responses!Emit
<1> DEFINE d == outbuf[1]
           u == Responses!LastUnit(wire)
           s == Len(served)
<1>1. PICK n \in Nat :
             /\ n > 0 /\ outbuf # <<>> /\ d \in Entry /\ d.oft + n <= Size[d.req]
             /\ wire' = wire \o [j \in 1 .. n |-> <<d.req, d.oft + j>>]
  BY SendSomeDoes
<1>2. /\ ~closed /\ UNCHANGED <<closed, served>>
      /\ outbuf \in Seq(Entry) /\ s \in Nat /\ s <= K /\ d.oft \in Nat
  <2>1. ~closed /\ UNCHANGED <<closed, served>>
    BY DEF SendSome, readVars
  <2>2. outbuf \in Seq(Entry) /\ s \in Nat /\ s <= K
    BY DEF IInv, TypeOK, InStream, Entry
  <2>3. d.oft \in Nat
    BY <1>1 DEF Entry
  <2> QED BY <2>1, <2>2, <2>3
<1>3. u \in Nat \X Nat /\ InOrder(outbuf, u[1], u[2], s)
  BY <1>2, LastUnitType DEF OutLine, IInv
<1>4. Responses!Follows(u, d.req, d.oft + 1)
  BY <1>1, <1>2, <1>3, HeadFollows
<1>5. d.req \in 1 .. s /\ Size[d.req] \in Nat
  <2>1. u[1] \in Nat /\ u[2] \in Nat
    BY <1>3
  <2>2. Due(d.req, u[1], u[2], s)
    BY <1>1, <1>2, <1>3, <2>1, HeadIsFirst
  <2> QED BY <1>2, <2>2, SizeFacts DEF Due
<1> HIDE DEF d
<1>6. wire' = wire \o Responses!Run(d.req, d.oft + 1, n)
  <2>1. \A j \in 1 .. n : (d.oft + 1) + j - 1 = d.oft + j
    BY <1>2
  <2>2. Responses!Run(d.req, d.oft + 1, n) = [j \in 1 .. n |-> <<d.req, d.oft + j>>]
    BY <2>1 DEF Responses!Run
  <2> QED BY <1>1, <2>2
<1>7. d.oft + 1 \in 1 .. Size[d.req] /\ n \in 1 .. Size[d.req] - (d.oft + 1) + 1
  BY <1>1, <1>2, <1>5, SMTT(30)
<1>8. (~closed)' = ~closed /\ Len(served)' = Len(served)
  BY <1>2
<1> QED BY <1>2, <1>4, <1>5, <1>6, <1>7, <1>8 DEF Responses!Emit

\* The abstract Serve
LEMMA ReadContentServes ==
    ASSUME IInv, OutLine, ReadContent
    PROVE  Responses!Serve /\ OutLine'
<1> DEFINE n == Len(served)
           u == Responses!LastUnit(wire)
<1>1. n < K /\ n \in Nat /\ outbuf \in Seq(Entry) /\ served \in Seq(Nat \X Nat \X Nat)
  BY DEF ReadContent, IInv, InStream, TypeOK, Entry
<1>2. Len(served') = n + 1
  <2> DEFINE x == <<hdr[1], hdr[2], bufBeg + bytesToRead>>
  <2>1. served' = Append(served, x)
    BY DEF ReadContent
  <2> HIDE DEF x
  <2> QED BY <1>1, <2>1
<1>3. UNCHANGED <<wire, closed>>
  BY DEF ReadContent
<1>4. Responses!Serve
  BY <1>1, <1>2, <1>3, SizeFacts DEF Responses!Serve
<1>5. n + 1 \in Reqs /\ Size[n + 1] \in Nat
  BY <1>1, SizeFacts DEF Reqs
<1>6. \/ Size[n + 1] > 0 /\ outbuf' = Append(outbuf, [req |-> n + 1, oft |-> 0])
      \/ Size[n + 1] = 0 /\ outbuf' = outbuf
  BY <1>2, <1>5 DEF ReadContent
<1>7. ~closed => InOrder(outbuf', u[1], u[2], n + 1)
  <2> SUFFICES ASSUME ~closed PROVE InOrder(outbuf', u[1], u[2], n + 1)
    OBVIOUS
  <2>1. u[1] \in Nat /\ u[2] \in Nat /\ InOrder(outbuf, u[1], u[2], n)
    BY LastUnitType DEF OutLine, IInv
  <2> HIDE DEF u
  <2> QED BY <1>1, <1>6, <2>1, ServedHere, ServedElsewhere
<1>8. Responses!LastUnit(wire)' = u
  BY <1>3 DEF Responses!LastUnit
<1>9. OutLine'
  BY <1>2, <1>3, <1>7, <1>8 DEF OutLine
<1> QED BY <1>4, <1>9

\* Everything else closes the connection or leaves the responses alone.
LEMMA OthersCloseOrStutter ==
    ASSUME IInv, OutLine, [Next]_vars, ~SendSome, ~ReadContent
    PROVE  (Responses!Close \/ UNCHANGED Responses!vars) /\ OutLine'
<1>1. UNCHANGED <<wire, served>>
  BY DEF Next, Loop, PeerSends, PeerReads, PeerHangsUp, Accept, DeliverHangup, DeliverWrite,
         DeliverRead, DeliverNothing, RecvData, RecvNothing, RecvEnd, RecvError, ReadHeaders,
         ReadIncomplete, SendBlocked, SendFails, WriteDone, RegisterWrite, UnRegisterWrite,
         readVars, vars
<1>2. closed' = TRUE \/ UNCHANGED <<closed, outbuf>>
  BY DEF Next, Loop, PeerSends, PeerReads, PeerHangsUp, Accept, DeliverHangup, DeliverWrite,
         DeliverRead, DeliverNothing, RecvData, RecvNothing, RecvEnd, RecvError, ReadHeaders,
         ReadIncomplete, SendBlocked, SendFails, WriteDone, RegisterWrite, UnRegisterWrite,
         CloseSocket, vars
<1>3. closed \in BOOLEAN
  BY DEF IInv, TypeOK
<1>4. OutLine'
  BY <1>1, <1>2 DEF OutLine, Responses!LastUnit
<1>5. CASE closed' = closed
  <2>1. Len(served') = Len(served) /\ wire' = wire /\ (~closed') = (~closed)
    BY <1>1, <1>5
  <2> QED BY <1>4, <2>1 DEF Responses!vars
<1>6. CASE closed' = TRUE /\ ~closed
  <2>1. Len(served') = Len(served) /\ wire' = wire /\ (~closed') = FALSE
    BY <1>1, <1>6
  <2> QED BY <1>4, <1>6, <2>1 DEF Responses!Close
<1>7. closed' = closed \/ (closed' = TRUE /\ ~closed)
  BY <1>2, <1>3
<1> QED BY <1>4, <1>5, <1>6, <1>7

\* The responses leave in the order of the requests, each whole before the next and
\* nothing twice, whatever the requests, the sizes of the sends and the moments at
\* which the WRITE_READY callback takes over from handle.
THEOREM ImplementsResponsesHolds == Spec => ImplementsResponses
<1>1. Init => OutLine /\ Responses!Init
  <2> SUFFICES ASSUME Init PROVE OutLine /\ Responses!Init
    OBVIOUS
  <2>1. Responses!LastUnit(wire) = <<0, 0>> /\ Len(outbuf) = 0 /\ Len(served) = 0
    BY DEF Init, Responses!LastUnit
  <2>2. InOrder(outbuf, 0, 0, 0)
    BY <2>1 DEF InOrder, Due
  <2> QED BY <2>1, <2>2 DEF OutLine, Init, Responses!Init
<1>2. IInv /\ OutLine /\ [Next]_vars => OutLine' /\ [Responses!Next]_(Responses!vars)
  <2> SUFFICES ASSUME IInv, OutLine, [Next]_vars
               PROVE  OutLine' /\ (Responses!Next \/ UNCHANGED Responses!vars)
    OBVIOUS
  <2>1. CASE SendSome
    BY <2>1, SendSomeLine, SendSomeEmits DEF Responses!Next
  <2>2. CASE ReadContent
    BY <2>2, ReadContentServes DEF Responses!Next
  <2>3. CASE ~SendSome /\ ~ReadContent
    BY <2>3, OthersCloseOrStutter DEF Responses!Next
  <2> QED BY <2>1, <2>2, <2>3
<1> QED BY <1>1, <1>2, Invariance, PTL DEF Spec, ImplementsResponses, Responses!Spec
=============================================================================
