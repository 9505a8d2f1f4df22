---------------------------- MODULE ProtocolProofs ---------------------------
(***************************************************************************)
(* Proofs about the readers of the protocols beyond HTTP/1.1: WebSocket    *)
(* frames (module WebSocket) and HTTP/2 streams (module Http2Stream).      *)
(***************************************************************************)
EXTENDS Protocols, TLAPS

(***************************************************************************)
(* WebSocket, for any frames, any number of them, any thresholds of the    *)
(* length encoding and either readFrom.                                    *)
(***************************************************************************)
SentFrame == [op : 0 .. 15, fin : BOOLEAN, mask : BOOLEAN, len : Nat, end : Nat]
Message   == [field : {"text", "binary"}, frames : Seq(Nat), handed : BOOLEAN]

\* The types of the state
TypeOK ==
    /\ sent \in Seq(SentFrame)
    /\ arrived \in Nat /\ consumed \in Nat
    /\ parsed \in Nat /\ parsed <= Len(sent)
    /\ lastOpCode \in Ops /\ entries \subseteq Ops
    /\ dataframes \in [Ops -> Seq(Nat)]
    /\ completed \in Seq(Message)

\* The frames lie one behind the other, and only bytes of theirs are read.
Stream ==
    /\ \A i \in 1 .. Len(sent) : sent[i].end = Offset(i - 1) + Bytes(sent[i])
    /\ arrived <= Offset(Len(sent))

\* Only frames that were cut off are collected or handed over.
Members ==
    /\ \A o \in Ops : \A n \in 1 .. Len(dataframes[o]) : dataframes[o][n] \in 1 .. parsed
    /\ \A j \in 1 .. Len(completed) : \A n \in 1 .. Len(completed[j].frames) :
         completed[j].frames[n] \in 1 .. parsed

\* What is collected for opcode o is the message whose last frame so far was cut
\* off last, and nothing else is collected.  lastOpCode still names o, unless
\* nextFrame threw on a frame that will break the order.
Collects(o) ==
    /\ Run(dataframes[o]) /\ LastOf(dataframes[o]) = parsed
    /\ sent[dataframes[o][1]].op = o
    /\ \A p \in Ops : p # o => dataframes[p] = <<>>
    /\ \A j \in 1 .. Len(completed) : LastOf(completed[j].frames) < dataframes[o][1]
    /\ lastOpCode = o \/ (parsed < Len(sent) /\ sent[parsed + 1].op # 0)

\* On an orderly stream the entries of dataframes are empty between messages and
\* hold the one message that has begun within it.
Collected ==
    Orderly => IF Unfinished(parsed) THEN \E o \in {1, 2} : Collects(o)
                                     ELSE \A o \in Ops : dataframes[o] = <<>>

\* A frame with a payload that waits has made the entry it waits in.
HasEntry ==
    \A o \in Ops : \A n \in 1 .. Len(dataframes[o]) :
        sent[dataframes[o][n]].len = 0 \/ o \in entries

Inv == TypeOK /\ Stream /\ Members /\ Collected /\ HasEntry /\ MessagesExact
IInv == WebSocketAssumption /\ Inv

-----------------------------------------------------------------------------
LEMMA InitImplies == WebSocketAssumption /\ Init => IInv
<1> SUFFICES ASSUME WebSocketAssumption, Init PROVE Inv
  BY DEF IInv
<1>1. TypeOK
  BY DEF Init, TypeOK, Ops
<1>2. Stream /\ Members
  BY DEF Init, Stream, Members, Offset, Ops
<1>3. Collected
  BY DEF Init, Collected, Unfinished
<1>4. /\ CutAtBoundary /\ NoPayloadLost /\ ReassemblyExact
      /\ HasEntry /\ PayloadHanded
  BY DEF Init, CutAtBoundary, Offset, NoPayloadLost, ReassemblyExact, HasEntry, PayloadHanded
<1> QED BY <1>1, <1>2, <1>3, <1>4 DEF Inv, MessagesExact

\* A frame takes at least two bytes.
LEMMA BytesType ==
    ASSUME WebSocketAssumption, NEW g, g.len \in Nat, g.mask \in BOOLEAN
    PROVE  Bytes(g) \in Nat /\ Bytes(g) >= 2 /\ Head2(g) \in Nat
  BY DEF WebSocketAssumption, Bytes, Head2

LEMMA SentAt ==
    ASSUME IInv, NEW i \in 1 .. Len(sent)
    PROVE  /\ sent[i].op \in 0 .. 15 /\ sent[i].fin \in BOOLEAN /\ sent[i].mask \in BOOLEAN
           /\ sent[i].len \in Nat /\ sent[i].end \in Nat
<1>1. sent[i] \in SentFrame
  BY DEF IInv, Inv, TypeOK
<1> QED BY <1>1 DEF SentFrame

LEMMA OffsetType ==
    ASSUME IInv, NEW n \in 0 .. Len(sent) PROVE Offset(n) \in Nat
<1>1. CASE n = 0
  BY <1>1 DEF Offset
<1>2. CASE n # 0
  <2>1. n \in 1 .. Len(sent)
    BY <1>2 DEF IInv, Inv, TypeOK
  <2> QED BY <1>2, <2>1, SentAt DEF Offset
<1> QED BY <1>1, <1>2

\* What is collected or handed over are sequences of numbers of frames cut off.
LEMMA Entries ==
    ASSUME IInv
    PROVE  /\ Len(sent) \in Nat /\ parsed \in Nat /\ parsed <= Len(sent)
           /\ Len(completed) \in Nat
           /\ \A o \in Ops : dataframes[o] \in Seq(Nat) /\ Len(dataframes[o]) \in Nat
           /\ \A j \in 1 .. Len(completed) :
                completed[j].frames \in Seq(Nat) /\ Len(completed[j].frames) \in Nat
<1>1. \A j \in 1 .. Len(completed) : completed[j] \in Message
  BY DEF IInv, Inv, TypeOK
<1>2. \A j \in 1 .. Len(completed) : completed[j].frames \in Seq(Nat)
  BY <1>1 DEF Message
<1>3. Len(sent) \in Nat /\ parsed \in Nat /\ parsed <= Len(sent) /\ Len(completed) \in Nat
  BY DEF IInv, Inv, TypeOK
<1>4. \A o \in Ops : dataframes[o] \in Seq(Nat)
  BY DEF IInv, Inv, TypeOK
<1>5. \A q \in Seq(Nat) : Len(q) \in Nat
  OBVIOUS
<1> QED BY <1>2, <1>3, <1>4, <1>5

-----------------------------------------------------------------------------
(* The peer and the network *)

\* Sending a frame changes nothing about those before it.
LEMMA SendKeeps ==
    ASSUME IInv, NEW g \in Kinds, Send(g) PROVE IInv'
<1> DEFINE new == [op |-> g.op, fin |-> g.fin, mask |-> g.mask, len |-> g.len,
                   end |-> Offset(Len(sent)) + Bytes(g)]
<1>0. /\ WebSocketAssumption /\ TypeOK /\ Stream /\ Members /\ Collected
      /\ CutAtBoundary /\ NoPayloadLost /\ ReassemblyExact
      /\ HasEntry /\ PayloadHanded
      /\ Len(sent) \in Nat /\ parsed \in Nat /\ parsed <= Len(sent)
  BY Entries DEF IInv, Inv, MessagesExact
<1>1. /\ g.op \in 0 .. 15 /\ g.fin \in BOOLEAN /\ g.mask \in BOOLEAN /\ g.len \in Nat
      /\ Bytes(g) \in Nat /\ Offset(Len(sent)) \in Nat
  <2>1. /\ g.op \in 0 .. 15 /\ g.fin \in BOOLEAN /\ g.mask \in BOOLEAN /\ g.len \in Nat
    BY <1>0 DEF WebSocketAssumption
  <2> QED BY <1>0, <2>1, BytesType, OffsetType
<1>2. new \in SentFrame /\ Bytes(new) = Bytes(g) /\ new.end = Offset(Len(sent)) + Bytes(g)
  BY <1>1 DEF SentFrame, Bytes, Head2
<1>3. sent' = Append(sent, new)
  BY DEF Send
<1> HIDE DEF new
<1>4. /\ Len(sent') = Len(sent) + 1 /\ sent' \in Seq(SentFrame) /\ sent'[Len(sent) + 1] = new
      /\ \A i \in 1 .. Len(sent) : sent'[i] = sent[i]
  BY <1>0, <1>2, <1>3 DEF TypeOK
<1>5. UNCHANGED <<arrived, consumed, parsed, lastOpCode, entries, dataframes, completed>>
  BY DEF Send
<1>a. \A i \in 1 .. parsed : i \in 1 .. Len(sent) /\ sent'[i] = sent[i]
  BY <1>0, <1>4
<1>6. TypeOK'
  BY <1>0, <1>4, <1>5 DEF TypeOK
<1>7. \A n \in 0 .. Len(sent) : Offset(n)' = Offset(n)
  BY <1>0, <1>4 DEF Offset
<1>8. Stream' /\ CutAtBoundary'
  <2>1. ASSUME NEW i \in 1 .. Len(sent)
        PROVE  (sent[i].end = Offset(i - 1) + Bytes(sent[i]))'
    <3>1. i - 1 \in 0 .. Len(sent) /\ sent'[i] = sent[i]
      BY <1>0, <1>4
    <3>2. sent[i].end = Offset(i - 1) + Bytes(sent[i])
      BY <1>0 DEF Stream
    <3>3. Offset(i - 1)' = Offset(i - 1)
      BY <1>7, <3>1
    <3> QED BY <3>1, <3>2, <3>3 DEF Bytes, Head2
  <2>2. ASSUME NEW i \in 1 .. Len(sent'), i = Len(sent) + 1
        PROVE  (sent[i].end = Offset(i - 1) + Bytes(sent[i]))'
    <3>1. i - 1 = Len(sent) /\ sent'[i] = new
      BY <1>0, <1>4, <2>2
    <3>2. Offset(i - 1)' = Offset(Len(sent))
      BY <1>0, <1>7, <3>1
    <3> QED BY <1>2, <3>1, <3>2 DEF Bytes, Head2
  <2>3. Offset(Len(sent))' = Offset(Len(sent)) + Bytes(g)
    BY <1>0, <1>2, <1>4 DEF Offset
  <2>4. arrived' <= Offset(Len(sent))'
    BY <1>0, <1>1, <1>5, <2>3 DEF Stream, TypeOK
  <2>5. \A i \in 1 .. Len(sent') : i \in 1 .. Len(sent) \/ i = Len(sent) + 1
    BY <1>0, <1>4
  <2>6. Offset(parsed)' = Offset(parsed)
    BY <1>0, <1>5, <1>7
  <2> QED BY <1>0, <1>5, <2>1, <2>2, <2>4, <2>5, <2>6 DEF Stream, CutAtBoundary
<1>9. Members' /\ NoPayloadLost'
  <2>1. Members'
    BY <1>0, <1>5 DEF Members
  <2>2. \A i : Complete(i)' = Complete(i) /\ Waiting(i)' = Waiting(i)
    BY <1>5 DEF Complete, Waiting, Holds
  <2> QED BY <1>0, <1>5, <1>a, <2>1, <2>2 DEF NoPayloadLost
<1>10. (Orderly' <=> Orderly) /\ (Unfinished(parsed)' <=> Unfinished(parsed))
  <2>1. \A i \in 0 .. parsed : Unfinished(i)' <=> Unfinished(i)
    BY <1>0, <1>a DEF Unfinished
  <2>2. parsed' = parsed /\ parsed \in 0 .. parsed /\ \A i \in 1 .. parsed : i - 1 \in 0 .. parsed
    BY <1>0, <1>5
  <2> QED BY <1>a, <2>1, <2>2 DEF Orderly
<1>11. ASSUME NEW m \in Seq(Nat), \A n \in 1 .. Len(m) : m[n] \in 1 .. parsed
       PROVE  Run(m)' <=> Run(m)
  <2>1. \A n \in 1 .. Len(m) : sent'[m[n]] = sent[m[n]]
    BY <1>11, <1>a
  <2>2. m # <<>> => 1 \in 1 .. Len(m)
    OBVIOUS
  <2>3. /\ \A n \in 2 .. Len(m) : n \in 1 .. Len(m)
        /\ \A n \in 1 .. Len(m) - 1 : n \in 1 .. Len(m)
    OBVIOUS
  <2> QED BY <2>1, <2>2, <2>3 DEF Run
<1>12. Collected'
  <2>1. ASSUME NEW o \in {1, 2}, Collects(o) PROVE Collects(o)'
    <3>1. /\ dataframes[o] \in Seq(Nat)
          /\ \A n \in 1 .. Len(dataframes[o]) : dataframes[o][n] \in 1 .. parsed
      <4>1. o \in Ops
        BY DEF Ops
      <4> QED BY <1>0, <4>1, Entries DEF Members
    <3>2. Run(dataframes[o])'
      BY <1>5, <1>11, <2>1, <3>1 DEF Collects
    <3>3. sent'[dataframes[o][1]] = sent[dataframes[o][1]]
      <4>1. 1 \in 1 .. Len(dataframes[o])
        BY <2>1, <3>1 DEF Collects, Run
      <4> QED BY <1>a, <3>1, <4>1
    <3>4. parsed < Len(sent) => parsed < Len(sent') /\ sent'[parsed + 1] = sent[parsed + 1]
      BY <1>0, <1>4
    <3> QED BY <1>5, <2>1, <3>2, <3>3, <3>4 DEF Collects, LastOf
  <2>2. CASE Unfinished(parsed)
    BY <1>0, <1>10, <2>1, <2>2 DEF Collected
  <2>3. CASE ~Unfinished(parsed)
    BY <1>0, <1>5, <1>10, <2>3 DEF Collected
  <2> QED BY <2>2, <2>3
<1>13. ReassemblyExact'
  <2>1. ASSUME NEW j \in 1 .. Len(completed), Run(completed[j].frames)
        PROVE  /\ Run(completed[j].frames)'
               /\ sent'[completed[j].frames[1]] = sent[completed[j].frames[1]]
               /\ sent'[LastOf(completed[j].frames)] = sent[LastOf(completed[j].frames)]
    <3>1. /\ completed[j].frames \in Seq(Nat)
          /\ \A n \in 1 .. Len(completed[j].frames) : completed[j].frames[n] \in 1 .. parsed
      BY <1>0, Entries DEF Members
    <3>2. Run(completed[j].frames)'
      BY <1>5, <1>11, <2>1, <3>1
    <3>3. 1 \in 1 .. Len(completed[j].frames) /\ Len(completed[j].frames) \in 1 .. Len(completed[j].frames)
      BY <2>1, <3>1 DEF Run
    <3> QED BY <1>a, <3>1, <3>2, <3>3 DEF LastOf
  <2>2. SUFFICES ASSUME Orderly PROVE ReassemblyExact'
    BY <1>10 DEF ReassemblyExact
  <2>3. ASSUME NEW j \in 1 .. Len(completed)
        PROVE  Whole(completed[j])'
    BY <1>0, <1>5, <2>1, <2>2 DEF ReassemblyExact, Whole, LastOf
  <2>4. \A i \in 1 .. parsed : sent'[i].op \in Data /\ sent'[i].fin =>
             \E j \in 1 .. Len(completed) : LastOf(completed[j].frames) = i
    BY <1>0, <1>a, <2>2 DEF ReassemblyExact
  <2>5. \A j, k \in 1 .. Len(completed) :
             j < k => LastOf(completed[j].frames) < completed[k].frames[1]
    BY <1>0, <2>2 DEF ReassemblyExact
  <2> QED BY <1>5, <2>3, <2>4, <2>5 DEF ReassemblyExact, LastOf
<1>14. HasEntry' /\ PayloadHanded'
  <2>1. HasEntry'
    BY <1>0, <1>5, <1>a DEF HasEntry, Members
  <2>2. PayloadHanded'
    BY <1>0, <1>5, <1>a DEF PayloadHanded, Members
  <2> QED BY <2>1, <2>2
<1> QED BY <1>0, <1>6, <1>8, <1>9, <1>12, <1>13, <1>14
        DEF IInv, Inv, MessagesExact, WebSocketAssumption

LEMMA ReadFromKeeps ==
    ASSUME IInv, NEW n \in Nat, ReadFrom(n) PROVE IInv'
<1> USE DEF IInv, Inv
<1>1. /\ UNCHANGED <<sent, consumed, parsed, lastOpCode, entries, dataframes, completed>>
      /\ arrived' = arrived + n /\ arrived + n <= Offset(Len(sent))
  BY DEF ReadFrom
<1>2. TypeOK' /\ Stream' /\ CutAtBoundary'
  BY <1>1, OffsetType DEF TypeOK, Stream, Offset, CutAtBoundary, MessagesExact
<1>3. Members' /\ NoPayloadLost' /\ ReassemblyExact'
  BY <1>1 DEF Members, NoPayloadLost, Complete, Waiting, ReassemblyExact, Orderly, Unfinished,
              Run, Whole, MessagesExact
<1>4. Collected'
  BY <1>1 DEF Collected, Collects, Orderly, Unfinished, Run
<1>5. HasEntry' /\ PayloadHanded'
  BY <1>1 DEF HasEntry, PayloadHanded, MessagesExact
<1> QED BY <1>2, <1>3, <1>4, <1>5 DEF MessagesExact, WebSocketAssumption

-----------------------------------------------------------------------------
(* The reader *)

\* A throw changes lastOpCode only, and only when the frame is no continuation.
LEMMA ThrowKeeps ==
    ASSUME IInv, parsed < Len(sent), NextFrameThrows PROVE IInv'
<1>0. /\ WebSocketAssumption /\ TypeOK /\ Stream /\ Members /\ Collected
      /\ CutAtBoundary /\ NoPayloadLost /\ ReassemblyExact /\ HasEntry /\ PayloadHanded
  BY DEF IInv, Inv, MessagesExact
<1>1. /\ UNCHANGED <<sent, arrived, consumed, parsed, entries, dataframes, completed>>
      /\ lastOpCode' = LastOpCode
  BY DEF NextFrameThrows
<1>2. sent[parsed + 1].op \in 0 .. 15
  <2>1. parsed + 1 \in 1 .. Len(sent)
    BY Entries
  <2> QED BY <2>1, SentAt
<1>3. TypeOK'
  <2>1. lastOpCode \in Ops
    BY <1>0 DEF TypeOK
  <2>2. LastOpCode \in Ops
    BY <1>2, <2>1 DEF LastOpCode, Frame, Ops
  <2> QED BY <1>0, <1>1, <2>2 DEF TypeOK
<1>4. Stream' /\ Members' /\ CutAtBoundary'
  BY <1>0, <1>1 DEF Stream, Members, CutAtBoundary, Offset
<1>5. NoPayloadLost' /\ ReassemblyExact'
  BY <1>0, <1>1 DEF NoPayloadLost, Complete, Waiting, ReassemblyExact, Orderly, Unfinished,
                    Run, Whole
<1>6. \A o \in {1, 2} : Collects(o) => Collects(o)'
  BY <1>1 DEF Collects, Run, LastOpCode, Frame
<1>7. Collected'
  BY <1>0, <1>1, <1>6 DEF Collected, Orderly, Unfinished
<1>8. HasEntry' /\ PayloadHanded'
  BY <1>0, <1>1 DEF HasEntry, PayloadHanded
<1> QED BY <1>0, <1>3, <1>4, <1>5, <1>7, <1>8
        DEF IInv, Inv, MessagesExact, WebSocketAssumption

\* A frame that is cut off ends where the next one begins, and all of it has arrived.
LEMMA CutFacts ==
    ASSUME IInv, parsed < Len(sent), NextFrame, Cut
    PROVE  /\ parsed + 1 \in 1 .. Len(sent) /\ parsed' = parsed + 1
           /\ UNCHANGED <<sent, arrived>> /\ lastOpCode' = LastOpCode
           /\ lastOpCode' \in Ops /\ consumed' \in Nat
           /\ Stream' /\ CutAtBoundary'
           /\ Orderly' => Orderly /\ ((Frame.op = 0) <=> Unfinished(parsed))
<1>1. parsed + 1 \in 1 .. Len(sent) /\ parsed + 1 # 0 /\ parsed \in Nat
  BY Entries
<1>2. /\ parsed' = parsed + 1 /\ UNCHANGED <<sent, arrived>> /\ lastOpCode' = LastOpCode
      /\ consumed' = consumed + Bytes(Frame)
  BY DEF Cut
<1>3. Frame.op \in 0 .. 15 /\ Frame.len \in Nat /\ Frame.mask \in BOOLEAN
  BY <1>1, SentAt DEF Frame
<1>4. Bytes(Frame) \in Nat /\ Bytes(Frame) >= 2
  BY <1>3, BytesType DEF IInv
<1>5. lastOpCode' \in Ops
  <2>1. lastOpCode \in Ops
    BY DEF IInv, Inv, TypeOK
  <2> QED BY <1>2, <1>3, <2>1 DEF LastOpCode, Ops
<1>6. consumed = Offset(parsed) /\ consumed <= arrived /\ consumed \in Nat /\ arrived \in Nat
  BY DEF IInv, Inv, TypeOK, MessagesExact, CutAtBoundary
<1>7. Offset(parsed + 1) = Offset(parsed) + Bytes(Frame)
  <2>1. sent[parsed + 1].end = Offset((parsed + 1) - 1) + Bytes(sent[parsed + 1])
    BY <1>1 DEF IInv, Inv, Stream
  <2>2. (parsed + 1) - 1 = parsed
    BY <1>1
  <2>3. Offset(parsed + 1) = sent[parsed + 1].end
    BY <1>1 DEF Offset
  <2> QED BY <2>1, <2>2, <2>3 DEF Frame
<1>8. Buffered >= Bytes(Frame)
  BY DEF NextFrame
<1>9. consumed + Bytes(Frame) <= arrived
  BY <1>4, <1>6, <1>8 DEF Buffered
<1>10. Stream' /\ CutAtBoundary'
  <2>1. Offset(parsed)' = Offset(parsed + 1)
    BY <1>2 DEF Offset
  <2>2. CutAtBoundary'
    BY <1>2, <1>6, <1>7, <1>9, <2>1 DEF CutAtBoundary
  <2>3. Stream'
    BY <1>2 DEF IInv, Inv, Stream, Offset
  <2> QED BY <2>2, <2>3
<1>11. Orderly' => Orderly /\ ((Frame.op = 0) <=> Unfinished(parsed))
  <2>1. \A i : Unfinished(i)' <=> Unfinished(i)
    BY <1>2 DEF Unfinished
  <2>2. SUFFICES ASSUME \A i \in 1 .. parsed + 1 : (sent[i].op = 0) <=> Unfinished(i - 1)
                 PROVE  Orderly /\ ((Frame.op = 0) <=> Unfinished(parsed))
    BY <1>2, <2>1 DEF Orderly
  <2>3. Orderly
    BY <1>1, <2>2 DEF Orderly
  <2>4. (parsed + 1) - 1 = parsed /\ parsed + 1 \in 1 .. parsed + 1
    BY <1>1
  <2>5. (sent[parsed + 1].op = 0) <=> Unfinished((parsed + 1) - 1)
    BY <2>2, <2>4
  <2> QED BY <2>3, <2>4, <2>5 DEF Frame
<1> QED BY <1>1, <1>2, <1>4, <1>5, <1>6, <1>10, <1>11

\* A control frame or one of an unknown opcode: nothing is collected.
LEMMA QuietKeeps ==
    ASSUME IInv, parsed < Len(sent), CloseFrame \/ OtherFrame PROVE IInv'
<1>0. /\ WebSocketAssumption /\ TypeOK /\ Members /\ Collected
      /\ NoPayloadLost /\ ReassemblyExact /\ HasEntry /\ PayloadHanded
  BY DEF IInv, Inv, MessagesExact
<1>1. NextFrame /\ Cut /\ Frame.op \notin Data /\ UNCHANGED <<entries, dataframes, completed>>
  BY DEF CloseFrame, OtherFrame, Data
<1>2. /\ parsed + 1 \in 1 .. Len(sent) /\ parsed' = parsed + 1
      /\ UNCHANGED <<sent, arrived>> /\ Stream' /\ CutAtBoundary'
      /\ Orderly' => Orderly /\ ((Frame.op = 0) <=> Unfinished(parsed))
      /\ lastOpCode' \in Ops /\ consumed' \in Nat /\ parsed \in Nat
  BY <1>1, CutFacts, Entries
<1>3. \A i \in 1 .. parsed' : i \in 1 .. parsed \/ i = parsed + 1
  BY <1>2
<1>4. TypeOK'
  BY <1>0, <1>1, <1>2 DEF TypeOK
<1>5. Members'
  <2>1. \A i \in 1 .. parsed : i \in 1 .. parsed'
    BY <1>2
  <2> QED BY <1>0, <1>1, <2>1 DEF Members
<1>6. NoPayloadLost'
  <2>1. \A i : Complete(i)' = Complete(i) /\ Waiting(i)' = Waiting(i)
    BY <1>1 DEF Complete, Waiting, Holds
  <2> QED BY <1>0, <1>1, <1>2, <1>3, <2>1 DEF NoPayloadLost, Frame
<1>7. Collected'
  <2>1. ~Unfinished(parsed)'
    BY <1>1, <1>2 DEF Unfinished, Frame
  <2>2. Orderly' => ~Unfinished(parsed)
    BY <1>1, <1>2 DEF Data
  <2> QED BY <1>0, <1>1, <1>2, <2>1, <2>2 DEF Collected
<1>8. ReassemblyExact'
  <2>1. SUFFICES ASSUME Orderly PROVE ReassemblyExact'
    BY <1>2 DEF ReassemblyExact
  <2>2. \A j \in 1 .. Len(completed) : Whole(completed[j])'
    BY <1>0, <1>1, <1>2, <2>1 DEF ReassemblyExact, Whole, Run
  <2>3. \A i \in 1 .. parsed' : sent'[i].op \in Data /\ sent'[i].fin =>
             \E j \in 1 .. Len(completed) : LastOf(completed[j].frames) = i
    BY <1>0, <1>1, <1>2, <1>3, <2>1 DEF ReassemblyExact, Frame
  <2> QED BY <1>0, <1>1, <2>1, <2>2, <2>3 DEF ReassemblyExact
<1>9. HasEntry' /\ PayloadHanded'
  BY <1>0, <1>1, <1>2 DEF HasEntry, PayloadHanded
<1> QED BY <1>0, <1>2, <1>4, <1>5, <1>6, <1>7, <1>8, <1>9
        DEF IInv, Inv, MessagesExact, WebSocketAssumption

\* The entry of dataframes that a data frame belongs to, with that frame
All == Append(dataframes[Key], parsed + 1)

\* The frame is new to every entry and every message.
LEMMA AllFacts ==
    ASSUME IInv, parsed < Len(sent), Frame.op \in Data
    PROVE  /\ Key \in Ops /\ All \in Seq(Nat)
           /\ Len(All) = Len(dataframes[Key]) + 1 /\ All[Len(All)] = parsed + 1
           /\ \A n \in 1 .. Len(dataframes[Key]) : All[n] = dataframes[Key][n]
           /\ \A n \in 1 .. Len(All) : All[n] \in 1 .. parsed + 1
           /\ \A i : Holds(All, i) <=> Holds(dataframes[Key], i) \/ i = parsed + 1
           /\ ~Complete(parsed + 1) /\ ~Waiting(parsed + 1)
<1>1. Key \in Ops
  <2>1. lastOpCode \in Ops
    BY DEF IInv, Inv, TypeOK
  <2> QED BY <2>1 DEF Key, Ops, Data
<1>2. PICK q \in Seq(Nat) : q = dataframes[Key]
  BY <1>1, Entries
<1>3. parsed \in Nat /\ All = Append(q, parsed + 1)
  BY <1>2, Entries DEF All
<1>4. /\ All \in Seq(Nat) /\ Len(All) = Len(q) + 1 /\ All[Len(All)] = parsed + 1
      /\ \A n \in 1 .. Len(q) : All[n] = q[n]
  BY <1>3
<1>5. \A n \in 1 .. Len(q) : q[n] \in 1 .. parsed
  BY <1>1, <1>2 DEF IInv, Inv, Members
<1>6. \A n \in 1 .. Len(All) : n \in 1 .. Len(q) \/ n = Len(All)
  BY <1>4
<1>7. /\ Len(All) \in 1 .. Len(All) /\ \A n \in 1 .. Len(q) : n \in 1 .. Len(All)
      /\ parsed + 1 \in 1 .. parsed + 1 /\ \A i \in 1 .. parsed : i \in 1 .. parsed + 1
  BY <1>3, <1>4
<1>8. \A n \in 1 .. Len(All) : All[n] \in 1 .. parsed + 1
  BY <1>4, <1>5, <1>6, <1>7
<1>9. \A i : Holds(All, i) <=> Holds(q, i) \/ i = parsed + 1
  BY <1>4, <1>6, <1>7 DEF Holds
<1>10. parsed + 1 \notin 1 .. parsed
  BY <1>3
<1>11. ~Complete(parsed + 1) /\ ~Waiting(parsed + 1)
  BY <1>10 DEF Complete, Waiting, Holds, IInv, Inv, Members
<1> QED BY <1>1, <1>2, <1>4, <1>8, <1>9, <1>11

\* On an orderly stream the entry goes on with the message that has begun, or
\* begins with this frame.
LEMMA AllRuns ==
    ASSUME IInv, parsed < Len(sent), Frame.op \in Data, Orderly,
           (Frame.op = 0) <=> Unfinished(parsed)
    PROVE  /\ Run(All) /\ LastOf(All) = parsed + 1 /\ Key \in {1, 2} /\ sent[All[1]].op = Key
           /\ \A p \in Ops : p # Key => dataframes[p] = <<>>
           /\ \A j \in 1 .. Len(completed) : LastOf(completed[j].frames) < All[1]
           /\ LastOpCode = Key
<1>0. parsed \in Nat /\ parsed + 1 \in 1 .. Len(sent) /\ Collected /\ Members /\ ReassemblyExact
  BY Entries DEF IInv, Inv, MessagesExact
<1>1. CASE Frame.op = 0
  <2>1. PICK o \in {1, 2} : Collects(o)
    BY <1>0, <1>1 DEF Collected
  <2>2. lastOpCode = o /\ Key = o /\ LastOpCode = o
    BY <1>1, <2>1 DEF Collects, Frame, Key, LastOpCode
  <2>3. PICK q \in Seq(Nat) : q = dataframes[Key]
    BY AllFacts, Entries
  <2>4. /\ Run(q) /\ LastOf(q) = parsed /\ sent[q[1]].op = o
        /\ \A p \in Ops : p # o => dataframes[p] = <<>>
        /\ \A j \in 1 .. Len(completed) : LastOf(completed[j].frames) < q[1]
    BY <2>1, <2>2, <2>3 DEF Collects
  <2>5. /\ Len(All) = Len(q) + 1 /\ All[Len(All)] = parsed + 1 /\ Len(q) \in Nat
        /\ \A n \in 1 .. Len(q) : All[n] = q[n]
    BY <2>3, AllFacts
  <2>6. Len(q) > 0 /\ All[1] = q[1] /\ q[1] \in Nat /\ All # <<>>
    BY <2>4, <2>5 DEF Run
  <2>7. ASSUME NEW n \in 1 .. Len(All) PROVE All[n] = All[1] + n - 1
    <3>1. CASE n \in 1 .. Len(q)
      BY <2>4, <2>5, <2>6, <3>1 DEF Run
    <3>2. CASE n = Len(q) + 1
      <4>1. q[Len(q)] = q[1] + Len(q) - 1
        BY <2>4, <2>6 DEF Run
      <4> QED BY <1>0, <2>4, <2>5, <2>6, <3>2, <4>1 DEF LastOf
    <3> QED BY <2>5, <3>1, <3>2
  <2>8. ASSUME NEW n \in 2 .. Len(All) PROVE sent[All[n]].op = 0
    <3>1. CASE n \in 2 .. Len(q)
      BY <2>4, <2>5, <3>1 DEF Run
    <3>2. CASE n = Len(q) + 1
      BY <1>1, <2>5, <3>2 DEF Frame
    <3> QED BY <2>5, <3>1, <3>2
  <2>9. ASSUME NEW n \in 1 .. Len(All) - 1 PROVE ~sent[All[n]].fin
    <3>1. CASE n \in 1 .. Len(q) - 1
      <4>1. n \in 1 .. Len(q)
        BY <2>5, <3>1
      <4> QED BY <2>4, <2>5, <3>1, <4>1 DEF Run
    <3>2. CASE n = Len(q)
      BY <1>1, <2>4, <2>5, <2>6, <3>2 DEF Unfinished, LastOf
    <3> QED BY <2>5, <3>1, <3>2
  <2>10. Run(All)
    BY <2>4, <2>6, <2>7, <2>8, <2>9 DEF Run
  <2> QED BY <2>2, <2>4, <2>5, <2>6, <2>10 DEF LastOf
<1>2. CASE Frame.op # 0
  <2>1. \A o \in Ops : dataframes[o] = <<>>
    BY <1>0, <1>2 DEF Collected
  <2>2. Key = Frame.op /\ LastOpCode = Frame.op /\ Frame.op \in {1, 2}
    BY <1>2 DEF Key, LastOpCode, Data
  <2>3. Len(All) = 1 /\ All[1] = parsed + 1 /\ All # <<>>
    <3>1. dataframes[Key] = <<>> /\ All \in Seq(Nat)
      BY <2>1, AllFacts
    <3>2. Len(All) = 0 + 1
      BY <3>1, AllFacts
    <3>3. All[Len(All)] = parsed + 1
      BY AllFacts
    <3>4. Len(All) = 1
      BY <3>2
    <3>5. All # <<>>
      <4>1. Len(<<>>) = 0
        OBVIOUS
      <4> QED BY <3>4, <4>1
    <3> QED BY <3>3, <3>4, <3>5
  <2>4. Run(All)
    BY <1>0, <2>2, <2>3 DEF Run, Frame
  <2>5. ASSUME NEW j \in 1 .. Len(completed) PROVE LastOf(completed[j].frames) < All[1]
    <3>1. /\ completed[j].frames \in Seq(Nat) /\ Run(completed[j].frames)
          /\ \A n \in 1 .. Len(completed[j].frames) : completed[j].frames[n] \in 1 .. parsed
      BY <1>0, Entries DEF ReassemblyExact, Whole, Members
    <3>2. Len(completed[j].frames) \in 1 .. Len(completed[j].frames)
      BY <3>1 DEF Run
    <3> QED BY <1>0, <2>3, <3>1, <3>2 DEF LastOf
  <2> QED BY <2>1, <2>2, <2>3, <2>4, <2>5 DEF LastOf, Frame
<1> QED BY <1>1, <1>2

\* An entry is never removed, and a payload among these frames has made it.
LEMMA AllHasEntry ==
    ASSUME IInv, parsed < Len(sent), Frame.op \in Data
    PROVE  /\ entries \subseteq EntriesAfter /\ EntriesAfter \subseteq Ops
           /\ \A n \in 1 .. Len(All) : sent[All[n]].len = 0 \/ Key \in EntriesAfter
<1>1. PICK k \in Ops : k = Key
  BY AllFacts
<1>2. entries \subseteq EntriesAfter /\ EntriesAfter \subseteq Ops
  BY <1>1 DEF EntriesAfter, IInv, Inv, TypeOK
<1>3. Frame.len \in Nat /\ Frame = sent[parsed + 1]
  <2>1. parsed + 1 \in 1 .. Len(sent)
    BY Entries
  <2> QED BY <2>1, SentAt DEF Frame
<1>4. Frame.len = 0 \/ Key \in EntriesAfter
  BY <1>3 DEF EntriesAfter
<1>5. \A n \in 1 .. Len(dataframes[k]) : sent[dataframes[k][n]].len = 0 \/ k \in entries
  BY DEF IInv, Inv, HasEntry
<1>6. PICK z \in Nat : z = Len(dataframes[k])
  BY Entries
<1>7. \A n \in 1 .. Len(All) : n \in 1 .. z \/ n = Len(All)
  BY <1>1, <1>6, AllFacts
<1>8. /\ \A n \in 1 .. z : All[n] = dataframes[k][n]
      /\ All[Len(All)] = parsed + 1
  BY <1>1, <1>6, AllFacts
<1> QED BY <1>1, <1>2, <1>3, <1>4, <1>5, <1>6, <1>7, <1>8

\* A data frame that does not end its message: the entry grows.
LEMMA GatherKeeps ==
    ASSUME IInv, parsed < Len(sent), DataFrame, ~Frame.fin PROVE IInv'
<1>0. /\ WebSocketAssumption /\ TypeOK /\ Members /\ Collected
      /\ NoPayloadLost /\ ReassemblyExact /\ HasEntry /\ PayloadHanded
  BY DEF IInv, Inv, MessagesExact
<1>1. /\ NextFrame /\ Cut /\ Frame.op \in Data /\ completed' = completed
      /\ entries' = EntriesAfter
      /\ dataframes' = [dataframes EXCEPT ![Key] = All]
  BY DEF DataFrame, All
<1>2. /\ parsed + 1 \in 1 .. Len(sent) /\ parsed' = parsed + 1
      /\ UNCHANGED <<sent, arrived>> /\ Stream' /\ CutAtBoundary'
      /\ Orderly' => Orderly /\ ((Frame.op = 0) <=> Unfinished(parsed))
      /\ lastOpCode' = LastOpCode
      /\ lastOpCode' \in Ops /\ consumed' \in Nat /\ parsed \in Nat
  BY <1>1, CutFacts, Entries
<1>3. /\ Key \in Ops /\ All \in Seq(Nat)
      /\ \A n \in 1 .. Len(All) : All[n] \in 1 .. parsed + 1
      /\ \A i : Holds(All, i) <=> Holds(dataframes[Key], i) \/ i = parsed + 1
      /\ ~Complete(parsed + 1) /\ ~Waiting(parsed + 1)
  BY <1>1, AllFacts
<1>4. PICK k \in Ops : k = Key
  BY <1>3
<1>5. PICK all \in Seq(Nat) : all = All
  BY <1>3
<1>6. /\ dataframes' \in [Ops -> Seq(Nat)] /\ dataframes'[k] = all
      /\ \A o \in Ops : o # k => dataframes'[o] = dataframes[o]
  BY <1>0, <1>1, <1>4, <1>5 DEF TypeOK
<1>7. /\ \A i \in 1 .. parsed : i \in 1 .. parsed'
      /\ \A i \in 1 .. parsed' : i \in 1 .. parsed \/ i = parsed + 1
  BY <1>2
<1>8. TypeOK'
  BY <1>0, <1>1, <1>2, <1>6, AllHasEntry DEF TypeOK
<1>9. Members'
  BY <1>0, <1>1, <1>2, <1>3, <1>5, <1>6, <1>7 DEF Members
<1>10. NoPayloadLost'
  <2>1. \A o \in Ops : \A i :
          Holds(dataframes'[o], i) <=> Holds(dataframes[o], i) \/ (o = k /\ i = parsed + 1)
    BY <1>3, <1>4, <1>5, <1>6
  <2>2. \A i : Complete(i)' <=> Complete(i)
    BY <1>1 DEF Complete, Holds
  <2>3. \A i : Waiting(i)' <=> Waiting(i) \/ i = parsed + 1
    BY <1>4, <2>1 DEF Waiting
  <2>4. ASSUME NEW i \in 1 .. parsed', sent'[i].op \in Data
        PROVE  /\ Complete(i)' <=> ~Waiting(i)'
               /\ \A j, l \in 1 .. Len(completed) :
                    Holds(completed[j].frames, i) /\ Holds(completed[l].frames, i) => j = l
               /\ \A o, p \in Ops : Holds(dataframes'[o], i) /\ Holds(dataframes'[p], i) => o = p
    <3>1. CASE i = parsed + 1
      <4>1. Complete(i)' <=> ~Waiting(i)'
        BY <1>3, <2>2, <2>3, <3>1
      <4>2. /\ \A j \in 1 .. Len(completed) : ~Holds(completed[j].frames, i)
            /\ \A o \in Ops : ~Holds(dataframes[o], i)
        BY <1>3, <3>1 DEF Complete, Waiting
      <4> QED BY <2>1, <4>1, <4>2
    <3>2. CASE i # parsed + 1
      <4>1. i \in 1 .. parsed /\ sent[i].op \in Data
        BY <1>2, <1>7, <2>4, <3>2
      <4>2. /\ Complete(i) <=> ~Waiting(i)
            /\ \A j, l \in 1 .. Len(completed) :
                 Holds(completed[j].frames, i) /\ Holds(completed[l].frames, i) => j = l
            /\ \A o, p \in Ops : Holds(dataframes[o], i) /\ Holds(dataframes[p], i) => o = p
        BY <1>0, <4>1 DEF NoPayloadLost
      <4>3. Complete(i)' <=> ~Waiting(i)'
        BY <2>2, <2>3, <3>2, <4>2
      <4> QED BY <2>1, <3>2, <4>2, <4>3
    <3> QED BY <3>1, <3>2
  <2> QED BY <1>1, <2>4 DEF NoPayloadLost
<1>11. Collected'
  <2>1. SUFFICES ASSUME Orderly' PROVE \E o \in {1, 2} : Collects(o)'
    <3>1. Unfinished(parsed)'
      BY <1>1, <1>2 DEF Unfinished, Frame
    <3> QED BY <3>1 DEF Collected
  <2>2. /\ Run(all) /\ LastOf(all) = parsed + 1 /\ k \in {1, 2} /\ sent[all[1]].op = k
        /\ \A p \in Ops : p # k => dataframes[p] = <<>>
        /\ \A j \in 1 .. Len(completed) : LastOf(completed[j].frames) < all[1]
        /\ lastOpCode' = k
    BY <1>1, <1>2, <1>4, <1>5, <2>1, AllRuns
  <2>3. Collects(k)'
    BY <1>1, <1>2, <1>6, <2>2 DEF Collects, Run, LastOf
  <2> QED BY <2>2, <2>3
<1>12. ReassemblyExact'
  <2>1. SUFFICES ASSUME Orderly PROVE ReassemblyExact'
    BY <1>2 DEF ReassemblyExact
  <2>2. \A j \in 1 .. Len(completed) : Whole(completed[j])'
    BY <1>0, <1>1, <1>2, <2>1 DEF ReassemblyExact, Whole, Run
  <2>3. \A i \in 1 .. parsed' : sent'[i].op \in Data /\ sent'[i].fin =>
             \E j \in 1 .. Len(completed) : LastOf(completed[j].frames) = i
    BY <1>0, <1>2, <1>7, <2>1 DEF ReassemblyExact, Frame
  <2> QED BY <1>0, <1>1, <2>1, <2>2, <2>3 DEF ReassemblyExact
<1>13. HasEntry' /\ PayloadHanded'
  <2>1. HasEntry'
    BY <1>0, <1>1, <1>2, <1>4, <1>5, <1>6, AllHasEntry DEF HasEntry
  <2>2. PayloadHanded'
    BY <1>0, <1>1, <1>2 DEF PayloadHanded
  <2> QED BY <2>1, <2>2
<1> QED BY <1>0, <1>2, <1>8, <1>9, <1>10, <1>11, <1>12, <1>13
        DEF IInv, Inv, MessagesExact, WebSocketAssumption

\* A final frame: the entry becomes a message.
LEMMA DeliverKeeps ==
    ASSUME IInv, parsed < Len(sent), DataFrame, Frame.fin PROVE IInv'
<1>0. /\ WebSocketAssumption /\ TypeOK /\ Members /\ Collected
      /\ NoPayloadLost /\ ReassemblyExact /\ HasEntry /\ PayloadHanded
  BY DEF IInv, Inv, MessagesExact
<1>1. /\ NextFrame /\ Cut /\ Frame.op \in Data
      /\ dataframes' = [dataframes EXCEPT ![Key] = <<>>]
      /\ completed' = Append(completed,
           [field |-> IF Frame.op = 1 THEN "text" ELSE "binary", frames |-> All,
            handed |-> Key \in entries'])
      /\ entries' = EntriesAfter
  BY DEF DataFrame, All
<1>2. /\ parsed + 1 \in 1 .. Len(sent) /\ parsed' = parsed + 1
      /\ UNCHANGED <<sent, arrived>> /\ Stream' /\ CutAtBoundary'
      /\ Orderly' => Orderly /\ ((Frame.op = 0) <=> Unfinished(parsed))
      /\ lastOpCode' \in Ops /\ consumed' \in Nat /\ parsed \in Nat
  BY <1>1, CutFacts, Entries
<1>3. /\ Key \in Ops /\ All \in Seq(Nat)
      /\ \A n \in 1 .. Len(All) : All[n] \in 1 .. parsed + 1
      /\ \A i : Holds(All, i) <=> Holds(dataframes[Key], i) \/ i = parsed + 1
      /\ ~Complete(parsed + 1) /\ ~Waiting(parsed + 1)
  BY <1>1, AllFacts
<1>4. PICK k \in Ops : k = Key
  BY <1>3
<1>5. PICK all \in Seq(Nat) : all = All
  BY <1>3
<1>a. PICK field \in {"text", "binary"} : field = IF Frame.op = 1 THEN "text" ELSE "binary"
  OBVIOUS
<1>b. PICK given \in BOOLEAN : given <=> Key \in entries'
  <2>1. CASE Key \in entries'
    BY <2>1
  <2>2. CASE Key \notin entries'
    BY <2>2
  <2> QED BY <2>1, <2>2
<1>6. PICK d \in Message : d = [field |-> field, frames |-> all, handed |-> given]
  BY DEF Message
<1>7. /\ d.frames = all /\ d.field = IF Frame.op = 1 THEN "text" ELSE "binary"
      /\ d.handed = given
  BY <1>6, <1>a
<1>8. PICK z \in Nat : z = Len(completed)
  BY Entries
<1>9. /\ completed' \in Seq(Message) /\ Len(completed') = z + 1 /\ completed'[z + 1] = d
      /\ \A j \in 1 .. z : completed'[j] = completed[j] /\ j \in 1 .. Len(completed')
      /\ \A j \in 1 .. Len(completed') : j \in 1 .. z \/ j = z + 1
      /\ z + 1 \in 1 .. Len(completed') /\ z + 1 \notin 1 .. z
  <2>1. completed' = Append(completed, d)
    BY <1>1, <1>5, <1>6, <1>a, <1>b
  <2> QED BY <1>0, <1>8, <2>1, SMTT(30) DEF TypeOK
<1>10. /\ dataframes' \in [Ops -> Seq(Nat)] /\ dataframes'[k] = <<>>
       /\ \A o \in Ops : o # k => dataframes'[o] = dataframes[o]
  BY <1>0, <1>1, <1>4 DEF TypeOK
<1>11. /\ \A i \in 1 .. parsed : i \in 1 .. parsed'
       /\ \A i \in 1 .. parsed' : i \in 1 .. parsed \/ i = parsed + 1
  BY <1>2
<1>12. TypeOK'
  BY <1>0, <1>1, <1>2, <1>9, <1>10, AllHasEntry DEF TypeOK
<1>13. Members'
  <2>1. \A o \in Ops : \A n \in 1 .. Len(dataframes'[o]) : dataframes'[o][n] \in 1 .. parsed'
    <3>1. \A n \in 1 .. Len(dataframes'[k]) : FALSE
      BY <1>10
    <3> QED BY <1>0, <1>10, <1>11, <3>1 DEF Members
  <2>2. \A j \in 1 .. Len(completed') : \A n \in 1 .. Len(completed'[j].frames) :
          completed'[j].frames[n] \in 1 .. parsed'
    <3>1. \A n \in 1 .. Len(d.frames) : d.frames[n] \in 1 .. parsed'
      BY <1>2, <1>3, <1>5, <1>7
    <3>2. ASSUME NEW j \in 1 .. z, NEW n \in 1 .. Len(completed[j].frames)
          PROVE  completed[j].frames[n] \in 1 .. parsed'
      <4>1. completed[j].frames[n] \in 1 .. parsed
        BY <1>0, <1>8 DEF Members
      <4> QED BY <1>11, <4>1
    <3>3. ASSUME NEW j \in 1 .. Len(completed')
          PROVE  \A n \in 1 .. Len(completed'[j].frames) :
                   completed'[j].frames[n] \in 1 .. parsed'
      <4>1. CASE j \in 1 .. z
        BY <1>9, <3>2, <4>1
      <4>2. CASE j = z + 1
        BY <1>9, <3>1, <4>2
      <4> QED BY <1>9, <4>1, <4>2
    <3> QED BY <3>3
  <2> QED BY <2>1, <2>2 DEF Members
<1>14. NoPayloadLost'
  <2>1. \A o \in Ops : \A i : Holds(dataframes'[o], i) <=> o # k /\ Holds(dataframes[o], i)
    <3>1. \A i : ~Holds(dataframes'[k], i)
      BY <1>10 DEF Holds
    <3> QED BY <1>10, <3>1
  <2>2. \A j \in 1 .. Len(completed') : \A i : Holds(completed'[j].frames, i) <=>
          \/ j \in 1 .. z /\ Holds(completed[j].frames, i)
          \/ j = z + 1 /\ (Holds(dataframes[k], i) \/ i = parsed + 1)
    BY <1>3, <1>4, <1>5, <1>7, <1>9
  <2>3. \A i : Complete(i)' <=> Complete(i) \/ Holds(dataframes[k], i) \/ i = parsed + 1
    BY <1>8, <1>9, <2>2 DEF Complete
  <2>4. \A i : Waiting(i)' <=> \E o \in Ops : o # k /\ Holds(dataframes[o], i)
    BY <2>1 DEF Waiting
  <2>5. ASSUME NEW i \in 1 .. parsed', sent'[i].op \in Data
        PROVE  /\ Complete(i)' <=> ~Waiting(i)'
               /\ \A j, l \in 1 .. Len(completed') :
                    Holds(completed'[j].frames, i) /\ Holds(completed'[l].frames, i) => j = l
               /\ \A o, p \in Ops : Holds(dataframes'[o], i) /\ Holds(dataframes'[p], i) => o = p
    <3>1. CASE i = parsed + 1
      <4>1. /\ \A j \in 1 .. z : ~Holds(completed[j].frames, i)
            /\ \A o \in Ops : ~Holds(dataframes[o], i)
        BY <1>3, <1>8, <3>1 DEF Complete, Waiting
      <4>2. Complete(i)' /\ ~Waiting(i)'
        BY <2>3, <2>4, <3>1, <4>1
      <4>3. Complete(i)' <=> ~Waiting(i)'
        BY <4>2
      <4> QED BY <1>9, <2>1, <2>2, <4>1, <4>3
    <3>2. CASE i # parsed + 1
      <4>1. i \in 1 .. parsed /\ sent[i].op \in Data
        BY <1>2, <1>11, <2>5, <3>2
      <4>2. /\ Complete(i) <=> ~Waiting(i)
            /\ \A j, l \in 1 .. z :
                 Holds(completed[j].frames, i) /\ Holds(completed[l].frames, i) => j = l
            /\ \A o, p \in Ops : Holds(dataframes[o], i) /\ Holds(dataframes[p], i) => o = p
        BY <1>0, <1>8, <4>1 DEF NoPayloadLost
      <4>3. Waiting(i) <=> \E o \in Ops : Holds(dataframes[o], i)
        BY DEF Waiting
      <4>4. Complete(i) <=> \E j \in 1 .. z : Holds(completed[j].frames, i)
        BY <1>8 DEF Complete
      <4>5. CASE Holds(dataframes[k], i)
        <5>1. ~Complete(i) /\ \A o \in Ops : Holds(dataframes[o], i) => o = k
          BY <1>4, <4>2, <4>3, <4>5 DEF Complete
        <5>2. Complete(i)' /\ ~Waiting(i)'
          BY <2>3, <2>4, <4>5, <5>1
        <5>3. Complete(i)' <=> ~Waiting(i)'
          BY <5>2
        <5>4. \A j \in 1 .. Len(completed') : Holds(completed'[j].frames, i) => j = z + 1
          BY <2>2, <4>4, <5>1
        <5> QED BY <2>1, <4>2, <5>3, <5>4
      <4>6. CASE ~Holds(dataframes[k], i)
        <5>1. (Complete(i)' <=> Complete(i)) /\ (Waiting(i)' <=> Waiting(i))
          BY <2>3, <2>4, <3>2, <4>3, <4>6
        <5>2. Complete(i)' <=> ~Waiting(i)'
          BY <4>2, <5>1 DEF Complete, Waiting
        <5>3. \A j \in 1 .. Len(completed') : Holds(completed'[j].frames, i) =>
                 j \in 1 .. z /\ Holds(completed[j].frames, i)
          BY <2>2, <3>2, <4>6
        <5> QED BY <2>1, <4>2, <5>2, <5>3
      <4> QED BY <4>5, <4>6
    <3> QED BY <3>1, <3>2
  <2> QED BY <2>5 DEF NoPayloadLost
<1>15. ASSUME Orderly'
       PROVE  /\ Run(all) /\ LastOf(all) = parsed + 1 /\ k \in {1, 2} /\ sent[all[1]].op = k
              /\ \A p \in Ops : p # k => dataframes[p] = <<>>
              /\ \A j \in 1 .. z : LastOf(completed[j].frames) < all[1]
  BY <1>1, <1>2, <1>4, <1>5, <1>8, <1>15, AllRuns
<1>16. Collected'
  <2>1. ~Unfinished(parsed)'
    BY <1>2 DEF Unfinished, Frame
  <2>2. Orderly' => \A o \in Ops : dataframes'[o] = <<>>
    BY <1>10, <1>15
  <2> QED BY <2>1, <2>2 DEF Collected
<1>17. ReassemblyExact'
  <2>1. SUFFICES ASSUME Orderly' PROVE ReassemblyExact'
    BY DEF ReassemblyExact
  <2>2. \A j \in 1 .. z : Whole(completed[j])
    BY <1>0, <1>2, <1>8, <2>1 DEF ReassemblyExact
  <2>3. Whole(d)
    <3>1. sent[LastOf(d.frames)].fin
      BY <1>7, <1>15, <2>1 DEF Frame
    <3>2. Len(all) = 1 => all[1] = parsed + 1
      BY <1>15, <2>1 DEF LastOf
    <3> QED BY <1>7, <1>15, <2>1, <3>1, <3>2 DEF Whole, Frame
  <2>4. \A e : Whole(e)' <=> Whole(e)
    BY <1>2 DEF Whole, Run
  <2>5. \A j \in 1 .. Len(completed') : Whole(completed'[j])
    BY <1>9, <2>2, <2>3
  <2>6. \A j \in 1 .. Len(completed') : Whole(completed[j])'
    BY <1>2, <2>5 DEF Whole, Run
  <2>7. ASSUME NEW j \in 1 .. Len(completed'), NEW l \in 1 .. Len(completed'), j < l
        PROVE  LastOf(completed'[j].frames) < completed'[l].frames[1]
    <3>1. j \in 1 .. z
      BY <1>8, <1>9, <2>7
    <3>2. CASE l = z + 1
      BY <1>7, <1>9, <1>15, <2>1, <3>1, <3>2
    <3>3. CASE l \in 1 .. z
      BY <1>0, <1>2, <1>8, <1>9, <2>1, <2>7, <3>1, <3>3 DEF ReassemblyExact
    <3> QED BY <1>9, <3>2, <3>3
  <2>8. ASSUME NEW i \in 1 .. parsed', sent'[i].op \in Data, sent'[i].fin
        PROVE  \E j \in 1 .. Len(completed') : LastOf(completed'[j].frames) = i
    <3>1. CASE i = parsed + 1
      BY <1>7, <1>9, <1>15, <2>1, <3>1
    <3>2. CASE i \in 1 .. parsed
      <4>1. PICK j \in 1 .. z : LastOf(completed[j].frames) = i
        BY <1>0, <1>2, <1>8, <2>1, <2>8, <3>2 DEF ReassemblyExact
      <4> QED BY <1>9, <4>1
    <3> QED BY <1>11, <3>1, <3>2
  <2> QED BY <2>6, <2>7, <2>8 DEF ReassemblyExact, LastOf
<1>18. HasEntry'
  <2>1. \A n \in 1 .. Len(dataframes'[k]) : FALSE
    BY <1>10
  <2> QED BY <1>0, <1>1, <1>2, <1>10, <2>1, AllHasEntry DEF HasEntry
<1>19. PayloadHanded'
  <2>1. d.handed \/ \A n \in 1 .. Len(d.frames) : sent[d.frames[n]].len = 0
    BY <1>1, <1>5, <1>7, <1>b, AllHasEntry
  <2>2. ASSUME NEW j \in 1 .. Len(completed')
        PROVE  completed'[j].handed
                 \/ \A n \in 1 .. Len(completed'[j].frames) : sent[completed'[j].frames[n]].len = 0
    <3>1. CASE j \in 1 .. z
      BY <1>0, <1>8, <1>9, <3>1 DEF PayloadHanded
    <3>2. CASE j = z + 1
      BY <1>9, <2>1, <3>2
    <3> QED BY <1>9, <3>1, <3>2
  <2> QED BY <1>2, <2>2 DEF PayloadHanded
<1> QED BY <1>0, <1>2, <1>12, <1>13, <1>14, <1>16, <1>17, <1>18, <1>19
        DEF IInv, Inv, MessagesExact, WebSocketAssumption

LEMMA NextImplies == IInv /\ [Next]_vars => IInv'
<1> SUFFICES ASSUME IInv, [Next]_vars PROVE IInv'
  OBVIOUS
<1>1. ASSUME NEW g \in Kinds, Send(g) PROVE IInv'
  BY <1>1, SendKeeps
<1>2. ASSUME NEW n \in 1 .. Offset(Len(sent)) - arrived, ReadFrom(n) PROVE IInv'
  BY <1>2, ReadFromKeeps
<1>3. CASE ReadRequest
  BY <1>3, ThrowKeeps, QuietKeeps, GatherKeeps, DeliverKeeps DEF ReadRequest
<1>4. CASE UNCHANGED vars
  <2>0. WebSocketAssumption /\ TypeOK /\ Stream /\ Members /\ Collected /\ HasEntry /\ MessagesExact
    BY DEF IInv, Inv
  <2>1. WebSocketAssumption' /\ TypeOK' /\ Stream'
    BY <1>4, <2>0 DEF vars, WebSocketAssumption, TypeOK, Stream, Offset
  <2>2. Members'
    BY <1>4, <2>0 DEF vars, Members
  <2>3. Collected'
    BY <1>4, <2>0, SMTT(30) DEF vars, Collected, Collects, Orderly, Unfinished, Run, LastOf
  <2>4. CutAtBoundary' /\ NoPayloadLost'
    BY <1>4, <2>0 DEF vars, MessagesExact, CutAtBoundary, NoPayloadLost, Complete, Waiting, Offset
  <2>5. ReassemblyExact'
    BY <1>4, <2>0 DEF vars, MessagesExact, ReassemblyExact, Orderly, Unfinished, Run, Whole,
                       LastOf
  <2>6. HasEntry' /\ PayloadHanded'
    BY <1>4, <2>0 DEF vars, MessagesExact, HasEntry, PayloadHanded
  <2> QED BY <2>1, <2>2, <2>3, <2>4, <2>5, <2>6 DEF IInv, Inv, MessagesExact
<1> QED BY <1>1, <1>2, <1>3, <1>4 DEF Next

\* IInv holds in every reachable state of the reader.
THEOREM Inductive == WebSocketAssumption /\ Spec => []IInv
  BY InitImplies, NextImplies, PTL DEF Spec

\* The variables keep their types.
THEOREM TypeCorrect == WebSocketAssumption /\ Spec => []TypeOK
<1>1. IInv => TypeOK
  BY DEF IInv, Inv
<1> QED BY <1>1, Inductive, PTL

\* However the bytes are split between reads and wherever nextFrame throws,
\* frames are cut where they end, every data frame is in one message or one
\* entry, the messages of an orderly stream are put together whole, in order and
\* once each, and every message with a payload is handed over: for any frames,
\* any number of them and any length encoding.
THEOREM MessagesExactHolds == WebSocketAssumption /\ Spec => []MessagesExact
<1>1. IInv => MessagesExact
  BY DEF IInv, Inv
<1> QED BY <1>1, Inductive, PTL

-----------------------------------------------------------------------------
(***************************************************************************)
(* Http2Stream, for any streams, and any frames, however many.             *)
(***************************************************************************)
StreamTypes ==
    /\ buffer \in H2!Frames \cup {H2!NoFrame}
    /\ state \in [Streams -> {"Idle", "Open", "Half_Closed_R", "Closed"}]
    /\ isWebSocket \in [Streams -> BOOLEAN] /\ request \in [Streams -> BOOLEAN]
    /\ handed \in Seq(Streams)

\* A stream that has handed its request over no longer has it.  Together with
\* RequestPresent, a stream in a state in which it could hand one over has not.
HandedIsGone == \A i \in 1 .. Len(handed) : ~request[handed[i]]

StreamInv == H2!StreamAssumption /\ StreamTypes /\ HandedIsGone /\ H2!OneRequest

LEMMA StreamInit == H2!StreamAssumption /\ H2!Init => StreamInv
  BY DEF H2!StreamAssumption, H2!Init, StreamInv, StreamTypes, HandedIsGone, H2!OneRequest,
         H2!HandedOnce, H2!RequestPresent

\* Steps that hand nothing over keep the request with a stream that may.
LEMMA StreamQuiet ==
    ASSUME StreamInv, UNCHANGED <<request, handed>>,
           buffer' \in H2!Frames \cup {H2!NoFrame},
           state' \in [Streams -> {"Idle", "Open", "Half_Closed_R", "Closed"}],
           isWebSocket' = isWebSocket,
           \A t \in Streams : state'[t] \in {"Idle", "Open"} => state[t] \in {"Idle", "Open"}
    PROVE  StreamInv'
  BY DEF StreamInv, StreamTypes, HandedIsGone, H2!OneRequest, H2!HandedOnce,
         H2!RequestPresent, H2!StreamAssumption

\* A stream that still has its request hands it over, and can no longer do so.
LEMMA StreamHandsOver ==
    ASSUME StreamInv, H2!HandOver, buffer' = H2!NoFrame, H2!s \in Streams, request[H2!s],
           state' \in [Streams -> {"Idle", "Open", "Half_Closed_R", "Closed"}],
           isWebSocket' \in [Streams -> BOOLEAN],
           \A t \in Streams : t # H2!s => state'[t] = state[t] /\ isWebSocket'[t] = isWebSocket[t],
           state'[H2!s] = "Half_Closed_R" \/ isWebSocket'[H2!s]
    PROVE  StreamInv'
<1>0. PICK t \in Streams : t = H2!s
  OBVIOUS
<1>1. handed' = Append(handed, t) /\ request' = [request EXCEPT ![t] = FALSE]
  BY <1>0 DEF H2!HandOver, H2!Set
<1>2. PICK z \in Nat : z = Len(handed)
  BY DEF StreamInv, StreamTypes
<1>3. /\ handed' \in Seq(Streams) /\ Len(handed') = z + 1 /\ handed'[z + 1] = t
      /\ \A i \in 1 .. z : handed'[i] = handed[i] /\ handed[i] \in Streams
      /\ \A i \in 1 .. Len(handed') : i \in 1 .. z \/ i = z + 1
  BY <1>1, <1>2 DEF StreamInv, StreamTypes
<1>4. /\ request' \in [Streams -> BOOLEAN] /\ ~request'[t]
      /\ \A q \in Streams : q # t => request'[q] = request[q]
  BY <1>1 DEF StreamInv, StreamTypes
<1>5. \A i \in 1 .. z : ~request[handed[i]] /\ handed[i] # t
  BY <1>0, <1>2 DEF StreamInv, HandedIsGone
<1>6. StreamTypes'
  BY <1>3, <1>4 DEF StreamTypes
<1>7. HandedIsGone'
  BY <1>3, <1>4, <1>5 DEF HandedIsGone
<1>8. H2!HandedOnce'
  BY <1>2, <1>3, <1>5 DEF StreamInv, H2!OneRequest, H2!HandedOnce
<1>9. H2!RequestPresent'
  BY <1>0, <1>4 DEF StreamInv, H2!OneRequest, H2!RequestPresent
<1> QED BY <1>6, <1>7, <1>8, <1>9 DEF StreamInv, H2!OneRequest, H2!StreamAssumption

\* The frame at hand belongs to a stream, and nothing is left of it after its turn.
LEMMA TurnFacts ==
    ASSUME StreamInv, NEW type, H2!Turn(type)
    PROVE  H2!s \in Streams /\ buffer' = H2!NoFrame /\ buffer' \in H2!Frames \cup {H2!NoFrame}
  BY DEF StreamInv, StreamTypes, H2!StreamAssumption, H2!Turn, H2!s, H2!Frames, H2!NoFrame

LEMMA CloseKeeps ==
    ASSUME StreamInv, buffer' = H2!NoFrame, H2!CloseConnection PROVE StreamInv'
<1>1. UNCHANGED <<state, isWebSocket, request, handed>>
  BY DEF H2!CloseConnection, H2!stream
<1>2. state \in [Streams -> {"Idle", "Open", "Half_Closed_R", "Closed"}]
  BY DEF StreamInv, StreamTypes
<1> QED BY <1>1, <1>2, StreamQuiet

\* A header block of an ordinary stream that is complete
LEMMA BlockKeeps ==
    ASSUME StreamInv, buffer' = H2!NoFrame, H2!s \in Streams, ~isWebSocket[H2!s],
           state[H2!s] \in {"Idle", "Open"}, NEW eos,
           H2!UpgradeStream \/ (H2!HeadersEnd(eos) /\ UNCHANGED isWebSocket)
    PROVE  StreamInv'
<1>1. /\ state \in [Streams -> {"Idle", "Open", "Half_Closed_R", "Closed"}]
      /\ isWebSocket \in [Streams -> BOOLEAN]
  BY DEF StreamInv, StreamTypes
<1>2. request[H2!s]
  BY DEF StreamInv, H2!OneRequest, H2!RequestPresent
<1>3. CASE H2!UpgradeStream
  <2>1. /\ H2!HandOver /\ state' = [state EXCEPT ![H2!s] = "Open"]
        /\ isWebSocket' = [isWebSocket EXCEPT ![H2!s] = TRUE]
    BY <1>3 DEF H2!UpgradeStream, H2!Set
  <2>2. isWebSocket' \in [Streams -> BOOLEAN] /\ isWebSocket'[H2!s]
    BY <1>1, <2>1
  <2>3. /\ state' \in [Streams -> {"Idle", "Open", "Half_Closed_R", "Closed"}]
        /\ \A t \in Streams : t # H2!s => state'[t] = state[t] /\ isWebSocket'[t] = isWebSocket[t]
    BY <1>1, <2>1
  <2> QED BY <1>2, <2>1, <2>2, <2>3, StreamHandsOver
<1>4. CASE H2!HeadersEnd(eos) /\ UNCHANGED isWebSocket /\ eos
  <2>1. H2!HandOver /\ state' = [state EXCEPT ![H2!s] = "Half_Closed_R"]
    BY <1>4 DEF H2!HeadersEnd, H2!Set
  <2>2. /\ state' \in [Streams -> {"Idle", "Open", "Half_Closed_R", "Closed"}]
        /\ state'[H2!s] = "Half_Closed_R"
        /\ \A t \in Streams : t # H2!s => state'[t] = state[t] /\ isWebSocket'[t] = isWebSocket[t]
    BY <1>1, <1>4, <2>1
  <2>3. isWebSocket' \in [Streams -> BOOLEAN]
    BY <1>1, <1>4
  <2> QED BY <1>2, <2>1, <2>2, <2>3, StreamHandsOver
<1>5. CASE H2!HeadersEnd(eos) /\ UNCHANGED isWebSocket /\ ~eos
  <2>1. UNCHANGED <<request, handed>> /\ state' = [state EXCEPT ![H2!s] = "Open"]
    BY <1>5 DEF H2!HeadersEnd, H2!Set
  <2>2. /\ state' \in [Streams -> {"Idle", "Open", "Half_Closed_R", "Closed"}]
        /\ \A t \in Streams : state'[t] \in {"Idle", "Open"} => state[t] \in {"Idle", "Open"}
    BY <1>1, <2>1
  <2> QED BY <1>5, <2>1, <2>2, StreamQuiet
<1> QED BY <1>3, <1>4, <1>5

LEMMA HeadersKeep ==
    ASSUME StreamInv, H2!Headers \/ H2!Continuation PROVE StreamInv'
<1>1. H2!s \in Streams /\ buffer' = H2!NoFrame
  BY TurnFacts DEF H2!Headers, H2!Continuation
<1>2. CASE H2!CloseConnection
  BY <1>1, <1>2, CloseKeeps
<1>3. CASE /\ ~isWebSocket[H2!s] /\ state[H2!s] \in {"Idle", "Open"}
           /\ \/ H2!UpgradeStream
              \/ \E eos : H2!HeadersEnd(eos) /\ UNCHANGED isWebSocket
  BY <1>1, <1>3, BlockKeeps
<1>4. CASE /\ state[H2!s] \in {"Idle", "Open"} /\ UNCHANGED <<isWebSocket, handed, request>>
           /\ state' = state \/ state' = H2!Set(state, "Open")
  <2>1. state \in [Streams -> {"Idle", "Open", "Half_Closed_R", "Closed"}]
    BY DEF StreamInv, StreamTypes
  <2>2. /\ state' \in [Streams -> {"Idle", "Open", "Half_Closed_R", "Closed"}]
        /\ \A t \in Streams : state'[t] \in {"Idle", "Open"} => state[t] \in {"Idle", "Open"}
    BY <1>4, <2>1 DEF H2!Set
  <2> QED BY <1>1, <1>4, <2>2, StreamQuiet
<1>5. CASE H2!Headers
  BY <1>2, <1>3, <1>4, <1>5 DEF H2!Headers
<1>6. CASE H2!Continuation
  BY <1>2, <1>3, <1>4, <1>6 DEF H2!Continuation
<1> QED BY <1>5, <1>6

LEMMA DataKeeps == ASSUME StreamInv, H2!Data PROVE StreamInv'
<1>1. H2!s \in Streams /\ buffer' = H2!NoFrame
  BY TurnFacts DEF H2!Data
<1>2. /\ state \in [Streams -> {"Idle", "Open", "Half_Closed_R", "Closed"}]
      /\ isWebSocket \in [Streams -> BOOLEAN]
  BY DEF StreamInv, StreamTypes
<1>3. CASE H2!CloseConnection
  BY <1>1, <1>3, CloseKeeps
<1>4. CASE /\ state[H2!s] = "Open" /\ UNCHANGED isWebSocket /\ ~isWebSocket[H2!s]
           /\ state' = H2!Set(state, "Half_Closed_R") /\ H2!HandOver
  <2>1. request[H2!s]
    BY <1>1, <1>4 DEF StreamInv, H2!OneRequest, H2!RequestPresent
  <2>2. /\ state' \in [Streams -> {"Idle", "Open", "Half_Closed_R", "Closed"}]
        /\ state'[H2!s] = "Half_Closed_R"
        /\ \A t \in Streams : t # H2!s => state'[t] = state[t] /\ isWebSocket'[t] = isWebSocket[t]
    BY <1>1, <1>2, <1>4 DEF H2!Set
  <2>3. isWebSocket' \in [Streams -> BOOLEAN]
    BY <1>2, <1>4
  <2> QED BY <1>1, <1>4, <2>1, <2>2, <2>3, StreamHandsOver
<1>5. CASE UNCHANGED <<state, isWebSocket, handed, request>>
  BY <1>1, <1>2, <1>5, StreamQuiet
<1> QED BY <1>3, <1>4, <1>5 DEF H2!Data

LEMMA OthersKeep ==
    ASSUME StreamInv, H2!Reset \/ H2!SettingsOrPing \/ H2!GiveUp \/ H2!Noted PROVE StreamInv'
<1>1. H2!s \in Streams /\ buffer' = H2!NoFrame
  BY TurnFacts DEF H2!Reset, H2!SettingsOrPing, H2!GiveUp, H2!Noted
<1>2. state \in [Streams -> {"Idle", "Open", "Half_Closed_R", "Closed"}]
  BY DEF StreamInv, StreamTypes
<1>3. CASE H2!CloseConnection
  BY <1>1, <1>3, CloseKeeps
<1>4. CASE /\ UNCHANGED <<isWebSocket, handed, request>>
           /\ state' = state \/ state' = H2!Set(state, "Closed")
  <2>1. /\ state' \in [Streams -> {"Idle", "Open", "Half_Closed_R", "Closed"}]
        /\ \A t \in Streams : state'[t] \in {"Idle", "Open"} => state[t] \in {"Idle", "Open"}
    BY <1>1, <1>2, <1>4 DEF H2!Set
  <2> QED BY <1>1, <1>4, <2>1, StreamQuiet
<1> QED BY <1>3, <1>4 DEF H2!Reset, H2!SettingsOrPing, H2!Ack, H2!GiveUp, H2!Noted

LEMMA StreamNext == StreamInv /\ [H2!Next]_H2!vars => StreamInv'
<1> SUFFICES ASSUME StreamInv, [H2!Next]_H2!vars PROVE StreamInv'
  OBVIOUS
<1>1. ASSUME NEW g \in H2!Frames, H2!Arrive(g) PROVE StreamInv'
  <2>1. UNCHANGED <<state, isWebSocket, request, handed>> /\ buffer' = g
    BY <1>1 DEF H2!Arrive, H2!stream
  <2>2. state \in [Streams -> {"Idle", "Open", "Half_Closed_R", "Closed"}]
    BY DEF StreamInv, StreamTypes
  <2> QED BY <2>1, <2>2, StreamQuiet
<1>2. CASE H2!Handle
  BY <1>2, HeadersKeep, DataKeeps, OthersKeep DEF H2!Handle
<1>3. CASE UNCHANGED H2!vars
  <2>1. UNCHANGED <<buffer, state, isWebSocket, request, handed>>
    BY <1>3 DEF H2!vars, H2!stream
  <2>2. /\ state \in [Streams -> {"Idle", "Open", "Half_Closed_R", "Closed"}]
        /\ buffer \in H2!Frames \cup {H2!NoFrame}
    BY DEF StreamInv, StreamTypes
  <2> QED BY <2>1, <2>2, StreamQuiet
<1> QED BY <1>1, <1>2, <1>3 DEF H2!Next

\* Whatever frames follow, a stream hands over one request, and handle never
\* takes headers or data for a request it has given away: for any streams and
\* any sequence of frames.
THEOREM OneRequestHolds == H2!StreamAssumption /\ H2!Spec => []OneRequest
<1>1. StreamInv => OneRequest
  BY DEF StreamInv, OneRequest
<1> QED BY <1>1, StreamInit, StreamNext, PTL DEF H2!Spec
=============================================================================
