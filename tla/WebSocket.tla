------------------------------ MODULE WebSocket -----------------------------
(***************************************************************************)
(* Http11WebSocketHandler: frames are cut out of the byte stream           *)
(* (nextFrame), put together into messages by opcode (processFrame) and    *)
(* handed to onMessage.  The bytes are those of the frames in sent; how    *)
(* many of them a read returns is up to the network.                       *)
(*                                                                         *)
(* After the upgrade two sockets exist for the descriptor: the             *)
(* Http11Handler and, as its handler, the Http11WebSocketHandler, each     *)
(* with a buffer.  Direct says which readFrom runs: TRUE for the one of    *)
(* Http11Handler, which passes the call on to its handler; FALSE for the   *)
(* one HttpReadTask calls through a SocketInterface*, where readFrom is    *)
(* not virtual and fills the buffer of the Http11Handler itself.           *)
(***************************************************************************)
EXTENDS Integers, Sequences

CONSTANTS
    Kinds,          \* the frames a peer sends: [op, fin, mask, len]
    MaxFrames,      \* bound: frames sent
    Small, Mid,     \* the 125 and 65535 of the length encoding
    Direct

WebSocketAssumption ==
    /\ Kinds \subseteq [op : 0 .. 15, fin : BOOLEAN, mask : BOOLEAN, len : Nat]
    /\ MaxFrames \in Nat /\ Small \in Nat /\ Mid \in Nat /\ Direct \in BOOLEAN

VARIABLES
    sent,           \* the frames sent, each with the number of bytes up to its end
    arrived,        \* bytes read from the socket
    consumed,       \* bytes cut off the front of the handler's buffer
    parsed,         \* frames cut off
    lastOpCode,
    entries,        \* the opcodes that have an entry in the map dataframes
    dataframes,     \* dataframes[op]: numbers of the frames collected for op
    completed,      \* the messages whose last frame was processed: [field, frames,
                    \* handed], handed when onMessage was given it
    closed

vars == <<sent, arrived, consumed, parsed, lastOpCode, entries, dataframes, completed,
          closed>>

Ops == -1 .. 15
Data == {0, 1, 2}

Init ==
    /\ sent = <<>> /\ completed = <<>>
    /\ arrived = 0 /\ consumed = 0 /\ parsed = 0
    /\ lastOpCode = -1 /\ entries = {}
    /\ dataframes = [o \in Ops |-> <<>>]
    /\ closed = FALSE

\* The two length bytes and their extension, without the masking key
Head2(f) == 2 + (IF f.len <= Small THEN 0 ELSE IF f.len < Mid THEN 2 ELSE 8)
Bytes(f) == Head2(f) + (IF f.mask THEN 4 ELSE 0) + f.len
Offset(n) == IF n = 0 THEN 0 ELSE sent[n].end

-----------------------------------------------------------------------------

Send(f) ==
    /\ Len(sent) < MaxFrames /\ ~closed
    /\ sent' = Append(sent, [op |-> f.op, fin |-> f.fin, mask |-> f.mask, len |-> f.len,
                             end |-> Offset(Len(sent)) + Bytes(f)])
    /\ UNCHANGED <<arrived, consumed, parsed, lastOpCode, entries, dataframes, completed,
                   closed>>

\* readFrom: n bytes for the buffer.
ReadFrom(n) ==
    /\ ~closed /\ arrived + n <= Offset(Len(sent))
    /\ arrived' = arrived + n
    /\ UNCHANGED <<sent, consumed, parsed, lastOpCode, entries, dataframes, completed, closed>>

Buffered == IF Direct THEN arrived - consumed ELSE 0
Frame    == sent[parsed + 1]

HeaderRead ==
    /\ Buffered >= 2
    /\ Frame.len > Small => Buffered > Head2(Frame)

LastOpCode == IF Frame.op # 0 THEN Frame.op ELSE lastOpCode

\* nextFrame returns true: the whole frame is in the buffer.
NextFrame == HeaderRead /\ Buffered >= Bytes(Frame)

\* The second half of nextFrame's condition lets a masked frame through whose
\* last bytes are missing; buffer.substr then throws and the read task ends.
\* Only lastOpCode has changed.
NextFrameThrows ==
    /\ ~closed /\ HeaderRead /\ Frame.mask
    /\ Buffered >= Head2(Frame) + Frame.len /\ Buffered < Bytes(Frame)
    /\ lastOpCode' = LastOpCode
    /\ UNCHANGED <<sent, arrived, consumed, parsed, entries, dataframes, completed, closed>>

\* The frame is cut off the buffer.
Cut ==
    /\ parsed' = parsed + 1
    /\ consumed' = consumed + Bytes(Frame)
    /\ lastOpCode' = LastOpCode
    /\ UNCHANGED <<sent, arrived>>

\* processFrame, opcode 8: readRequest closes the socket.
CloseFrame ==
    /\ ~closed /\ NextFrame /\ Frame.op = 8
    /\ Cut
    /\ closed' = TRUE
    /\ UNCHANGED <<entries, dataframes, completed>>

\* Opcodes 9 and 10, and those it does not know: nothing is answered.
OtherFrame ==
    /\ ~closed /\ NextFrame /\ Frame.op \notin Data \cup {8}
    /\ Cut
    /\ UNCHANGED <<entries, dataframes, completed, closed>>

\* Mutant: a continuation is collected under opcode 0.
KeyZero == Frame.op

Key == IF Frame.op = 0 THEN lastOpCode ELSE Frame.op

\* The loop over the payload makes the entry of the map with its first byte, and
\* clear() leaves it there.
EntriesAfter == entries \cup (IF Frame.len > 0 THEN {Key} ELSE {})

\* Opcodes 0, 1 and 2.  A frame with fin completes its entry of dataframes, which
\* is handed over in the same call: no other entry can be complete.  Without an
\* entry nothing is handed over.  Only the opcode of the last frame decides
\* between textData and binaryData.
DataFrame ==
    /\ ~closed /\ NextFrame /\ Frame.op \in Data
    /\ Cut
    /\ entries' = EntriesAfter
    /\ LET all == Append(dataframes[Key], parsed + 1)
       IN  IF Frame.fin
           THEN /\ dataframes' = [dataframes EXCEPT ![Key] = <<>>]
                /\ completed' = Append(completed,
                     [field |-> IF Frame.op = 1 THEN "text" ELSE "binary", frames |-> all,
                      handed |-> Key \in entries'])
           ELSE /\ dataframes' = [dataframes EXCEPT ![Key] = all]
                /\ UNCHANGED completed
    /\ UNCHANGED closed

ReadRequest == parsed < Len(sent) /\ (NextFrameThrows \/ CloseFrame \/ OtherFrame \/ DataFrame)

Next ==
    \/ \E f \in Kinds : Send(f)
    \/ \E n \in 1 .. Offset(Len(sent)) - arrived : ReadFrom(n)
    \/ ReadRequest

Spec == Init /\ [][Next]_vars

-----------------------------------------------------------------------------
(* Properties *)

\* Frames are cut exactly where they end, however the bytes were split between
\* reads and whether or not nextFrame threw in between.
CutAtBoundary == consumed = Offset(parsed) /\ consumed <= arrived

Holds(m, i) == \E n \in 1 .. Len(m) : m[n] = i

Complete(i) == \E j \in 1 .. Len(completed) : Holds(completed[j].frames, i)
Waiting(i)  == \E o \in Ops : Holds(dataframes[o], i)

\* Every data frame is in exactly one place: in one message that is complete, or
\* in what waits for more.
NoPayloadLost ==
    \A i \in 1 .. parsed : sent[i].op \in Data =>
        /\ Complete(i) <=> ~Waiting(i)
        /\ \A j, k \in 1 .. Len(completed) :
             Holds(completed[j].frames, i) /\ Holds(completed[k].frames, i) => j = k
        /\ \A o, p \in Ops : Holds(dataframes[o], i) /\ Holds(dataframes[p], i) => o = p

\* The stream so far begins every message with opcode 1 or 2, continues it with
\* 0 and sends no control frame before the message is over.
Unfinished(i) == i > 0 /\ sent[i].op \in Data /\ ~sent[i].fin
Orderly       == \A i \in 1 .. parsed : (sent[i].op = 0) <=> Unfinished(i - 1)

\* A run of consecutive data frames of one message, from its first one on
Run(m) ==
    /\ m # <<>> /\ sent[m[1]].op \in {1, 2}
    /\ \A n \in 1 .. Len(m) : m[n] = m[1] + n - 1
    /\ \A n \in 2 .. Len(m) : sent[m[n]].op = 0
    /\ \A n \in 1 .. Len(m) - 1 : ~sent[m[n]].fin

LastOf(m) == m[Len(m)]

\* A whole message, in the field of its type if it came in a single frame
Whole(d) ==
    /\ Run(d.frames) /\ sent[LastOf(d.frames)].fin
    /\ Len(d.frames) = 1 =>
         d.field = (IF sent[d.frames[1]].op = 1 THEN "text" ELSE "binary")

\* On such a stream messages are put together whole, in order and once each, and
\* one that came in a single frame is in the field of its type.
ReassemblyExact ==
    Orderly =>
        /\ \A j \in 1 .. Len(completed) : Whole(completed[j])
        /\ \A j, k \in 1 .. Len(completed) :
             j < k => LastOf(completed[j].frames) < completed[k].frames[1]
        /\ \A i \in 1 .. parsed : sent[i].op \in Data /\ sent[i].fin =>
             \E j \in 1 .. Len(completed) : LastOf(completed[j].frames) = i

\* A message with a payload is handed over with its last frame.  One without is
\* dropped as long as no frame of its opcode has had any.
PayloadHanded ==
    \A j \in 1 .. Len(completed) :
        completed[j].handed
            \/ \A n \in 1 .. Len(completed[j].frames) : sent[completed[j].frames[n]].len = 0

\* However the bytes are split between reads and wherever nextFrame throws in
\* between, frames are cut where they end, no data frame is lost or used twice,
\* the messages of an orderly stream are put together whole and in order, and
\* every one of them with a payload is handed over.
MessagesExact == CutAtBoundary /\ NoPayloadLost /\ ReassemblyExact /\ PayloadHanded

\* The README's "Web Socket Support": a text message sent in one frame, with a
\* payload, to an open connection reaches onMessage.
MessagesArrive ==
    \A i \in 1 .. MaxFrames :
        Len(sent) >= i /\ sent[i].op = 1 /\ sent[i].fin /\ sent[i].len > 0
            ~> closed \/ \E j \in 1 .. Len(completed) :
                             completed[j].handed /\ Holds(completed[j].frames, i)
=============================================================================
