----------------------------- MODULE Http2Stream ----------------------------
(***************************************************************************)
(* Http2StreamHandler::handle, for the streams of one Http2Handler: what   *)
(* each frame of the peer does to the state of its stream, when a request  *)
(* is handed over and when the connection is given up.  Header blocks and  *)
(* payloads carry no content here.                                         *)
(*                                                                         *)
(* The frame loop of readRequest is modelled.  HttpReadTask has emptied    *)
(* the socket just before it calls readRequest, so that the readFrom at    *)
(* its top returns -1 or 1 and, as called today, it gives up before the    *)
(* loop (Http2Handler.cpp:189).                                            *)
(***************************************************************************)
EXTENDS Integers, Sequences, FiniteSets

CONSTANTS
    Streams,        \* stream identifiers, 0 among them
    MaxFrames       \* bound: frames received

StreamAssumption ==
    Streams \subseteq Nat /\ 0 \in Streams /\ MaxFrames \in Nat

(***************************************************************************)
(* A frame: its type, its stream and the flags that matter (end stands for *)
(* END_STREAM and for ACK).  ws: the header block asks for a WebSocket     *)
(* that both sides can serve or, on one, carries :opcode.                  *)
(***************************************************************************)
Types == {"data", "headers", "priority", "reset", "settings", "push", "ping",
          "goaway", "window", "continuation", "altsvc"}
Frames == [type : Types, stream : Streams, end : BOOLEAN, endHeaders : BOOLEAN, ws : BOOLEAN]
Flagged == {"data", "headers", "continuation"}
Sensible(f) ==
    /\ f.type \notin Flagged \cup {"settings", "ping"} => ~f.end
    /\ f.type \notin {"headers", "continuation"} => ~f.endHeaders
    /\ f.ws => f.endHeaders
    /\ f.type = "continuation" => ~f.end

VARIABLES
    buffer,         \* a frame that has arrived
    received,       \* number of frames arrived
    state,          \* state[s]: Idle, Open, Half_Closed_R or Closed
    lastFrameType,  \* lastFrameType[s]
    endofstream,    \* endofstream[s]
    isWebSocket,    \* isWebSocket[s]
    request,        \* request[s]: not yet handed over, so not NULL
    preceding,      \* precedingstreamId
    frameAcks,      \* an acknowledgement of our SETTINGS frame is awaited
    handed,         \* streams whose requests were handed over, in order
    closed

stream == <<state, lastFrameType, endofstream, isWebSocket, request>>
vars == <<buffer, received, stream, preceding, frameAcks, handed, closed>>

None == "none"
NoFrame == [type |-> None, stream |-> 0, end |-> FALSE, endHeaders |-> FALSE, ws |-> FALSE]
\* endofstream starts out true.  Our SETTINGS frame goes out first.
Init ==
    /\ buffer = NoFrame /\ received = 0
    /\ state = [s \in Streams |-> "Idle"]
    /\ lastFrameType = [s \in Streams |-> None]
    /\ endofstream = [s \in Streams |-> TRUE]
    /\ isWebSocket = [s \in Streams |-> FALSE]
    /\ request = [s \in Streams |-> TRUE]
    /\ preceding = -1
    /\ frameAcks = TRUE
    /\ handed = <<>>
    /\ closed = FALSE

-----------------------------------------------------------------------------

Arrive(f) ==
    /\ buffer = NoFrame /\ received < MaxFrames /\ ~closed /\ Sensible(f)
    /\ buffer' = f
    /\ received' = received + 1
    /\ UNCHANGED <<stream, preceding, frameAcks, handed, closed>>

f == buffer
s == buffer.stream

Turn(type) == /\ ~closed /\ f.type = type
              /\ buffer' = NoFrame /\ UNCHANGED received

Set(var, v) == [var EXCEPT ![s] = v]

\* handle returns false: the frame is remembered and is the preceding one.
Handled ==
    /\ lastFrameType' = Set(lastFrameType, f.type)
    /\ preceding' = s
    /\ UNCHANGED closed

\* closeConnection: a GOAWAY frame goes out and readRequest closes the socket.
CloseConnection ==
    /\ closed' = TRUE
    /\ preceding' = s
    /\ UNCHANGED <<stream, frameAcks, handed>>

\* getRequestAndReInit
HandOver ==
    /\ handed' = Append(handed, s)
    /\ request' = Set(request, FALSE)
    /\ endofstream' = Set(endofstream, FALSE)

\* handleWebSocketRequest: handle returns at once and forgets the frame's type.
UpgradeStream ==
    /\ isWebSocket' = Set(isWebSocket, TRUE)
    /\ state' = Set(state, "Open")
    /\ HandOver
    /\ preceding' = s
    /\ UNCHANGED <<lastFrameType, closed>>

\* A complete header block of an ordinary request
HeadersEnd(eos) ==
    IF eos
    THEN state' = Set(state, "Half_Closed_R") /\ HandOver
    ELSE /\ state' = Set(state, "Open")
         /\ endofstream' = Set(endofstream, eos)
         /\ UNCHANGED <<handed, request>>

Headers ==
    /\ Turn("headers")
    /\ UNCHANGED frameAcks
    /\ IF state[s] \notin {"Idle", "Open"} \/ (isWebSocket[s] /\ f.endHeaders /\ ~f.ws)
       THEN CloseConnection
       ELSE \/ /\ ~isWebSocket[s] /\ f.endHeaders /\ f.ws
               /\ UpgradeStream
            \/ /\ ~isWebSocket[s] /\ f.endHeaders /\ ~f.ws
               /\ HeadersEnd(endofstream[s] \/ f.end)
               /\ UNCHANGED isWebSocket /\ Handled
            \/ /\ isWebSocket[s] \/ ~f.endHeaders
               /\ state' = Set(state, "Open")
               /\ endofstream' = Set(endofstream, endofstream[s] \/ f.end)
               /\ UNCHANGED <<isWebSocket, handed, request>> /\ Handled

Continuation ==
    /\ Turn("continuation")
    /\ UNCHANGED frameAcks
    /\ IF \/ state[s] # "Open" \/ preceding \notin {s, -1}
          \/ lastFrameType[s] \notin {"headers", "push", "continuation"}
          \/ isWebSocket[s] /\ f.endHeaders /\ ~f.ws
       THEN CloseConnection
       ELSE \/ /\ ~isWebSocket[s] /\ f.endHeaders /\ f.ws
               /\ UpgradeStream
            \/ /\ ~isWebSocket[s] /\ f.endHeaders /\ ~f.ws
               /\ HeadersEnd(endofstream[s])
               /\ UNCHANGED isWebSocket /\ Handled
            \/ /\ isWebSocket[s] \/ ~f.endHeaders
               /\ UNCHANGED <<state, endofstream, isWebSocket, handed, request>> /\ Handled

\* Mutant: data is taken in every state but the idle one.
DataLate ==
    /\ Turn("data")
    /\ UNCHANGED frameAcks
    /\ IF state[s] = "Idle"
       THEN CloseConnection
       ELSE /\ IF ~isWebSocket[s] /\ f.end
               THEN state' = Set(state, "Half_Closed_R") /\ HandOver
               ELSE UNCHANGED <<state, handed, request, endofstream>>
            /\ UNCHANGED isWebSocket /\ Handled

\* The end of a WebSocket segment hands over the WebSocket data, not request.
Data ==
    /\ Turn("data")
    /\ UNCHANGED frameAcks
    /\ IF state[s] # "Open"
       THEN CloseConnection
       ELSE /\ IF ~isWebSocket[s] /\ f.end
               THEN state' = Set(state, "Half_Closed_R") /\ HandOver
               ELSE UNCHANGED <<state, handed, request, endofstream>>
            /\ UNCHANGED isWebSocket /\ Handled

Reset ==
    /\ Turn("reset")
    /\ UNCHANGED frameAcks
    /\ IF state[s] = "Idle" \/ lastFrameType[s] = "continuation" \/ s = 0
       THEN CloseConnection
       ELSE /\ state' = Set(state, "Closed")
            /\ UNCHANGED <<endofstream, isWebSocket, request, handed>> /\ Handled

\* SETTINGS and PING: an acknowledgement nobody waits for ends the connection,
\* and none of a PING is ever awaited.
Ack ==
    IF s # 0 \/ (f.end /\ ~(frameAcks /\ f.type = "settings"))
    THEN CloseConnection
    ELSE /\ frameAcks' = (frameAcks /\ ~f.end)
         /\ UNCHANGED <<state, endofstream, isWebSocket, request, handed>> /\ Handled

SettingsOrPing == \E t \in {"settings", "ping"} : Turn(t) /\ Ack

\* GOAWAY and PUSH_PROMISE
GiveUp == \E t \in {"goaway", "push"} : Turn(t) /\ CloseConnection

\* WINDOW_UPDATE and ALTSVC leave the stream as it is; PRIORITY too, unless the
\* stream is idle.
Noted ==
    \E t \in {"window", "altsvc", "priority"} :
        /\ Turn(t)
        /\ IF t = "priority" /\ state[s] = "Idle"
           THEN CloseConnection
           ELSE /\ UNCHANGED <<state, endofstream, isWebSocket, request, handed, frameAcks>>
                /\ Handled

Handle == Headers \/ Continuation \/ Data \/ Reset \/ SettingsOrPing \/ GiveUp \/ Noted

Next == (\E g \in Frames : Arrive(g)) \/ Handle

Spec == Init /\ [][Next]_vars

-----------------------------------------------------------------------------
(* Properties *)

\* handle never dereferences the request it has given away: in the states in
\* which header blocks and data are taken, an ordinary stream still has it.
RequestPresent ==
    \A t \in Streams :
        state[t] \in {"Idle", "Open"} /\ ~isWebSocket[t] => request[t]

\* A stream hands over one request, whatever frames follow.
HandedOnce ==
    \A i, j \in 1 .. Len(handed) : handed[i] = handed[j] => i = j

\* One request per stream, and no use of the one it has given away.
OneRequest == HandedOnce /\ RequestPresent
=============================================================================
