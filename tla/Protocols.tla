------------------------------ MODULE Protocols -----------------------------
(***************************************************************************)
(* The reader of WebSocket frames (WebSocket) and beside it the streams of *)
(* an HTTP/2 connection (Http2Stream), which share no state with it.       *)
(***************************************************************************)
EXTENDS WebSocket

CONSTANTS Streams, MaxReceived      \* of the HTTP/2 connection

VARIABLES
    buffer, received, state, lastFrameType, endofstream, isWebSocket, request,
    preceding, frameAcks, handed, gone

H2 == INSTANCE Http2Stream WITH MaxFrames <- MaxReceived, closed <- gone

\* Whatever frames follow, an HTTP/2 stream hands over one request, and
\* Http2StreamHandler::handle never takes headers or data for a request it has
\* given away.
OneRequest == H2!OneRequest
=============================================================================
