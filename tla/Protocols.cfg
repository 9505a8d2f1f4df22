\* The frame loops fed directly.
CONSTANTS
    Direct = TRUE
    Kinds <- Frames
    MaxFrames = 3
    Small = 1
    Mid = 3
    Streams = {0, 1}
    MaxReceived = 4
    Parts = {"websocket", "http2", "hpack", "peer", "codec"}
SPECIFICATION ProtocolsSpec
INVARIANTS MessagesExact OneRequest HeadersArrive
CHECK_DEADLOCK FALSE
