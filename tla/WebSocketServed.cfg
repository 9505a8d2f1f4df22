\* The WebSocket reader as HttpReadTask drives it.
CONSTANTS
    Direct = FALSE
    Kinds <- Frames
    MaxFrames = 3
    Small = 1
    Mid = 3
    Streams = {0, 1}
    MaxReceived = 4
    Parts = {"websocket"}
SPECIFICATION FairSpec
PROPERTY MessagesArrive
CHECK_DEADLOCK FALSE
