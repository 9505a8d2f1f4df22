----------------------------- MODULE MCProtocols -----------------------------
(***************************************************************************)
(* The readers of the protocols beyond HTTP/1.1, for TLC: WebSocket        *)
(* frames, HTTP/2 streams, HPACK header blocks from another context and    *)
(* from any peer, and the codecs below them.  part, chosen in Init, says   *)
(* which of them reads; the others rest.                                   *)
(***************************************************************************)
EXTENDS Protocols, TLC

CONSTANT Parts

VARIABLES
    part,
    enc, dec, fields, got,
    str, num

h2Vars    == <<buffer, received, state, lastFrameType, endofstream, isWebSocket, request,
               preceding, frameAcks, handed, gone>>
hpackVars == <<enc, dec, fields, got>>
codecVars == <<str, num>>
allVars   == <<part, vars, h2Vars, hpackVars, codecVars>>

-----------------------------------------------------------------------------
F(op, fin, mask, len) == [op |-> op, fin |-> fin, mask |-> mask, len |-> len]

(* Whole and fragmented messages, empty or not, masked or not, in all      *)
(* three length forms, a ping and a close.                                 *)
Frames == {F(1, TRUE, TRUE, 1), F(1, TRUE, FALSE, 0), F(1, FALSE, TRUE, 2),
           F(1, FALSE, FALSE, 0), F(0, FALSE, FALSE, 1), F(0, TRUE, TRUE, 0),
           F(2, TRUE, FALSE, 3), F(9, TRUE, TRUE, 0), F(8, TRUE, FALSE, 0)}

(* Two rows of a pair and one of a name, as HPACK_TABLE has them; "ab"     *)
(* with "c" runs together to the same letters as "a" with "bc".            *)
Hpack == INSTANCE Hpack WITH
    Code <- [x \in {} |-> <<>>],
    Static <- << <<<<"m">>, <<"g">>>>, <<<<"m">>, <<"p">>>>, <<<<"a">>, <<>>>> >>,
    Names <- << <<"a">>, <<"a", "b">>, <<"m">> >>,
    Values <- {<<>>, <<"c">>, <<"b", "c">>, <<"g">>},
    MaxEntries <- 3, sent <- fields

(* Rows of HUFFMAN_TABLE: codes of 5, 6, 7, 8, 10 and 13 bits. *)
SomeCodes ==
    "0" :> <<0,0,0,0,0>> @@ "t" :> <<0,1,0,0,1>> @@ "/" :> <<0,1,1,0,0,0>> @@
    "u" :> <<1,0,1,1,0,1>> @@ ":" :> <<1,0,1,1,1,0,0>> @@ "z" :> <<1,1,1,1,0,1,1>> @@
    "&" :> <<1,1,1,1,1,0,0,0>> @@ "Z" :> <<1,1,1,1,1,1,0,1>> @@
    "!" :> <<1,1,1,1,1,1,1,0,0,0>> @@ "$" :> <<1,1,1,1,1,1,1,1,1,1,0,0,1>>

Codec == INSTANCE HpackInputs WITH
    Code <- SomeCodes, MaxLen <- 4, MaxNumber <- 700, Prefixes <- {1, 2, 4}

ASSUME ProtocolsAssumption ==
    Parts \subseteq {"websocket", "http2", "hpack", "peer", "codec"}
        /\ WebSocketAssumption /\ H2!StreamAssumption

-----------------------------------------------------------------------------
ProtocolsInit == part \in Parts /\ Init /\ H2!Init /\ Hpack!Init /\ Codec!Init

WebSocket == part = "websocket" /\ Next /\ UNCHANGED <<part, h2Vars, hpackVars, codecVars>>
Http2     == part = "http2" /\ H2!Next /\ UNCHANGED <<part, vars, hpackVars, codecVars>>
Headers   == /\ \/ part = "hpack" /\ Hpack!Next
                \/ part = "peer" /\ Hpack!PeerNext
             /\ UNCHANGED <<part, vars, h2Vars, codecVars>>
Inputs    == part = "codec" /\ Codec!Next /\ UNCHANGED <<part, vars, h2Vars, hpackVars>>

ProtocolsNext == WebSocket \/ Http2 \/ Headers \/ Inputs
ProtocolsSpec == ProtocolsInit /\ [][ProtocolsNext]_allVars

(* Bytes that were sent to a WebSocket arrive, and the read task runs for  *)
(* them.                                                                   *)
FairSpec == ProtocolsSpec /\ WF_allVars(WebSocket /\ UNCHANGED sent)

-----------------------------------------------------------------------------
(* Between two contexts the fields of every header list arrive in order    *)
(* and both ends number their tables alike, and those of another peer      *)
(* arrive while it has indexed one at most; below them, the codecs read    *)
(* back every number of at most two bytes and every string of short codes  *)
(* longer than a byte.                                                     *)
HeadersArrive ==
    /\ part = "hpack" => Hpack!FieldsArrive /\ Hpack!TablesAgree
    /\ part = "peer" => Hpack!PeerFieldsArrive
    /\ part = "codec" => Codec!HuffmanRoundTrip /\ Codec!NumberExact
=============================================================================
