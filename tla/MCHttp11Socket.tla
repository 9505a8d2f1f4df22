--------------------------- MODULE MCHttp11Socket ---------------------------
(***************************************************************************)
(* Streams for Http11Socket.  HDR_FIN is two units long, so that a read    *)
(* can split it.                                                           *)
(***************************************************************************)
EXTENDS Http11Socket

\* Four requests: no body; a body of three units that holds a terminator and
\* ends in the first half of another; one that the handler answers itself; no
\* body.
MixedHdrEnd == <<2, 5, 10, 12>>
MixedEnd    == [r \in 0 .. 4 |-> <<0, 2, 8, 10, 12>>[r + 1]]
MixedFin    == {2, 5, 7, 9, 10, 12}
MixedSize   == <<3, 2, 0, 1>>
=============================================================================
