-------------------------- MODULE MCSocketInterface -------------------------
(***************************************************************************)
(* Responses for SocketInterface; the send buffer holds two bytes.         *)
(***************************************************************************)
EXTENDS SocketInterface

\* Two responses that block at most once however slowly the peer reads, one that
\* may block again, and a last request that is answered by another way.
MixedSize == <<3, 3, 4, 0>>

\* A response that blocks again when it is resumed,
\* however fast the peer reads.
LargeSize == <<5, 1>>
=============================================================================
