---------------------------- MODULE MCThreadPool ----------------------------
(* Instances of ThreadPool: which event loop each socket belongs to. *)
EXTENDS ThreadPool

CONSTANTS p1, p2, s1, s2

\* The embedded server: one RequestReaderHandler thread submits everything.
ServerOwner == [s \in Sockets |-> p1]

\* Two event loops sharing a pool; s2 belongs to the second.
TwoLoopsOwner == [s \in Sockets |-> IF s = s1 THEN p1 ELSE p2]
=============================================================================
