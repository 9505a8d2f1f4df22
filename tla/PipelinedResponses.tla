------------------------- MODULE PipelinedResponses -------------------------
(***************************************************************************)
(* What one HTTP/1.1 connection promises its peer: the responses leave in  *)
(* the order of the requests, each of them whole before the next begins,   *)
(* nothing twice and nothing left out, until the connection is closed.     *)
(*                                                                         *)
(* A unit on the wire is <<r, k>>, the k-th unit of the response to the    *)
(* r-th request.  A request of size 0 is one whose handler answers by some *)
(* other way than the connection's output buffer.                          *)
(***************************************************************************)
EXTENDS Integers, Sequences

CONSTANT Size       \* Size[r]: units of the response to the r-th request, a
                    \* sequence of natural numbers

VARIABLES
    served,         \* how many requests have been given to the handler
    wire,           \* the units handed to the peer
    open            \* the connection has not been closed

vars == <<served, wire, open>>

\* The last unit sent; <<0, 0>> stands before the first one.
LastUnit(w) == IF w = <<>> THEN <<0, 0>> ELSE w[Len(w)]

\* Response u[1] has been sent to its end.
Whole(u) == u[1] = 0 \/ u[2] = Size[u[1]]

\* <<r, k>> is the unit due after u: the next of the same response, or the
\* first of the next request that has a response.
Follows(u, r, k) ==
    \/ r = u[1] /\ k = u[2] + 1
    \/ /\ r > u[1] /\ k = 1 /\ Whole(u)
       /\ \A q \in u[1] + 1 .. r - 1 : Size[q] = 0

\* n units of response r, from its k-th on
Run(r, k, n) == [j \in 1 .. n |-> <<r, k + j - 1>>]

Init ==
    /\ served = 0
    /\ wire = <<>>
    /\ open = TRUE

Serve ==
    /\ served < Len(Size)
    /\ served' = served + 1
    /\ UNCHANGED <<wire, open>>

Emit ==
    /\ open
    /\ \E r \in 1 .. served :
         \E k \in 1 .. Size[r] :
           \E n \in 1 .. Size[r] - k + 1 :
             /\ Follows(LastUnit(wire), r, k)
             /\ wire' = wire \o Run(r, k, n)
    /\ UNCHANGED <<served, open>>

Close ==
    /\ open
    /\ open' = FALSE
    /\ UNCHANGED <<served, wire>>

Next == Serve \/ Emit \/ Close

Spec == Init /\ [][Next]_vars
=============================================================================
