---------------------------- MODULE AsyncQueries ----------------------------
(***************************************************************************)
(* What an asynchronous data source promises its callers: the final        *)
(* callback of every request runs once, in the order in which the requests *)
(* were posted.  What the answer says is chosen by the database.           *)
(***************************************************************************)
EXTENDS Sequences

CONSTANT Requests

VARIABLES
    waiting,    \* requests posted and not answered, oldest first
    finals      \* request -> outcomes its final callback was given

vars == <<waiting, finals>>

Init == waiting = <<>> /\ finals = [r \in Requests |-> <<>>]

Post(r) == waiting' = Append(waiting, r) /\ UNCHANGED finals

Answer(w, ok) ==
    /\ w # <<>>
    /\ waiting' = Tail(w)
    /\ finals' = [finals EXCEPT ![Head(w)] = Append(@, ok)]

(* A post may find out at once that the oldest request has failed. *)
Next ==
    \/ \E r \in Requests : Post(r) \/ Answer(Append(waiting, r), FALSE)
    \/ \E ok \in BOOLEAN : Answer(waiting, ok)
Spec == Init /\ [][Next]_vars
=============================================================================
