-------------------------- MODULE CloseQueueProofs --------------------------
(***************************************************************************)
(* Proofs about module CloseQueue, for any connections, descriptors,       *)
(* period and number of entries a sweep puts back.                         *)
(*                                                                         *)
(* Both properties hold until two threads are inside closeSocket of one    *)
(* connection.  Own follows a descriptor number from accept to close; Safe *)
(* follows the socket object from accept to the queue, in which it is once *)
(* and long enough for every task and thread that still knows it.  The     *)
(* latter needs that no task waits longer than the grace period.           *)
(***************************************************************************)
EXTENDS CloseQueue, SequenceTheorems, TLAPS

Slots == [pc : Pcs, conn : Conns \cup {None}]

\* The types of the state
TypeOK ==
    /\ object \in [Conns -> {"none", "live", "deleted"}]
    /\ fd \in [Conns -> Fds \cup {None}]
    /\ openFd \in [Fds -> Conns \cup {None}]
    /\ closed \in [Conns -> BOOLEAN]
    /\ cqat \in [Conns -> Nat]
    /\ toBeClosedConns \in Seq(Conns)
    /\ task \in [Conns -> Int]
    /\ at \in [Threads -> Slots]
    /\ sweep \in Int /\ counter \in Nat /\ slept \in BOOLEAN /\ run \in BOOLEAN
    /\ misused \subseteq Conns /\ foreign \subseteq Conns /\ raced \subseteq Conns

At(t, c, labels) == at[t].conn = c /\ at[t].pc \in labels
Closing == {"fd", "queue", "mark"}
Past    == {"queue", "mark"}

\* A connection that has not been accepted is unknown to everybody.
Unborn == \A c \in Conns : object[c] = "none" =>
             ~closed[c] /\ task[c] = -1 /\ \A t \in Threads : at[t].conn # c

\* One thread at a time is inside closeSocket of a connection, before it is closed.
OneCloser == \A t \in Threads, c \in Conns : At(t, c, Closing) =>
                ~closed[c] /\ ~At(Other(t), c, Closing)

\* The kernel and the sockets agree on whose descriptor a number is.
Theirs == \A f \in Fds, c \in Conns : openFd[f] = c =>
             fd[c] = f /\ object[c] # "none" /\ ~closed[c] /\ \A t \in Threads : ~At(t, c, Past)

Ours == \A c \in Conns :
           object[c] # "none" /\ ~closed[c] /\ (\A t \in Threads : ~At(t, c, Past))
               => fd[c] \in Fds /\ openFd[fd[c]] = c

\* Only accepted connections are in the queue.
Elems(s) == {s[i] : i \in 1 .. Len(s)}
Known == \A c \in Conns : c \in Elems(toBeClosedConns) => object[c] # "none"

Own == Unborn /\ OneCloser /\ Theirs /\ Ours /\ Known /\ foreign = {}

OwnInv == TypeOK /\ (raced = {} => Own)

-----------------------------------------------------------------------------
(* Facts about threads *)

LEMMA ThreadFacts ==
    /\ \A t \in Threads : Other(t) \in Threads /\ Other(t) # t /\ Other(Other(t)) = t
    /\ \A t, u \in Threads : u = t \/ u = Other(t)
    /\ Idle \in Slots /\ Idle.conn = None /\ Idle.pc = "idle"
  BY DEF Threads, Other, Idle, Slots, Pcs

LEMMA GoFacts ==
    ASSUME TypeOK, NEW t \in Threads, NEW l \in Pcs, NEW c \in Conns, Go(t, l, c)
    PROVE  /\ at' \in [Threads -> Slots]
           /\ at'[t].pc = l /\ at'[t].conn = c
           /\ \A u \in Threads : u # t => at'[u] = at[u]
<1>1. [pc |-> l, conn |-> c] \in Slots
  BY DEF Slots
<1> QED BY <1>1 DEF Go, TypeOK

LEMMA DoneFacts ==
    ASSUME TypeOK, NEW t \in Threads, Done(t)
    PROVE  /\ at' \in [Threads -> Slots]
           /\ at'[t].pc = "idle" /\ at'[t].conn = None
           /\ \A u \in Threads : u # t => at'[u] = at[u]
  BY ThreadFacts DEF Done, TypeOK

LEMMA TouchTypes ==
    ASSUME TypeOK, NEW c \in Conns, Touch(c) PROVE misused' \subseteq Conns
  BY DEF TypeOK, Touch

-----------------------------------------------------------------------------
(* Facts about the queue *)

Distinct(s) == \A i, j \in 1 .. Len(s) : s[i] = s[j] => i = j

LEMMA AppendFacts ==
    ASSUME NEW S, NEW s \in Seq(S), NEW x \in S
    PROVE  /\ Append(s, x) \in Seq(S)
           /\ \A y : y \in Elems(Append(s, x)) <=> y \in Elems(s) \/ y = x
           /\ Distinct(s) /\ x \notin Elems(s) => Distinct(Append(s, x))
<1>1. /\ Append(s, x) \in Seq(S) /\ Len(s) \in Nat /\ Len(Append(s, x)) = Len(s) + 1
      /\ Append(s, x)[Len(s) + 1] = x
      /\ \A i \in 1 .. Len(s) : Append(s, x)[i] = s[i]
  BY AppendProperties, LenProperties
<1> DEFINE u == Append(s, x)
<1> HIDE DEF u
<1>2. /\ Len(u) = Len(s) + 1 /\ Len(s) \in Nat /\ u[Len(s) + 1] = x
      /\ \A i \in 1 .. Len(s) : u[i] = s[i]
  BY <1>1 DEF u
<1>3. ASSUME NEW y PROVE y \in Elems(u) <=> y \in Elems(s) \/ y = x
  <2>1. y \in Elems(u) => y \in Elems(s) \/ y = x
    <3> SUFFICES ASSUME NEW i \in 1 .. Len(u), y = u[i] PROVE y \in Elems(s) \/ y = x
      BY DEF Elems
    <3> QED BY <1>2 DEF Elems
  <2>2. y \in Elems(s) => y \in Elems(u)
    <3> SUFFICES ASSUME NEW i \in 1 .. Len(s), y = s[i] PROVE y \in Elems(u)
      BY DEF Elems
    <3> QED BY <1>2 DEF Elems
  <2>3. x \in Elems(u)
    BY <1>2 DEF Elems
  <2> QED BY <2>1, <2>2, <2>3
<1>4. Distinct(s) /\ x \notin Elems(s) => Distinct(u)
  <2> SUFFICES ASSUME Distinct(s), x \notin Elems(s),
                      NEW i \in 1 .. Len(u), NEW j \in 1 .. Len(u), u[i] = u[j]
               PROVE  i = j
    BY DEF Distinct
  <2>1. \A k \in 1 .. Len(s) : s[k] # x
    BY DEF Elems
  <2> QED BY <1>2, <2>1 DEF Distinct
<1> QED BY <1>1, <1>3, <1>4 DEF u

LEMMA TailFacts ==
    ASSUME NEW S, NEW s \in Seq(S), s # <<>>
    PROVE  /\ Tail(s) \in Seq(S) /\ Head(s) \in S
           /\ \A y : y \in Elems(s) <=> y \in Elems(Tail(s)) \/ y = Head(s)
           /\ Distinct(s) => Distinct(Tail(s)) /\ Head(s) \notin Elems(Tail(s))
<1>1. /\ Tail(s) \in Seq(S) /\ Head(s) \in S /\ Head(s) = s[1]
      /\ Len(s) \in Nat /\ Len(s) >= 1 /\ Len(Tail(s)) = Len(s) - 1
      /\ \A i \in 1 .. Len(Tail(s)) : Tail(s)[i] = s[i + 1]
  BY HeadTailProperties, EmptySeq, LenProperties
<1> DEFINE u == Tail(s)  h == Head(s)
<1> HIDE DEF u, h
<1>2. /\ Len(u) = Len(s) - 1 /\ Len(s) \in Nat /\ Len(s) >= 1 /\ h = s[1]
      /\ \A i \in 1 .. Len(u) : u[i] = s[i + 1]
  BY <1>1 DEF u, h
<1>3. ASSUME NEW y PROVE y \in Elems(s) <=> y \in Elems(u) \/ y = h
  <2>1. y \in Elems(s) => y \in Elems(u) \/ y = h
    <3> SUFFICES ASSUME NEW i \in 1 .. Len(s), y = s[i], i # 1 PROVE y \in Elems(u)
      BY <1>2 DEF Elems
    <3>1. i - 1 \in 1 .. Len(u) /\ u[i - 1] = s[i]
      BY <1>2
    <3> QED BY <3>1 DEF Elems
  <2>2. y \in Elems(u) => y \in Elems(s)
    <3> SUFFICES ASSUME NEW i \in 1 .. Len(u), y = u[i] PROVE y \in Elems(s)
      BY DEF Elems
    <3>1. i + 1 \in 1 .. Len(s) /\ u[i] = s[i + 1]
      BY <1>2
    <3> QED BY <3>1 DEF Elems
  <2>3. h \in Elems(s)
    BY <1>2 DEF Elems
  <2> QED BY <2>1, <2>2, <2>3
<1>4. ASSUME Distinct(s) PROVE Distinct(u) /\ h \notin Elems(u)
  <2>1. Distinct(u)
    <3> SUFFICES ASSUME NEW i \in 1 .. Len(u), NEW j \in 1 .. Len(u), u[i] = u[j] PROVE i = j
      BY DEF Distinct
    <3>1. i + 1 \in 1 .. Len(s) /\ j + 1 \in 1 .. Len(s) /\ s[i + 1] = s[j + 1]
      BY <1>2
    <3> QED BY <1>4, <3>1 DEF Distinct
  <2>2. h \notin Elems(u)
    <3> SUFFICES ASSUME NEW i \in 1 .. Len(u), u[i] = h PROVE FALSE
      BY DEF Elems
    <3>1. i + 1 \in 1 .. Len(s) /\ 1 \in 1 .. Len(s) /\ s[i + 1] = s[1] /\ i + 1 # 1
      BY <1>2
    <3> QED BY <1>4, <3>1 DEF Distinct
  <2> QED BY <2>1, <2>2
<1> QED BY <1>1, <1>3, <1>4 DEF u, h

-----------------------------------------------------------------------------
(* Descriptors *)

\* Steps that move no thread into or inside closeSocket past its test
LEMMA QuietOwn ==
    ASSUME OwnInv, TypeOK', UNCHANGED <<fd, openFd, closed, foreign, raced>>,
           \A c \in Conns : object'[c] = "none" <=> object[c] = "none",
           \A c \in Conns : c \in Elems(toBeClosedConns') => c \in Elems(toBeClosedConns),
           \A t \in Threads : at'[t].pc \in Closing => at'[t] = at[t],
           \A t \in Threads : at[t].pc \in Closing => at'[t] = at[t],
           \A c \in Conns : object[c] = "none" =>
               task'[c] = task[c] /\ \A t \in Threads : at'[t].conn = c => at[t].conn = c
    PROVE  OwnInv'
<1> SUFFICES ASSUME raced = {} PROVE Own'
  BY DEF OwnInv
<1>0. Own
  BY DEF OwnInv
<1>1. \A t \in Threads, c \in Conns : /\ At(t, c, Closing)' <=> At(t, c, Closing)
                                      /\ At(t, c, Past)' <=> At(t, c, Past)
  BY DEF At, Closing, Past
<1>2. Unborn' /\ Known'
  BY <1>0 DEF Own, Unborn, Known
<1>3. OneCloser'
  BY <1>0, <1>1, ThreadFacts DEF Own, OneCloser
<1>4. Theirs'
  BY <1>0, <1>1 DEF Own, Theirs
<1>5. Ours'
  BY <1>0, <1>1 DEF Own, Ours
<1>6. (foreign = {})'
  BY <1>0 DEF Own
<1> QED BY <1>2, <1>3, <1>4, <1>5, <1>6 DEF Own

LEMMA AcceptedOwn == ASSUME OwnInv, NEW c \in Conns, Accepted(c) PROVE OwnInv'
<1>1. /\ at["loop"] = Idle /\ object[c] = "none"
      /\ object' = [object EXCEPT ![c] = "live"]
      /\ UNCHANGED <<closed, cqat, toBeClosedConns, task, at, sweeper, run, history>>
  BY DEF Accepted
<1>2. PICK f \in Fds : /\ openFd[f] = None
                       /\ fd' = [fd EXCEPT ![c] = f]
                       /\ openFd' = [openFd EXCEPT ![f] = c]
  BY DEF Accepted
<1>t. TypeOK /\ None \notin Conns
  BY CloseAssumption DEF OwnInv
<1>3. TypeOK'
  BY <1>1, <1>2, <1>t DEF TypeOK, sweeper, history
<1> SUFFICES ASSUME raced = {} PROVE Own'
  BY <1>1, <1>3 DEF OwnInv, history
<1>0. Own
  BY DEF OwnInv
<1>4. /\ object'[c] = "live" /\ fd'[c] = f /\ openFd'[f] = c
      /\ \A d \in Conns : d # c => object'[d] = object[d] /\ fd'[d] = fd[d]
      /\ \A g \in Fds : g # f => openFd'[g] = openFd[g]
  BY <1>1, <1>2, <1>t DEF TypeOK
<1>5. ~closed[c] /\ (\A t \in Threads : at[t].conn # c) /\ \A g \in Fds : openFd[g] # c
  BY <1>0, <1>1 DEF Own, Unborn, Theirs
<1>6. Unborn' /\ OneCloser' /\ Known'
  BY <1>0, <1>1, <1>4 DEF Own, Unborn, OneCloser, Known, At
<1>7. Theirs'
  BY <1>0, <1>1, <1>4, <1>5 DEF Own, Theirs, At
<1>8. Ours'
  <2> SUFFICES ASSUME NEW d \in Conns, object'[d] # "none", ~closed[d],
                      \A t \in Threads : ~At(t, d, Past)
               PROVE  fd'[d] \in Fds /\ openFd'[fd'[d]] = d
    BY <1>1 DEF Ours, At
  <2>1. CASE d = c
    BY <1>4, <2>1
  <2>2. CASE d # c
    <3>1. fd[d] \in Fds /\ openFd[fd[d]] = d
      BY <1>0, <1>4, <2>2 DEF Own, Ours
    <3>2. fd[d] # f
      BY <1>2, <1>t, <3>1
    <3> QED BY <1>4, <2>2, <3>1, <3>2
  <2> QED BY <2>1, <2>2
<1>9. (foreign = {})'
  BY <1>0, <1>1 DEF Own, history
<1> QED BY <1>6, <1>7, <1>8, <1>9 DEF Own

\* A thread that finds the socket open goes on, alone unless raced says so.
LEMMA CloseTestOwn ==
    ASSUME OwnInv, NEW t \in Threads, NEW c \in Conns, CloseTest(t, c) PROVE OwnInv'
<1>1. /\ at[t].pc = "test" /\ at[t].conn = c
      /\ Touch(c)
      /\ UNCHANGED <<conns, cqat, toBeClosedConns, task, sweeper, run, foreign>>
  BY DEF CloseTest
<1>t. TypeOK /\ misused' \subseteq Conns /\ None \notin Conns
  BY <1>1, TouchTypes, CloseAssumption DEF OwnInv
<1>2. CASE closed[c]
  <2>1. Done(t) /\ raced' = raced
    BY <1>2 DEF CloseTest
  <2>2. /\ at' \in [Threads -> Slots] /\ at'[t].pc = "idle" /\ at'[t].conn = None
        /\ \A u \in Threads : u # t => at'[u] = at[u]
    BY <1>t, <2>1, DoneFacts
  <2>3. TypeOK'
    BY <1>1, <1>t, <2>1, <2>2 DEF TypeOK, conns, sweeper
  <2>4. \A u \in Threads : /\ at'[u].pc \in Closing => at'[u] = at[u]
                           /\ at[u].pc \in Closing => at'[u] = at[u]
                           /\ \A d \in Conns : at'[u].conn = d => at[u].conn = d
    BY <1>1, <1>t, <2>2 DEF Closing
  <2> QED BY <1>1, <2>1, <2>3, <2>4, QuietOwn DEF conns
<1>3. CASE ~closed[c]
  <2>1. /\ Go(t, "fd", c)
        /\ raced' = IF at[Other(t)].conn = c /\ at[Other(t)].pc \in {"fd", "queue", "mark"}
                    THEN raced \cup {c} ELSE raced
    BY <1>3 DEF CloseTest
  <2>2. /\ at' \in [Threads -> Slots] /\ at'[t].pc = "fd" /\ at'[t].conn = c
        /\ \A u \in Threads : u # t => at'[u] = at[u]
    BY <1>t, <2>1, GoFacts DEF Pcs
  <2>3. TypeOK'
    BY <1>1, <1>t, <2>1, <2>2 DEF TypeOK, conns, sweeper
  <2> SUFFICES ASSUME raced' = {} PROVE Own'
    BY <2>3 DEF OwnInv
  <2>4. raced = {} /\ ~At(Other(t), c, Closing)
    BY <2>1 DEF At, Closing
  <2>0. Own
    BY <2>4 DEF OwnInv
  <2>5. \A u \in Threads, d \in Conns :
           /\ At(u, d, Past)' <=> At(u, d, Past)
           /\ At(u, d, Closing)' <=> (At(u, d, Closing) \/ (u = t /\ d = c))
           /\ at'[u].conn = at[u].conn
    BY <1>1, <2>2 DEF At, Past, Closing
  <2>6. Unborn' /\ Known'
    BY <1>1, <2>0, <2>5 DEF Own, Unborn, Known, conns
  <2>7. OneCloser'
    <3> SUFFICES ASSUME NEW u \in Threads, NEW d \in Conns, At(u, d, Closing)'
                 PROVE  ~closed[d] /\ ~At(Other(u), d, Closing)'
      BY <1>1, ThreadFacts DEF OneCloser, conns
    <3>1. Other(u) \in Threads /\ Other(u) # u /\ (u = t \/ u = Other(t))
          /\ (u = Other(t) => Other(u) = t)
      BY ThreadFacts
    <3>2. CASE u = t /\ d = c
      BY <1>3, <2>4, <2>5, <3>1, <3>2
    <3>3. CASE ~(u = t /\ d = c)
      <4>1. At(u, d, Closing)
        BY <2>5, <3>3
      <4>2. ~closed[d] /\ ~At(Other(u), d, Closing)
        BY <2>0, <4>1 DEF Own, OneCloser
      <4>3. ~(Other(u) = t /\ d = c)
        BY <2>4, <3>1, <4>1
      <4> QED BY <2>5, <3>1, <4>2, <4>3
    <3> QED BY <3>2, <3>3
  <2>8. Theirs' /\ Ours'
    BY <1>1, <2>0, <2>5 DEF Own, Theirs, Ours, conns
  <2>9. (foreign = {})'
    BY <1>1, <2>0 DEF Own
  <2> QED BY <2>6, <2>7, <2>8, <2>9 DEF Own
<1> QED BY <1>2, <1>3

\* The number it closes is still its own.
LEMMA CloseFdOwn ==
    ASSUME OwnInv, NEW t \in Threads, NEW c \in Conns, CloseFd(t, c) PROVE OwnInv'
<1>1. /\ at[t].pc = "fd" /\ at[t].conn = c
      /\ openFd' = [openFd EXCEPT ![fd[c]] = None]
      /\ foreign' = IF openFd[fd[c]] \in {c, None} THEN foreign ELSE foreign \cup {c}
      /\ Go(t, "queue", c) /\ Touch(c)
      /\ UNCHANGED <<object, fd, closed, cqat, toBeClosedConns, task, sweeper, run, raced>>
  BY DEF CloseFd
<1>t. TypeOK /\ misused' \subseteq Conns /\ None \notin Conns
  BY <1>1, TouchTypes, CloseAssumption DEF OwnInv
<1>2. /\ at' \in [Threads -> Slots] /\ at'[t].pc = "queue" /\ at'[t].conn = c
      /\ \A u \in Threads : u # t => at'[u] = at[u]
  BY <1>1, <1>t, GoFacts DEF Pcs
<1>3. TypeOK'
  BY <1>1, <1>t, <1>2 DEF TypeOK, sweeper
<1> SUFFICES ASSUME raced = {} PROVE Own'
  BY <1>1, <1>3 DEF OwnInv
<1>0. Own
  BY DEF OwnInv
<1>4. At(t, c, Closing) /\ ~At(t, c, Past)
  BY <1>1 DEF At, Closing, Past
<1>5. object[c] # "none" /\ ~closed[c] /\ \A u \in Threads : ~At(u, c, Past)
  <2>1. object[c] # "none"
    BY <1>0, <1>1 DEF Own, Unborn
  <2>2. ~closed[c] /\ ~At(Other(t), c, Closing)
    BY <1>0, <1>4 DEF Own, OneCloser
  <2>3. ~At(Other(t), c, Past)
    BY <2>2 DEF At, Past, Closing
  <2> QED BY <1>4, <2>1, <2>2, <2>3, ThreadFacts
<1>6. fd[c] \in Fds /\ openFd[fd[c]] = c
  BY <1>0, <1>5 DEF Own, Ours
<1>7. /\ openFd'[fd[c]] = None
      /\ \A g \in Fds : g # fd[c] => openFd'[g] = openFd[g]
  BY <1>1, <1>6, <1>t DEF TypeOK
<1>8. \A u \in Threads, d \in Conns :
         /\ At(u, d, Past)' <=> (At(u, d, Past) \/ (u = t /\ d = c))
         /\ At(u, d, Closing)' <=> At(u, d, Closing)
         /\ at'[u].conn = at[u].conn
  BY <1>1, <1>2 DEF At, Past, Closing
<1>9. Unborn' /\ Known'
  BY <1>0, <1>1, <1>8 DEF Own, Unborn, Known
<1>10. OneCloser'
  BY <1>0, <1>1, <1>8, ThreadFacts DEF Own, OneCloser
<1>11. Theirs'
  BY <1>0, <1>1, <1>6, <1>7, <1>8, <1>t DEF Own, Theirs
<1>12. Ours'
  <2> SUFFICES ASSUME NEW d \in Conns, object[d] # "none", ~closed[d],
                      \A u \in Threads : ~At(u, d, Past)'
               PROVE  fd[d] \in Fds /\ openFd'[fd[d]] = d
    BY <1>1 DEF Ours
  <2>1. d # c /\ \A u \in Threads : ~At(u, d, Past)
    BY <1>8
  <2>2. fd[d] \in Fds /\ openFd[fd[d]] = d
    BY <1>0, <2>1 DEF Own, Ours
  <2> QED BY <1>6, <1>7, <2>1, <2>2
<1>13. (foreign = {})'
  BY <1>0, <1>1, <1>6 DEF Own
<1> QED BY <1>9, <1>10, <1>11, <1>12, <1>13 DEF Own

LEMMA CloseConnectionOwn ==
    ASSUME OwnInv, NEW t \in Threads, NEW c \in Conns, CloseConnection(t, c) PROVE OwnInv'
<1>1. /\ at[t].pc = "queue" /\ at[t].conn = c
      /\ cqat' = [cqat EXCEPT ![c] = 0]
      /\ toBeClosedConns' = Append(toBeClosedConns, c)
      /\ Go(t, "mark", c) /\ Touch(c)
      /\ UNCHANGED <<conns, task, sweeper, run, foreign, raced>>
  BY DEF CloseConnection
<1>t. TypeOK /\ misused' \subseteq Conns
  BY <1>1, TouchTypes DEF OwnInv
<1>2. /\ at' \in [Threads -> Slots] /\ at'[t].pc = "mark" /\ at'[t].conn = c
      /\ \A u \in Threads : u # t => at'[u] = at[u]
  BY <1>1, <1>t, GoFacts DEF Pcs
<1>3. TypeOK'
  BY <1>1, <1>t, <1>2 DEF TypeOK, conns, sweeper
<1> SUFFICES ASSUME raced = {} PROVE Own'
  BY <1>1, <1>3 DEF OwnInv
<1>0. Own
  BY DEF OwnInv
<1>4. \A u \in Threads, d \in Conns :
         /\ At(u, d, Past)' <=> At(u, d, Past)
         /\ At(u, d, Closing)' <=> At(u, d, Closing)
         /\ at'[u].conn = at[u].conn
  BY <1>1, <1>2 DEF At, Past, Closing
<1>5. Unborn' /\ Theirs' /\ Ours' /\ (foreign = {})'
  BY <1>0, <1>1, <1>4 DEF Own, Unborn, Theirs, Ours, conns
<1>6. OneCloser'
  BY <1>0, <1>1, <1>4, ThreadFacts DEF Own, OneCloser, conns
<1>7. Known'
  <2>1. object[c] # "none"
    BY <1>0, <1>1 DEF Own, Unborn
  <2>2. \A d \in Conns : d \in Elems(toBeClosedConns') => d \in Elems(toBeClosedConns) \/ d = c
    BY <1>1, <1>t, AppendFacts DEF TypeOK
  <2> QED BY <1>0, <1>1, <2>1, <2>2 DEF Own, Known, conns
<1> QED BY <1>5, <1>6, <1>7 DEF Own

LEMMA CloseMarkOwn ==
    ASSUME OwnInv, NEW t \in Threads, NEW c \in Conns, CloseMark(t, c) PROVE OwnInv'
<1>1. /\ at[t].pc = "mark" /\ at[t].conn = c
      /\ closed' = [closed EXCEPT ![c] = TRUE]
      /\ Done(t) /\ Touch(c)
      /\ UNCHANGED <<object, fd, openFd, cqat, toBeClosedConns, task, sweeper, run, foreign, raced>>
  BY DEF CloseMark
<1>t. TypeOK /\ misused' \subseteq Conns /\ None \notin Conns
  BY <1>1, TouchTypes, CloseAssumption DEF OwnInv
<1>2. /\ at' \in [Threads -> Slots] /\ at'[t].pc = "idle" /\ at'[t].conn = None
      /\ \A u \in Threads : u # t => at'[u] = at[u]
  BY <1>1, <1>t, DoneFacts
<1>3. TypeOK'
  BY <1>1, <1>t, <1>2 DEF TypeOK, sweeper
<1> SUFFICES ASSUME raced = {} PROVE Own'
  BY <1>1, <1>3 DEF OwnInv
<1>0. Own
  BY DEF OwnInv
<1>4. At(t, c, Closing) /\ At(t, c, Past)
  BY <1>1 DEF At, Closing, Past
<1>5. \A d \in Conns : d # c => closed'[d] = closed[d]
  BY <1>1, <1>t DEF TypeOK
<1>6. \A u \in Threads, d \in Conns :
         /\ At(u, d, Past)' => At(u, d, Past)
         /\ At(u, d, Closing)' => At(u, d, Closing)
         /\ d # c /\ At(u, d, Past) => At(u, d, Past)'
         /\ at'[u].conn = d => at[u].conn = d
  BY <1>1, <1>2, <1>t DEF At, Past, Closing
<1>7. \A u \in Threads : ~At(u, c, Closing)'
  <2>1. ~At(Other(t), c, Closing)
    BY <1>0, <1>4 DEF Own, OneCloser
  <2>2. ~At(t, c, Closing)'
    BY <1>2, <1>t DEF At
  <2> QED BY <1>6, <2>1, <2>2, ThreadFacts
<1>8. object[c] # "none" /\ \A f \in Fds : openFd[f] # c
  BY <1>0, <1>1, <1>4 DEF Own, Unborn, Theirs
<1>9. Unborn' /\ Known'
  BY <1>0, <1>1, <1>5, <1>6, <1>8 DEF Own, Unborn, Known
<1>10. OneCloser'
  <2> SUFFICES ASSUME NEW u \in Threads, NEW d \in Conns, At(u, d, Closing)'
               PROVE  ~closed'[d] /\ ~At(Other(u), d, Closing)'
    BY ThreadFacts DEF OneCloser
  <2>1. d # c /\ At(u, d, Closing) /\ Other(u) \in Threads
    BY <1>6, <1>7, ThreadFacts
  <2>2. ~closed[d] /\ ~At(Other(u), d, Closing)
    BY <1>0, <2>1 DEF Own, OneCloser
  <2> QED BY <1>5, <1>6, <2>1, <2>2
<1>11. Theirs'
  BY <1>0, <1>1, <1>5, <1>6, <1>8 DEF Own, Theirs
<1>12. Ours'
  <2> SUFFICES ASSUME NEW d \in Conns, object[d] # "none", ~closed'[d],
                      \A u \in Threads : ~At(u, d, Past)'
               PROVE  fd[d] \in Fds /\ openFd[fd[d]] = d
    BY <1>1 DEF Ours
  <2>1. d # c
    BY <1>1, <1>t DEF TypeOK
  <2> QED BY <1>0, <1>5, <1>6, <2>1 DEF Own, Ours
<1>13. (foreign = {})'
  BY <1>0, <1>1 DEF Own
<1> QED BY <1>9, <1>10, <1>11, <1>12, <1>13 DEF Own

\* The event loop and the worker, outside closeSocket
LEMMA EventOwn == ASSUME OwnInv, NEW c \in Conns, Event(c) PROVE OwnInv'
<1>1. /\ at["loop"] = Idle /\ Go("loop", "event", c) /\ c \in {openFd[f] : f \in Fds}
      /\ UNCHANGED <<conns, cqat, toBeClosedConns, task, sweeper, run, history>>
  BY DEF Event
<1>t. TypeOK /\ "loop" \in Threads
  BY DEF OwnInv, Threads
<1>2. /\ at' \in [Threads -> Slots] /\ at'["loop"].pc = "event" /\ at'["loop"].conn = c
      /\ \A u \in Threads : u # "loop" => at'[u] = at[u]
  BY <1>1, <1>t, GoFacts DEF Pcs
<1>3. TypeOK'
  BY <1>1, <1>t, <1>2 DEF TypeOK, conns, sweeper, history
<1>4. \A u \in Threads : /\ at'[u].pc \in Closing => at'[u] = at[u]
                         /\ at[u].pc \in Closing => at'[u] = at[u]
                         /\ \A d \in Conns : d # c => (at'[u].conn = d => at[u].conn = d)
  BY <1>1, <1>2, ThreadFacts DEF Closing
<1>5. raced = {} => object[c] # "none"
  BY <1>1 DEF OwnInv, Own, Theirs
<1>6. CASE raced = {}
  BY <1>1, <1>3, <1>4, <1>5, <1>6, QuietOwn DEF conns, history
<1>7. CASE raced # {}
  BY <1>1, <1>3, <1>7 DEF OwnInv, history
<1> QED BY <1>6, <1>7

LEMMA DispatchOwn == ASSUME OwnInv, NEW c \in Conns, Dispatch(c) PROVE OwnInv'
<1>1. /\ at["loop"].pc = "event" /\ at["loop"].conn = c /\ Touch(c) /\ Done("loop")
      /\ task' = task \/ task' = [task EXCEPT ![c] = 0]
      /\ UNCHANGED <<conns, cqat, toBeClosedConns, sweeper, run, foreign, raced>>
  BY DEF Dispatch
<1>t. TypeOK /\ misused' \subseteq Conns /\ None \notin Conns /\ "loop" \in Threads
  BY <1>1, TouchTypes, CloseAssumption DEF OwnInv, Threads
<1>2. /\ at' \in [Threads -> Slots] /\ at'["loop"].pc = "idle" /\ at'["loop"].conn = None
      /\ \A u \in Threads : u # "loop" => at'[u] = at[u]
  BY <1>1, <1>t, DoneFacts
<1>3. TypeOK' /\ \A d \in Conns : d # c => task'[d] = task[d]
  BY <1>1, <1>t, <1>2 DEF TypeOK, conns, sweeper
<1>4. \A u \in Threads : /\ at'[u].pc \in Closing => at'[u] = at[u]
                         /\ at[u].pc \in Closing => at'[u] = at[u]
                         /\ \A d \in Conns : at'[u].conn = d => at[u].conn = d
  BY <1>1, <1>2, <1>t DEF Closing
<1>5. raced = {} => object[c] # "none"
  BY <1>1, <1>t DEF OwnInv, Own, Unborn
<1>6. CASE raced = {}
  BY <1>1, <1>3, <1>4, <1>5, <1>6, QuietOwn DEF conns
<1>7. CASE raced # {}
  BY <1>1, <1>3, <1>7 DEF OwnInv
<1> QED BY <1>6, <1>7

LEMMA HangupOwn == ASSUME OwnInv, NEW c \in Conns, Hangup(c) PROVE OwnInv'
<1>1. /\ at["loop"].pc = "event" /\ at["loop"].conn = c /\ Go("loop", "test", c)
      /\ UNCHANGED <<conns, cqat, toBeClosedConns, task, sweeper, run, history>>
  BY DEF Hangup
<1>t. TypeOK /\ "loop" \in Threads
  BY DEF OwnInv, Threads
<1>2. /\ at' \in [Threads -> Slots] /\ at'["loop"].pc = "test" /\ at'["loop"].conn = c
      /\ \A u \in Threads : u # "loop" => at'[u] = at[u]
  BY <1>1, <1>t, GoFacts DEF Pcs
<1>3. TypeOK'
  BY <1>1, <1>t, <1>2 DEF TypeOK, conns, sweeper, history
<1>4. \A u \in Threads : /\ at'[u].pc \in Closing => at'[u] = at[u]
                         /\ at[u].pc \in Closing => at'[u] = at[u]
                         /\ at'[u].conn = at[u].conn
  BY <1>1, <1>2 DEF Closing
<1> QED BY <1>1, <1>3, <1>4, QuietOwn DEF conns, history

LEMMA RunTaskOwn == ASSUME OwnInv, NEW c \in Conns, RunTask(c) PROVE OwnInv'
<1>1. /\ at["worker"] = Idle /\ task[c] >= 0 /\ task' = [task EXCEPT ![c] = -1] /\ Touch(c)
      /\ at' = at \/ Go("worker", "test", c)
      /\ UNCHANGED <<conns, cqat, toBeClosedConns, sweeper, run, foreign, raced>>
  BY DEF RunTask
<1>t. TypeOK /\ misused' \subseteq Conns /\ "worker" \in Threads
  BY <1>1, TouchTypes DEF OwnInv, Threads
<1>2. /\ at' \in [Threads -> Slots]
      /\ \A u \in Threads : \/ at'[u] = at[u]
                            \/ u = "worker" /\ at'[u].pc = "test" /\ at'[u].conn = c
  BY <1>1, <1>t, GoFacts DEF Pcs, TypeOK
<1>3. TypeOK' /\ \A d \in Conns : d # c => task'[d] = task[d]
  BY <1>1, <1>t, <1>2 DEF TypeOK, conns, sweeper
<1>4. \A u \in Threads : /\ at'[u].pc \in Closing => at'[u] = at[u]
                         /\ at[u].pc \in Closing => at'[u] = at[u]
                         /\ \A d \in Conns : d # c => (at'[u].conn = d => at[u].conn = d)
  BY <1>1, <1>2, ThreadFacts DEF Closing
<1>5. raced = {} => object[c] # "none"
  BY <1>1 DEF OwnInv, Own, Unborn
<1>6. CASE raced = {}
  BY <1>1, <1>3, <1>4, <1>5, <1>6, QuietOwn DEF conns
<1>7. CASE raced # {}
  BY <1>1, <1>3, <1>7 DEF OwnInv
<1> QED BY <1>6, <1>7

\* The sweep, the clock and the end touch no descriptor.
LEMMA SweeperOwn == ASSUME OwnInv, Sweeper \/ Stop \/ Tick PROVE OwnInv'
<1>t. TypeOK
  BY DEF OwnInv
<1>1. CASE Wake \/ SweepEnds
  <2>1. /\ UNCHANGED <<conns, cqat, toBeClosedConns, task, at, run, history>>
        /\ slept' = slept \/ slept' = FALSE
        /\ counter' \in {0, counter, counter + 1}
        /\ sweep' \in {0, -1, sweep}
    BY <1>1 DEF Wake, SweepEnds
  <2>2. slept' \in BOOLEAN
    BY <1>t, <2>1, Zenon DEF TypeOK
  <2>3. counter' \in Nat /\ sweep' \in Int
    BY <1>t, <2>1 DEF TypeOK
  <2>4. TypeOK'
    BY <1>t, <2>1, <2>2, <2>3 DEF TypeOK, conns, history
  <2> QED BY <2>1, <2>4, QuietOwn DEF conns, history
<1>2. CASE SweepOne
  <2> DEFINE c == Head(toBeClosedConns)
             q == Tail(toBeClosedConns)
  <2>1. /\ toBeClosedConns # <<>> /\ Touch(c)
        /\ UNCHANGED <<fd, openFd, closed, cqat, task, at, counter, slept, run, foreign, raced>>
        /\ \/ /\ object' = [object EXCEPT ![c] = "deleted"]
              /\ toBeClosedConns' = q /\ sweep' = sweep
           \/ /\ object' = object /\ toBeClosedConns' = Append(q, c)
              /\ sweep' \in {-1, sweep + 1}
    BY <1>2 DEF SweepOne
  <2>2. /\ c \in Conns /\ q \in Seq(Conns) /\ Append(q, c) \in Seq(Conns) /\ sweep' \in Int
        /\ \A d : d \in Elems(toBeClosedConns) <=> d \in Elems(q) \/ d = c
        /\ \A d : d \in Elems(Append(q, c)) <=> d \in Elems(q) \/ d = c
    <3>1. toBeClosedConns \in Seq(Conns) /\ sweep \in Int
      BY <1>t DEF TypeOK
    <3>2. /\ c \in Conns /\ q \in Seq(Conns)
          /\ \A d : d \in Elems(toBeClosedConns) <=> d \in Elems(q) \/ d = c
      BY <2>1, <3>1, TailFacts
    <3> HIDE DEF c, q
    <3>3. Append(q, c) \in Seq(Conns) /\ \A d : d \in Elems(Append(q, c)) <=> d \in Elems(q) \/ d = c
      BY <3>2, AppendFacts
    <3> QED BY <2>1, <3>1, <3>2, <3>3
  <2>3. misused' \subseteq Conns
    BY <1>t, <2>1, <2>2, TouchTypes
  <2> HIDE DEF c, q
  <2>4. TypeOK'
    BY <1>t, <2>1, <2>2, <2>3 DEF TypeOK
  <2> SUFFICES ASSUME raced = {} PROVE OwnInv'
    BY <2>1, <2>4 DEF OwnInv
  <2>5. object[c] # "none"
    BY <2>2 DEF OwnInv, Own, Known
  <2>6. \A d \in Conns : object'[d] = "none" <=> object[d] = "none"
    BY <1>t, <2>1, <2>2, <2>5 DEF TypeOK
  <2>7. \A d \in Conns : d \in Elems(toBeClosedConns') => d \in Elems(toBeClosedConns)
    BY <2>1, <2>2
  <2> QED BY <2>1, <2>4, <2>6, <2>7, QuietOwn
<1>3. CASE Stop
  <2>1. /\ at = [t \in Threads |-> Idle] /\ run' = FALSE
        /\ at' = [t \in Threads |-> [pc |-> "ended", conn |-> None]]
        /\ UNCHANGED <<conns, cqat, toBeClosedConns, task, sweeper, history>>
    BY <1>3 DEF Stop
  <2>2. /\ at' \in [Threads -> Slots]
        /\ \A t \in Threads : at'[t].pc = "ended" /\ at'[t].conn = at[t].conn /\ at[t].pc = "idle"
    BY <2>1 DEF Slots, Pcs, Idle
  <2>3. TypeOK'
    BY <1>t, <2>1, <2>2 DEF TypeOK, conns, sweeper, history
  <2> QED BY <2>1, <2>2, <2>3, QuietOwn DEF conns, history, Closing
<1>4. CASE Tick
  <2>1. /\ cqat' = [c \in Conns |-> IF cqat[c] > Grace THEN cqat[c] ELSE cqat[c] + 1]
        /\ task' = [c \in Conns |-> IF task[c] = -1 THEN -1 ELSE task[c] + 1]
        /\ slept' = TRUE
        /\ UNCHANGED <<conns, toBeClosedConns, at, sweep, counter, run, history>>
    BY <1>4 DEF Tick
  <2>2. cqat' \in [Conns -> Nat] /\ task' \in [Conns -> Int]
    BY <1>t, <2>1 DEF TypeOK
  <2>3. TypeOK'
    BY <1>t, <2>1, <2>2 DEF TypeOK, conns, history
  <2>4. CASE raced = {}
    <3>1. \A c \in Conns : object[c] = "none" => task'[c] = task[c]
      BY <2>1, <2>4 DEF OwnInv, Own, Unborn
    <3> QED BY <2>1, <2>3, <3>1, QuietOwn DEF conns, history
  <2>5. CASE raced # {}
    BY <2>1, <2>3, <2>5 DEF OwnInv, history
  <2> QED BY <2>4, <2>5
<1> QED BY <1>1, <1>2, <1>3, <1>4 DEF Sweeper

LEMMA InitOwn == Init => OwnInv
<1> SUFFICES ASSUME Init PROVE OwnInv
  OBVIOUS
<1>1. TypeOK
  <2>1. /\ object \in [Conns -> {"none", "live", "deleted"}] /\ fd \in [Conns -> Fds \cup {None}]
        /\ openFd \in [Fds -> Conns \cup {None}]
        /\ cqat \in [Conns -> Nat] /\ toBeClosedConns \in Seq(Conns) /\ task \in [Conns -> Int]
    BY DEF Init
  <2>2. at \in [Threads -> Slots] /\ sweep \in Int /\ counter \in Nat
    BY ThreadFacts DEF Init
  <2>3. closed \in [Conns -> BOOLEAN]
    BY DEF Init
  <2>4. slept \in BOOLEAN /\ run \in BOOLEAN
    BY Zenon DEF Init
  <2> QED BY <2>1, <2>2, <2>3, <2>4 DEF Init, TypeOK
<1>2. \A t \in Threads : at[t].conn = None /\ at[t].pc = "idle"
  BY ThreadFacts DEF Init
<1>3. Unborn /\ OneCloser /\ Theirs /\ Ours
  BY <1>2, CloseAssumption DEF Init, Unborn, OneCloser, Theirs, Ours, At, Closing
<1>4. Known
  BY DEF Init, Known, Elems
<1> QED BY <1>1, <1>3, <1>4 DEF OwnInv, Own, Init

LEMMA NextOwn == OwnInv /\ [Next]_vars => OwnInv'
<1> SUFFICES ASSUME OwnInv, [Next]_vars PROVE OwnInv'
  OBVIOUS
<1>1. CASE UNCHANGED vars
  <2>1. TypeOK'
    BY <1>1 DEF OwnInv, TypeOK, vars, conns, sweeper, history
  <2> QED BY <1>1, <2>1, QuietOwn DEF vars, conns, sweeper, history
<1>2. CASE Loop
  BY <1>2, AcceptedOwn, EventOwn, DispatchOwn, HangupOwn DEF Loop
<1>3. CASE Worker
  BY <1>3, RunTaskOwn DEF Worker
<1>4. CASE \E t \in Threads : CloseSocket(t)
  BY <1>4, CloseTestOwn, CloseFdOwn, CloseConnectionOwn, CloseMarkOwn DEF CloseSocket
<1>5. CASE Sweeper \/ Stop \/ Tick
  BY <1>5, SweeperOwn
<1> QED BY <1>1, <1>2, <1>3, <1>4, <1>5 DEF Next

\* The types and Own hold in every reachable state, for any constants: closeSocket
\* of the two threads, accept and the sweep may interleave in any way.
THEOREM OwnAlways == Spec => []OwnInv
  BY InitOwn, NextOwn, PTL DEF Spec

\* Every variable keeps its type.
THEOREM TypeCorrect == Spec => []TypeOK
<1>1. OwnInv => TypeOK
  BY DEF OwnInv
<1> QED BY <1>1, OwnAlways, PTL

\* No closeSocket gives back a number the kernel has handed to another connection,
\* for any number of connections and descriptors and whatever the sweep does.
THEOREM ClosesOwnDescriptorHolds == Spec => []ClosesOwnDescriptor
<1>1. OwnInv => ClosesOwnDescriptor
  BY DEF OwnInv, Own, ClosesOwnDescriptor
<1> QED BY <1>1, OwnAlways, PTL

-----------------------------------------------------------------------------
(* Socket objects *)

Queued(c) == c \in Elems(toBeClosedConns)

\* What a thread, a task, the kernel or the queue knows has not been deleted.
Held == \A c \in Conns :
           /\ \A t \in Threads : at[t].conn = c => object[c] = "live"
           /\ task[c] # -1 => object[c] = "live" /\ 0 <= task[c] /\ task[c] <= MaxWait
           /\ \A f \in Fds : openFd[f] = c => object[c] = "live"
           /\ Queued(c) => object[c] = "live"

\* A connection is in the queue once; until it is closed its closer is at it.
Once == /\ Distinct(toBeClosedConns)
        /\ \A c \in Conns : Queued(c) /\ ~closed[c] => \E t \in Threads : At(t, c, {"mark"})

\* A queued connection that somebody still knows has not been queued for long.
Young == \A c \in Conns :
            /\ \A t \in Threads : At(t, c, {"mark"}) => cqat[c] = 0
            /\ Queued(c) /\ task[c] # -1 => cqat[c] <= task[c]
            /\ Queued(c) => \A t \in Threads : at[t].conn = c => cqat[c] <= MaxWait

Safe == Held /\ Once /\ Young /\ misused = {}

SafeInv == MaxWait <= Grace /\ OwnInv /\ (raced = {} => Safe)

\* A live object may be touched.
LEMMA TouchLive ==
    ASSUME NEW c, Touch(c), object[c] = "live" PROVE misused' = misused
  BY DEF Touch

\* The descriptor of a queued connection has been given back.
LEMMA QueuedNotOpen ==
    ASSUME Own, Once, NEW c \in Conns, Queued(c)
    PROVE  \A f \in Fds : openFd[f] # c
<1>1. CASE closed[c]
  BY <1>1 DEF Own, Theirs
<1>2. CASE ~closed[c]
  <2>1. PICK t \in Threads : At(t, c, {"mark"})
    BY <1>2 DEF Once
  <2>2. At(t, c, Past)
    BY <2>1 DEF At, Past
  <2> QED BY <2>2 DEF Own, Theirs
<1> QED BY <1>1, <1>2

\* Steps that delete nothing and leave the queue and the end of closeSocket alone
LEMMA QuietSafe ==
    ASSUME Safe, UNCHANGED <<closed, cqat, toBeClosedConns>>, misused' = {},
           MaxWait \in Nat, cqat \in [Conns -> Nat],
           \A c \in Conns : object[c] = "live" => object'[c] = "live",
           \A c \in Conns, t \in Threads : at'[t].conn = c =>
               \/ at[t].conn = c
               \/ object[c] = "live" /\ (Queued(c) => cqat[c] <= MaxWait),
           \A c \in Conns, t \in Threads : At(t, c, {"mark"})' <=> At(t, c, {"mark"}),
           \A c \in Conns :
               \/ task'[c] \in {task[c], -1}
               \/ task'[c] = 0 /\ object[c] = "live" /\ (Queued(c) => cqat[c] = 0),
           \A c \in Conns, f \in Fds : openFd'[f] = c => openFd[f] = c \/ object'[c] = "live"
    PROVE  Safe'
<1>1. \A c \in Conns : Queued(c)' <=> Queued(c)
  BY DEF Queued
<1>2. Held'
  <2> SUFFICES ASSUME NEW c \in Conns
               PROVE  /\ \A t \in Threads : at'[t].conn = c => object'[c] = "live"
                      /\ task'[c] # -1 => object'[c] = "live" /\ 0 <= task'[c] /\ task'[c] <= MaxWait
                      /\ \A f \in Fds : openFd'[f] = c => object'[c] = "live"
                      /\ Queued(c)' => object'[c] = "live"
    BY DEF Held
  <2>1. \A t \in Threads : at'[t].conn = c => object'[c] = "live"
    BY DEF Safe, Held
  <2>2. task'[c] # -1 => object'[c] = "live" /\ 0 <= task'[c] /\ task'[c] <= MaxWait
    BY DEF Safe, Held
  <2>3. \A f \in Fds : openFd'[f] = c => object'[c] = "live"
    BY DEF Safe, Held
  <2>4. Queued(c)' => object'[c] = "live"
    BY <1>1 DEF Safe, Held
  <2> QED BY <2>1, <2>2, <2>3, <2>4
<1>3. Once'
  BY <1>1 DEF Safe, Once
<1>4. Young'
  <2> SUFFICES ASSUME NEW c \in Conns
               PROVE  /\ \A t \in Threads : At(t, c, {"mark"})' => cqat[c] = 0
                      /\ Queued(c) /\ task'[c] # -1 => cqat[c] <= task'[c]
                      /\ Queued(c) => \A t \in Threads : at'[t].conn = c => cqat[c] <= MaxWait
    BY <1>1 DEF Young
  <2>1. \A t \in Threads : At(t, c, {"mark"})' => cqat[c] = 0
    BY DEF Safe, Young
  <2>2. Queued(c) /\ task'[c] # -1 => cqat[c] <= task'[c]
    BY DEF Safe, Young
  <2>3. Queued(c) => \A t \in Threads : at'[t].conn = c => cqat[c] <= MaxWait
    BY DEF Safe, Young
  <2> QED BY <2>1, <2>2, <2>3
<1> QED BY <1>2, <1>3, <1>4 DEF Safe

LEMMA BoundTypes ==
    ASSUME SafeInv
    PROVE  MaxWait \in Nat /\ Grace \in Nat /\ MaxWait <= Grace /\ None \notin Conns /\ TypeOK
  BY CloseAssumption DEF SafeInv, OwnInv

LEMMA LoopSafe ==
    ASSUME SafeInv, raced = {}, NEW c \in Conns, Accepted(c) \/ Event(c) \/ Dispatch(c) \/ Hangup(c)
    PROVE  Safe'
<1>t. MaxWait \in Nat /\ None \notin Conns /\ TypeOK /\ Own /\ Safe /\ "loop" \in Threads /\ cqat \in [Conns -> Nat]
  BY BoundTypes DEF SafeInv, OwnInv, Threads, TypeOK
<1>1. CASE Accepted(c)
  <2>1. /\ object' = [object EXCEPT ![c] = "live"]
        /\ UNCHANGED <<closed, cqat, toBeClosedConns, task, at, history>>
    BY <1>1 DEF Accepted
  <2>2. PICK f \in Fds : openFd' = [openFd EXCEPT ![f] = c]
    BY <1>1 DEF Accepted
  <2>3. /\ \A d \in Conns : object[d] = "live" => object'[d] = "live"
        /\ \A d \in Conns, g \in Fds : openFd'[g] = d => openFd[g] = d \/ object'[d] = "live"
    BY <1>t, <2>1, <2>2 DEF TypeOK
  <2>4. misused' = {} /\ \A d \in Conns, t \in Threads : At(t, d, {"mark"})' <=> At(t, d, {"mark"})
    BY <1>t, <2>1 DEF Safe, history, At
  <2> QED BY <1>t, <2>1, <2>3, <2>4, QuietSafe
<1>2. CASE Event(c)
  <2>1. /\ at["loop"] = Idle /\ Go("loop", "event", c) /\ c \in {openFd[f] : f \in Fds}
        /\ UNCHANGED <<conns, cqat, toBeClosedConns, task, history>>
    BY <1>2 DEF Event
  <2>2. /\ at'["loop"].pc = "event" /\ at'["loop"].conn = c
        /\ \A u \in Threads : u # "loop" => at'[u] = at[u]
    BY <1>t, <2>1, GoFacts DEF Pcs
  <2>3. object[c] = "live" /\ ~Queued(c)
    BY <1>t, <2>1, QueuedNotOpen DEF Safe, Held
  <2>4. misused' = {} /\ \A d \in Conns, t \in Threads : At(t, d, {"mark"})' <=> At(t, d, {"mark"})
    BY <1>t, <2>1, <2>2, ThreadFacts DEF Safe, history, At
  <2> QED BY <1>t, <2>1, <2>2, <2>3, <2>4, QuietSafe DEF conns
<1>3. CASE Dispatch(c)
  <2>1. /\ at["loop"].pc = "event" /\ at["loop"].conn = c /\ Touch(c) /\ Done("loop")
        /\ task' = task \/ (~closed[c] /\ task' = [task EXCEPT ![c] = 0])
        /\ UNCHANGED <<conns, cqat, toBeClosedConns>>
    BY <1>3 DEF Dispatch
  <2>2. /\ at'["loop"].pc = "idle" /\ at'["loop"].conn = None
        /\ \A u \in Threads : u # "loop" => at'[u] = at[u]
    BY <1>t, <2>1, DoneFacts
  <2>3. object[c] = "live" /\ misused' = {}
    BY <1>t, <2>1, TouchLive DEF Safe, Held
  <2>4. ~closed[c] /\ Queued(c) => cqat[c] = 0
    BY <1>t DEF Safe, Once, Young
  <2>5. \A d \in Conns : \/ task'[d] = task[d]
                         \/ task'[d] = 0 /\ object[d] = "live" /\ (Queued(d) => cqat[d] = 0)
    BY <1>t, <2>1, <2>3, <2>4 DEF TypeOK
  <2>6. \A d \in Conns, t \in Threads : At(t, d, {"mark"})' <=> At(t, d, {"mark"})
    BY <2>1, <2>2 DEF At
  <2> QED BY <1>t, <2>1, <2>2, <2>3, <2>5, <2>6, QuietSafe DEF conns
<1>4. CASE Hangup(c)
  <2>1. /\ at["loop"].pc = "event" /\ at["loop"].conn = c /\ Go("loop", "test", c)
        /\ UNCHANGED <<conns, cqat, toBeClosedConns, task, history>>
    BY <1>4 DEF Hangup
  <2>2. /\ at'["loop"].pc = "test" /\ at'["loop"].conn = c
        /\ \A u \in Threads : u # "loop" => at'[u] = at[u]
    BY <1>t, <2>1, GoFacts DEF Pcs
  <2>3. misused' = {} /\ \A d \in Conns, t \in Threads : At(t, d, {"mark"})' <=> At(t, d, {"mark"})
    BY <1>t, <2>1, <2>2 DEF Safe, history, At
  <2> QED BY <1>t, <2>1, <2>2, <2>3, QuietSafe DEF conns
<1> QED BY <1>1, <1>2, <1>3, <1>4

LEMMA RunTaskSafe == ASSUME SafeInv, raced = {}, NEW c \in Conns, RunTask(c) PROVE Safe'
<1>t. MaxWait \in Nat /\ None \notin Conns /\ TypeOK /\ Safe /\ "worker" \in Threads
  BY BoundTypes DEF SafeInv, Threads
<1>1. /\ at["worker"] = Idle /\ task[c] >= 0 /\ task' = [task EXCEPT ![c] = -1] /\ Touch(c)
      /\ at' = at \/ Go("worker", "test", c)
      /\ UNCHANGED <<conns, cqat, toBeClosedConns>>
  BY DEF RunTask
<1>2. \A u \in Threads : \/ at'[u] = at[u]
                         \/ u = "worker" /\ at'[u].pc = "test" /\ at'[u].conn = c
  BY <1>1, <1>t, GoFacts DEF Pcs
<1>3. task[c] \in Int /\ cqat \in [Conns -> Nat]
  BY <1>t DEF TypeOK
<1>4. object[c] = "live" /\ task[c] <= MaxWait /\ (Queued(c) => cqat[c] <= task[c])
  BY <1>t, <1>1, <1>3 DEF Safe, Held, Young
<1>5. misused' = {}
  BY <1>t, <1>1, <1>4, TouchLive DEF Safe
<1>6. \A d \in Conns : task'[d] \in {task[d], -1}
  BY <1>t, <1>1 DEF TypeOK
<1>7. \A d \in Conns, t \in Threads : At(t, d, {"mark"})' <=> At(t, d, {"mark"})
  BY <1>1, <1>2, ThreadFacts DEF At
<1>8. Queued(c) => cqat[c] <= MaxWait
  BY <1>3, <1>4, <1>t
<1> QED BY <1>t, <1>1, <1>2, <1>3, <1>4, <1>5, <1>6, <1>7, <1>8, QuietSafe DEF conns

LEMMA CloseTestSafe ==
    ASSUME SafeInv, raced = {}, NEW t \in Threads, NEW c \in Conns, CloseTest(t, c) \/ CloseFd(t, c)
    PROVE  Safe'
<1>t. MaxWait \in Nat /\ None \notin Conns /\ TypeOK /\ Safe /\ cqat \in [Conns -> Nat]
  BY BoundTypes DEF SafeInv, TypeOK
<1>1. /\ at[t].pc \in {"test", "fd"} /\ at[t].conn = c /\ Touch(c)
      /\ Done(t) \/ Go(t, "fd", c) \/ Go(t, "queue", c)
      /\ openFd' = openFd \/ openFd' = [openFd EXCEPT ![fd[c]] = None]
      /\ UNCHANGED <<object, closed, cqat, toBeClosedConns, task>>
  BY DEF CloseTest, CloseFd, conns
<1>2. /\ at'[t].pc \in {"idle", "fd", "queue"} /\ at'[t].conn \in {c, None}
      /\ \A u \in Threads : u # t => at'[u] = at[u]
  BY <1>t, <1>1, GoFacts, DoneFacts DEF Pcs
<1>3. misused' = {}
  BY <1>t, <1>1, TouchLive DEF Safe, Held
<1>4. \A d \in Conns, u \in Threads : At(u, d, {"mark"})' <=> At(u, d, {"mark"})
  BY <1>1, <1>2 DEF At
<1>5. \A d \in Conns, f \in Fds : openFd'[f] = d => openFd[f] = d
  BY <1>1, <1>t DEF TypeOK
<1> QED BY <1>t, <1>1, <1>2, <1>3, <1>4, <1>5, QuietSafe

\* The closer is alone: the connection is not in the queue yet.
LEMMA CloseConnectionSafe ==
    ASSUME SafeInv, raced = {}, NEW t \in Threads, NEW c \in Conns, CloseConnection(t, c)
    PROVE  Safe'
<1>t. MaxWait \in Nat /\ None \notin Conns /\ TypeOK /\ Own /\ Safe /\ cqat \in [Conns -> Nat]
  BY BoundTypes DEF SafeInv, OwnInv, TypeOK
<1>1. /\ at[t].pc = "queue" /\ at[t].conn = c
      /\ cqat' = [cqat EXCEPT ![c] = 0]
      /\ toBeClosedConns' = Append(toBeClosedConns, c)
      /\ Go(t, "mark", c) /\ Touch(c)
      /\ UNCHANGED <<object, openFd, closed, task>>
  BY DEF CloseConnection, conns
<1>2. /\ at'[t].pc = "mark" /\ at'[t].conn = c
      /\ \A u \in Threads : u # t => at'[u] = at[u]
  BY <1>1, <1>t, GoFacts DEF Pcs
<1>3. object[c] = "live" /\ misused' = {}
  BY <1>1, <1>t, TouchLive DEF Safe, Held
<1>4. At(t, c, Closing) /\ ~At(t, c, {"mark"})
  BY <1>1 DEF At, Closing
<1>5. ~closed[c] /\ ~At(Other(t), c, Closing)
  BY <1>4, <1>t DEF Own, OneCloser
<1>6. ~Queued(c)
  <2>1. ~At(Other(t), c, {"mark"})
    BY <1>5 DEF At, Closing
  <2> QED BY <1>4, <1>5, <2>1, <1>t, ThreadFacts DEF Safe, Once
<1>7. /\ \A d \in Conns : Queued(d)' <=> Queued(d) \/ d = c
      /\ Distinct(toBeClosedConns')
  BY <1>1, <1>6, <1>t, AppendFacts DEF TypeOK, Queued, Safe, Once
<1>8. /\ cqat'[c] = 0 /\ \A d \in Conns : d # c => cqat'[d] = cqat[d]
      /\ \A u \in Threads : at'[u].conn = at[u].conn
      /\ \A u \in Threads, d \in Conns :
           At(u, d, {"mark"})' <=> (At(u, d, {"mark"}) \/ (u = t /\ d = c))
  BY <1>1, <1>2, <1>t DEF At
<1>9. Held'
  BY <1>1, <1>3, <1>7, <1>8, <1>t DEF Safe, Held
<1>10. Once'
  BY <1>1, <1>7, <1>8, <1>t DEF Safe, Once
<1>11. Young'
  <2> SUFFICES ASSUME NEW d \in Conns
               PROVE  /\ \A u \in Threads : At(u, d, {"mark"})' => cqat'[d] = 0
                      /\ Queued(d)' /\ task[d] # -1 => cqat'[d] <= task[d]
                      /\ Queued(d)' => \A u \in Threads : at'[u].conn = d => cqat'[d] <= MaxWait
    BY <1>1 DEF Young
  <2>1. CASE d = c
    BY <1>8, <1>t, <2>1 DEF Safe, Held
  <2>2. CASE d # c
    BY <1>7, <1>8, <1>t, <2>2 DEF Safe, Young
  <2> QED BY <2>1, <2>2
<1> QED BY <1>3, <1>9, <1>10, <1>11 DEF Safe

LEMMA CloseMarkSafe ==
    ASSUME SafeInv, raced = {}, NEW t \in Threads, NEW c \in Conns, CloseMark(t, c)
    PROVE  Safe'
<1>t. None \notin Conns /\ TypeOK /\ Safe
  BY BoundTypes DEF SafeInv
<1>1. /\ at[t].pc = "mark" /\ at[t].conn = c
      /\ closed' = [closed EXCEPT ![c] = TRUE]
      /\ Done(t) /\ Touch(c)
      /\ UNCHANGED <<object, openFd, cqat, toBeClosedConns, task>>
  BY DEF CloseMark
<1>2. /\ at'[t].pc = "idle" /\ at'[t].conn = None
      /\ \A u \in Threads : u # t => at'[u] = at[u]
  BY <1>1, <1>t, DoneFacts
<1>3. misused' = {}
  BY <1>1, <1>t, TouchLive DEF Safe, Held
<1>4. /\ closed'[c] /\ \A d \in Conns : d # c => closed'[d] = closed[d]
      /\ \A d \in Conns : Queued(d)' <=> Queued(d)
  BY <1>1, <1>t DEF TypeOK, Queued
<1>5. \A u \in Threads, d \in Conns :
         /\ At(u, d, {"mark"})' => At(u, d, {"mark"})
         /\ d # c /\ At(u, d, {"mark"}) => At(u, d, {"mark"})'
         /\ at'[u].conn = d => at[u].conn = d
  BY <1>1, <1>2, <1>t DEF At
<1>6. Held'
  BY <1>1, <1>4, <1>5, <1>t DEF Safe, Held
<1>7. Once'
  BY <1>1, <1>4, <1>5, <1>t DEF Safe, Once
<1>8. Young'
  BY <1>1, <1>4, <1>5, <1>t DEF Safe, Young
<1> QED BY <1>3, <1>6, <1>7, <1>8 DEF Safe

\* What a sweep deletes is known to nobody: its grace period outlasted the tasks.
LEMMA SweepOneSafe == ASSUME SafeInv, raced = {}, SweepOne PROVE Safe'
<1>t. /\ MaxWait \in Nat /\ Grace \in Nat /\ MaxWait <= Grace /\ None \notin Conns
      /\ TypeOK /\ Own /\ Safe /\ toBeClosedConns \in Seq(Conns)
      /\ cqat \in [Conns -> Nat] /\ task \in [Conns -> Int]
  BY BoundTypes DEF SafeInv, OwnInv, TypeOK
<1> DEFINE c == Head(toBeClosedConns)
           q == Tail(toBeClosedConns)
<1>1. /\ toBeClosedConns # <<>> /\ Touch(c)
      /\ UNCHANGED <<openFd, closed, cqat, task, at>>
      /\ \/ /\ object' = [object EXCEPT ![c] = "deleted"]
            /\ toBeClosedConns' = q /\ cqat[c] > Grace
         \/ object' = object /\ toBeClosedConns' = Append(q, c)
  BY DEF SweepOne
<1>2. /\ c \in Conns /\ q \in Seq(Conns)
      /\ \A d : d \in Elems(toBeClosedConns) <=> d \in Elems(q) \/ d = c
      /\ Distinct(q) /\ c \notin Elems(q)
  BY <1>1, <1>t, TailFacts DEF Safe, Once
<1> HIDE DEF c, q
<1>3. /\ \A d : d \in Elems(Append(q, c)) <=> d \in Elems(q) \/ d = c
      /\ Distinct(Append(q, c))
  BY <1>2, AppendFacts
<1>4. Queued(c) /\ object[c] = "live" /\ misused' = {}
  <2>1. Queued(c)
    BY <1>2 DEF Queued
  <2>2. object[c] = "live"
    BY <1>2, <2>1, <1>t DEF Safe, Held
  <2> QED BY <1>1, <1>t, <2>1, <2>2, TouchLive DEF Safe
<1>5. \A u \in Threads, d \in Conns : At(u, d, {"mark"})' <=> At(u, d, {"mark"})
  BY <1>1 DEF At
<1>6. CASE object' = object /\ toBeClosedConns' = Append(q, c)
  <2>1. Distinct(toBeClosedConns') /\ \A d \in Conns : Queued(d)' <=> Queued(d)
    BY <1>2, <1>3, <1>6 DEF Queued
  <2>2. Held'
    BY <1>1, <1>6, <1>t, <2>1 DEF Safe, Held
  <2>3. Once' /\ Young'
    BY <1>1, <1>5, <1>t, <2>1 DEF Safe, Once, Young
  <2> QED BY <1>4, <2>2, <2>3 DEF Safe
<1>7. CASE /\ object' = [object EXCEPT ![c] = "deleted"]
           /\ toBeClosedConns' = q /\ cqat[c] > Grace
  <2>1. Distinct(toBeClosedConns') /\ \A d \in Conns : Queued(d)' <=> Queued(d) /\ d # c
    BY <1>2, <1>7 DEF Queued
  <2>2. cqat[c] \in Nat /\ task[c] \in Int /\ ~(cqat[c] <= MaxWait)
    BY <1>2, <1>7, <1>t
  <2>3. \A u \in Threads : at[u].conn # c
    BY <1>2, <1>4, <1>t, <2>2 DEF Safe, Young
  <2>4. task[c] = -1
    BY <1>2, <1>4, <1>t, <2>2 DEF Safe, Young, Held
  <2>5. \A f \in Fds : openFd[f] # c
    BY <1>2, <1>4, <1>t, QueuedNotOpen DEF Safe
  <2>6. \A d \in Conns : d # c => object'[d] = object[d]
    BY <1>2, <1>7, <1>t DEF TypeOK
  <2>7. Held'
    BY <1>1, <1>t, <2>1, <2>3, <2>4, <2>5, <2>6 DEF Safe, Held
  <2>8. Once' /\ Young'
    BY <1>1, <1>5, <1>t, <2>1 DEF Safe, Once, Young
  <2> QED BY <1>4, <2>7, <2>8 DEF Safe
<1> QED BY <1>1, <1>6, <1>7

\* A second passes for the queue and for the tasks alike.
LEMMA TickSafe == ASSUME SafeInv, raced = {}, Tick PROVE Safe'
<1>t. /\ MaxWait \in Nat /\ Grace \in Nat /\ None \notin Conns /\ Safe
      /\ cqat \in [Conns -> Nat] /\ task \in [Conns -> Int]
  BY BoundTypes DEF SafeInv, TypeOK
<1>1. /\ \A t \in Threads : at[t].conn = None
      /\ \A c \in Conns : task[c] < MaxWait
      /\ cqat' = [c \in Conns |-> IF cqat[c] > Grace THEN cqat[c] ELSE cqat[c] + 1]
      /\ task' = [c \in Conns |-> IF task[c] = -1 THEN -1 ELSE task[c] + 1]
      /\ UNCHANGED <<conns, toBeClosedConns, at, history>>
  BY DEF Tick
<1>2. /\ \A t \in Threads, c \in Conns : at'[t].conn # c /\ ~At(t, c, {"mark"})' /\ ~At(t, c, {"mark"})
      /\ \A c \in Conns : Queued(c)' <=> Queued(c)
  BY <1>1, <1>t DEF At, Queued
<1>3. \A c \in Conns : /\ task'[c] = (IF task[c] = -1 THEN -1 ELSE task[c] + 1)
                       /\ cqat'[c] <= cqat[c] + 1 /\ cqat'[c] \in Nat
  BY <1>1, <1>t
<1>4. Held'
  <2> SUFFICES ASSUME NEW c \in Conns
               PROVE  /\ task'[c] # -1 => object'[c] = "live" /\ 0 <= task'[c] /\ task'[c] <= MaxWait
                      /\ \A f \in Fds : openFd'[f] = c => object'[c] = "live"
                      /\ Queued(c)' => object'[c] = "live"
    BY <1>2 DEF Held
  <2>1. task'[c] # -1 => object'[c] = "live" /\ 0 <= task'[c] /\ task'[c] <= MaxWait
    BY <1>1, <1>3, <1>t DEF Safe, Held, conns
  <2>2. /\ \A f \in Fds : openFd'[f] = c => object'[c] = "live"
        /\ Queued(c)' => object'[c] = "live"
    BY <1>1, <1>2, <1>t DEF Safe, Held, conns
  <2> QED BY <2>1, <2>2
<1>5. Once'
  BY <1>1, <1>2, <1>t DEF Safe, Once, conns
<1>6. Young'
  <2> SUFFICES ASSUME NEW c \in Conns, Queued(c), task'[c] # -1 PROVE cqat'[c] <= task'[c]
    BY <1>2 DEF Young
  <2>1. task[c] # -1 /\ cqat[c] <= task[c]
    BY <1>3, <1>t DEF Safe, Young
  <2> QED BY <1>3, <1>t, <2>1
<1>7. misused' = {}
  BY <1>1, <1>t DEF Safe, history
<1> QED BY <1>4, <1>5, <1>6, <1>7 DEF Safe

LEMMA RestSafe ==
    ASSUME SafeInv, raced = {}, Wake \/ SweepEnds \/ Stop \/ UNCHANGED vars
    PROVE  Safe'
<1>t. MaxWait \in Nat /\ None \notin Conns /\ Safe /\ cqat \in [Conns -> Nat]
  BY BoundTypes DEF SafeInv, TypeOK
<1>1. /\ UNCHANGED <<object, openFd, closed, cqat, toBeClosedConns, task>>
      /\ misused' = misused
      /\ \/ at' = at
         \/ /\ at = [t \in Threads |-> Idle]
            /\ at' = [t \in Threads |-> [pc |-> "ended", conn |-> None]]
  BY DEF Wake, SweepEnds, Stop, vars, conns, history
<1>2. \A t \in Threads, c \in Conns :
         /\ at'[t].conn = c => at[t].conn = c
         /\ At(t, c, {"mark"})' <=> At(t, c, {"mark"})
  BY <1>1, <1>t, ThreadFacts DEF At
<1>3. misused' = {}
  BY <1>1, <1>t DEF Safe
<1> QED BY <1>t, <1>1, <1>2, <1>3, QuietSafe

LEMMA InitSafe == MaxWait <= Grace /\ Init => SafeInv
<1> SUFFICES ASSUME MaxWait <= Grace, Init PROVE SafeInv
  OBVIOUS
<1>1. /\ \A t \in Threads : at[t].conn = None
      /\ \A c \in Conns : ~Queued(c) /\ task[c] = -1
      /\ \A f \in Fds : openFd[f] = None
      /\ None \notin Conns
  BY ThreadFacts, CloseAssumption DEF Init, Queued, Elems
<1>2. Held /\ Young
  BY <1>1 DEF Held, Young, At
<1>3. Once /\ misused = {}
  BY <1>1 DEF Once, Distinct, Init
<1> QED BY <1>2, <1>3, InitOwn DEF SafeInv, Safe

LEMMA NextSafe == SafeInv /\ [Next]_vars => SafeInv'
<1> SUFFICES ASSUME SafeInv, [Next]_vars PROVE SafeInv'
  OBVIOUS
<1>1. OwnInv' /\ (MaxWait <= Grace)'
  BY NextOwn DEF SafeInv
<1>2. raced' = {} => raced = {}
  BY DEF Next, Loop, Accepted, Event, Dispatch, Hangup, Worker, RunTask, CloseSocket, CloseTest,
         CloseFd, CloseConnection, CloseMark, Sweeper, Wake, SweepOne, SweepEnds, Stop, Tick,
         vars, history
<1> SUFFICES ASSUME raced = {} PROVE Safe'
  BY <1>1, <1>2 DEF SafeInv
<1>3. CASE Loop
  BY <1>3, LoopSafe DEF Loop
<1>4. CASE Worker
  BY <1>4, RunTaskSafe DEF Worker
<1>5. CASE \E t \in Threads : CloseSocket(t)
  BY <1>5, CloseTestSafe, CloseConnectionSafe, CloseMarkSafe DEF CloseSocket
<1>6. CASE Sweeper
  BY <1>6, SweepOneSafe, RestSafe DEF Sweeper
<1> QED BY <1>3, <1>4, <1>5, <1>6, TickSafe, RestSafe DEF Next

\* Own and Safe hold together in every reachable state when no task waits for its
\* worker longer than the grace period of closeConnectionsInternal.
THEOREM SafeAlways == MaxWait <= Grace /\ Spec => []SafeInv
  BY InitSafe, NextSafe, PTL DEF Spec

\* A task, closeSocket or the sweep touches no deleted socket object, for any number
\* of connections, any period and any number of entries put back, as long as no task
\* waits longer than the grace period and no two threads are in one closeSocket.
THEOREM NoUseAfterDeleteHolds == MaxWait <= Grace /\ Spec => []NoUseAfterDelete
<1>1. SafeInv => NoUseAfterDelete
  BY DEF SafeInv, Safe, NoUseAfterDelete
<1> QED BY <1>1, SafeAlways, PTL
=============================================================================
