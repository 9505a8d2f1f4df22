-------------------------- MODULE AtomicContainers --------------------------
(***************************************************************************)
(* What the distributed cache promises its callers: a call takes effect as *)
(* a whole at one moment between its start and its return, with the        *)
(* answer that the containers at that moment give; or it is refused, with  *)
(* no effect, at a moment when it could not have succeeded.  What is       *)
(* applied is the client's query, with the two pushes exchanged, and the   *)
(* answer of isEmpty is lost on its way to the caller.                     *)
(***************************************************************************)
EXTENDS CacheContainers

CONSTANTS Callers, Keys, Commands

VARIABLES boxes,    \* [Keys -> [type, val]], NoBox without a container
          objects,  \* [Keys -> value or NoValue], the single objects
          call,     \* [Callers -> [stage, cmd]]
          result    \* [Callers -> [ok, value]]

NoBox == [type |-> "", val |-> <<>>]

avars == <<boxes, objects, call, result>>

AInit == /\ boxes = [k \in Keys |-> NoBox]
         /\ objects = [k \in Keys |-> NoValue]
         /\ call = [t \in Callers |-> [stage |-> "idle", cmd |-> NoValue]]
         /\ result = [t \in Callers |-> [ok |-> TRUE, value |-> NoValue]]

\* What cmd would do now: the new box, the new object, success and the answer.
Outcome(cmd, box, object) ==
  LET Is(b, o, ok, value) == [box |-> b, object |-> o, ok |-> ok, value |-> value]
      refused == Is(box, object, FALSE, NoValue)
  IN CASE cmd.op = "addobj"    -> Is(box, cmd.v, TRUE, NoValue)
       [] cmd.op = "removeobj" -> Is(box, NoValue, TRUE, NoValue)
       [] cmd.op = "getobj"    -> IF object = NoValue THEN refused ELSE Is(box, object, TRUE, object)
       [] cmd.op = "allocate"  -> IF box # NoBox \/ cmd.v \notin Types THEN refused
                                  ELSE Is([type |-> cmd.v, val |-> <<>>], object, TRUE, NoValue)
       [] cmd.op = "deallocate" -> IF box = NoBox THEN refused ELSE Is(NoBox, object, TRUE, NoValue)
       [] OTHER ->
            IF \/ box = NoBox
               \/ box.type \notin Accepts(cmd.op)
               \/ cmd.op \in Positional /\ ~InRange(cmd, Len(box.val))
            THEN refused
            ELSE LET e == Body(cmd, box.type, box.val)
                 IN IF e.msg # "SUCCESS" THEN refused
                    ELSE Is([box EXCEPT !.val = e.val], object, TRUE, e.value)

Begin(t) == \E cmd \in Commands[t] :
  /\ call[t].stage = "idle"
  /\ call' = [call EXCEPT ![t] = [stage |-> "called", cmd |-> Query(cmd)]]
  /\ UNCHANGED <<boxes, objects, result>>

Apply(t) ==
  LET cmd == call[t].cmd
      o == Outcome(cmd, boxes[cmd.key], objects[cmd.key])
  IN /\ call[t].stage = "called"
     /\ boxes' = [boxes EXCEPT ![cmd.key] = o.box]
     /\ objects' = [objects EXCEPT ![cmd.key] = o.object]
     /\ result' = [result EXCEPT ![t] = [ok |-> o.ok, value |-> o.value]]
     /\ call' = [call EXCEPT ![t].stage = "applied"]

Return(t) == /\ call[t].stage = "applied"
             /\ call' = [call EXCEPT ![t] = [stage |-> "idle", cmd |-> NoValue]]
             /\ \E value \in Read(call[t].cmd, result[t].ok, result[t].value) :
                  result' = [result EXCEPT ![t].value = value]
             /\ UNCHANGED <<boxes, objects>>

ANext == \E t \in Callers : Begin(t) \/ Apply(t) \/ Return(t)

ASpec == AInit /\ [][ANext]_avars
=============================================================================
