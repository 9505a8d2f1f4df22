-------------------------- MODULE CacheContainers --------------------------
(***************************************************************************)
(* What one command of the distributed cache does to one container, once   *)
(* CacheMap holds its lock.  A container is the sequence of its elements   *)
(* in iteration order: a set is sorted, a map is a sequence of             *)
(* <<field, value>> pairs sorted by field, so a position is an index for   *)
(* every type.  A command is a record [op, key, n, v, r]: n a position or  *)
(* a field, v a value or a type, r a number of repetitions.                *)
(***************************************************************************)
EXTENDS Integers, Sequences, FiniteSets, SequencesExt

CONSTANT NoValue  \* the empty response value

Linear == {"list", "vector", "deque"}
Types == Linear \cup {"queue", "set", "map"}

MapOps == {"addmap", "removemap", "getmap", "getbypos", "setmap"}
ObjectOps == {"addobj", "getobj", "removeobj"}

\* The commands whose position the service handler compares with the size of
\* the container in a call of its own, before it calls CacheMap.
Positional == {"insert", "insertrep", "set", "get", "remove", "getbypos", "setmap"}

Ops == MapOps \cup ObjectOps \cup Positional \cup
  {"allocate", "deallocate", "size", "isempty", "clear", "add", "getfront", "getback",
   "pop", "popget", "pushfront", "pushback", "popfront", "popback", "popfrontget", "popbackget"}

\* The query a method of the client composes: pushBackValue asks for a push at
\* the front, pushFrontValue for one at the back.
Query(cmd) == CASE cmd.op = "pushback"  -> [cmd EXCEPT !.op = "pushfront"]
                [] cmd.op = "pushfront" -> [cmd EXCEPT !.op = "pushback"]
                [] OTHER -> cmd

\* What the client's method returns of the response's value.  isEmpty looks for
\* it in the response that is already deleted.
Read(cmd, ok, value) == IF cmd.op = "isempty" /\ ok THEN {0, 1} ELSE {value}

\* The types a method has a branch for.
Accepts(op) ==
  CASE op \in MapOps -> {"map"}
    [] op \in {"size", "isempty"} -> Types
    [] op = "add" -> Types \ {"map"}
    [] op = "clear" -> Types \ {"queue"}
    [] op \in {"get", "remove", "insert"} -> Linear \cup {"set"}
    [] op \in {"set", "insertrep"} -> Linear
    [] op \in {"getfront", "getback"} -> Linear \cup {"queue"}
    [] op \in {"pop", "popget"} -> {"queue"}
    [] OTHER -> {"list", "deque"}  \* push and pop at either end

\* The types a method names only to refuse them with ERR_OPNOTSUPP.
NotSupported(op) ==
  CASE op \in {"set", "get", "remove", "insert", "insertrep"} -> {"queue"}
    [] op \in {"getfront", "getback"} -> {"set"}
    [] op \in {"pop", "popget"} -> Linear \cup {"set"}
    [] op \in {"size", "isempty", "add", "clear"} -> {}
    [] OTHER -> {"queue", "vector", "set"}

\* The exception of a method whose key has no entry.
Absent(op) == IF op \in {"addmap", "removemap"} THEN "ERR_NOTAMAPCONT"
                                               ELSE "ERR_NOKEYCACHEMAP"

\* The exception of a method on a container of a type it has no branch for.
Refusal(op, type) ==
  CASE op \in MapOps -> Absent(op)
    [] op \notin MapOps /\ type \in NotSupported(op) -> "ERR_OPNOTSUPP"
    [] OTHER -> "ERR_INVCONTAINER"

Effect(s, msg, value) == [val |-> s, msg |-> msg, value |-> value]
Done(s) == Effect(s, "SUCCESS", NoValue)
Gives(s, value) == Effect(s, "SUCCESS", value)
Fails(s, msg) == Effect(s, msg, NoValue)

\* Where a new key goes among the sorted keys.
Rank(keys, x) == 1 + Cardinality({i \in DOMAIN keys : keys[i] < x})
Fields(s) == [i \in DOMAIN s |-> s[i][1]]

\* std::set::insert, with or without a hint, and std::map::insert: neither
\* replaces an element that is there.
SetInsert(s, v) == IF v \in ToSet(s) THEN s ELSE InsertAt(s, Rank(s, v), v)
MapInsert(s, f, v) ==
  IF \E i \in DOMAIN s : s[i][1] = f THEN s ELSE InsertAt(s, Rank(Fields(s), f), <<f, v>>)

\* The branches of the methods, under the container's lock, in their order in
\* CacheMap.cpp.  s is the container, n a position, a field or nothing.
At(s, n, e) == IF n < Len(s) THEN e ELSE Fails(s, "ERR_INDGRTCONTSIZ")
Some(s, e) == IF s # <<>> THEN e ELSE Fails(s, "ERR_NOELEMENTS")

addMapEntry(s, f, v) == Done(MapInsert(s, f, v))
removeMapEntry(s, f) == Done(SelectSeq(s, LAMBDA e : e[1] # f))
addCollectionEntry(s, type, v) == Done(IF type = "set" THEN SetInsert(s, v) ELSE Append(s, v))
getMapEntryValue(s, f) ==
  IF \E e \in ToSet(s) : e[1] = f
  THEN Gives(s, (CHOOSE e \in ToSet(s) : e[1] = f)[2])
  ELSE Fails(s, "ERR_NOVALUEFOUND")
getMapEntryValueByPosition(s, n) == At(s, n, Gives(s, s[n + 1][2]))
setMapEntryValueByPosition(s, n, v) == At(s, n, Done(ReplaceAt(s, n + 1, <<s[n + 1][1], v>>)))
setCollectionEntryAt(s, n, v) == At(s, n, Done(ReplaceAt(s, n + 1, v)))
getCollectionEntryAt(s, n) == At(s, n, Gives(s, s[n + 1]))
size(s) == Gives(s, Len(s))
removeCollectionEntryAt(s, n) == At(s, n, Done(RemoveAt(s, n + 1)))
isEmpty(s) == Gives(s, IF s = <<>> THEN 1 ELSE 0)
clear(s) == Done(<<>>)
insert(s, type, v, n) == At(s, n, Done(IF type = "set" THEN SetInsert(s, v) ELSE InsertAt(s, n + 1, v)))
insertRepeated(s, v, n, r) ==
  At(s, n, Done(SubSeq(s, 1, n) \o [i \in 1..r |-> v] \o SubSeq(s, n + 1, Len(s))))
popValueQueue(s) == Some(s, Done(Tail(s)))
popGetValueQueue(s) == Some(s, Gives(Tail(s), Head(s)))
pushBackValue(s, v) == Done(Append(s, v))
pushFrontValue(s, v) == Done(<<v>> \o s)
popFrontValue(s) == Some(s, Done(Tail(s)))
popBackValue(s) == Some(s, Done(Front(s)))
popGetFrontValue(s) == Some(s, Gives(Tail(s), Head(s)))
popGetBackValue(s) == Some(s, Gives(Front(s), Last(s)))
getFrontValue(s) == Some(s, Gives(s, Head(s)))
getBackValue(s) == Some(s, Gives(s, Last(s)))

\* The handler's choice of the method.
Body(cmd, type, s) ==
  CASE cmd.op = "addmap"      -> addMapEntry(s, cmd.n, cmd.v)
    [] cmd.op = "add"         -> addCollectionEntry(s, type, cmd.v)
    [] cmd.op = "pushfront"   -> pushFrontValue(s, cmd.v)
    [] cmd.op = "pushback"    -> pushBackValue(s, cmd.v)
    [] cmd.op = "insert"      -> insert(s, type, cmd.v, cmd.n)
    [] cmd.op = "insertrep"   -> insertRepeated(s, cmd.v, cmd.n, cmd.r)
    [] cmd.op = "setmap"      -> setMapEntryValueByPosition(s, cmd.n, cmd.v)
    [] cmd.op = "set"         -> setCollectionEntryAt(s, cmd.n, cmd.v)
    [] cmd.op = "getmap"      -> getMapEntryValue(s, cmd.n)
    [] cmd.op = "getbypos"    -> getMapEntryValueByPosition(s, cmd.n)
    [] cmd.op = "get"         -> getCollectionEntryAt(s, cmd.n)
    [] cmd.op = "getfront"    -> getFrontValue(s)
    [] cmd.op = "getback"     -> getBackValue(s)
    [] cmd.op = "popget"      -> popGetValueQueue(s)
    [] cmd.op = "popfrontget" -> popGetFrontValue(s)
    [] cmd.op = "popbackget"  -> popGetBackValue(s)
    [] cmd.op = "removemap"   -> removeMapEntry(s, cmd.n)
    [] cmd.op = "remove"      -> removeCollectionEntryAt(s, cmd.n)
    [] cmd.op = "pop"         -> popValueQueue(s)
    [] cmd.op = "popfront"    -> popFrontValue(s)
    [] cmd.op = "popback"     -> popBackValue(s)
    [] cmd.op = "size"        -> size(s)
    [] cmd.op = "clear"       -> clear(s)
    [] cmd.op = "isempty"     -> isEmpty(s)

\* The exception leaves these branches between lock and unlock.
ThrowsLocked(cmd, effect) ==
  cmd.op \in {"getmap", "getbypos", "setmap"} /\ effect.msg # "SUCCESS"

\* What the handler's catch clause reports for a positional command, whatever
\* was thrown.
Caught(op, msg) == CASE op \notin Positional -> msg
                     [] op = "insertrep" -> "ERR_REPNOTNUM"
                     [] OTHER -> "ERR_POSNOTNUM"

\* The handler's comparison of the position, and its answer when it refuses.
InRange(cmd, count) == /\ cmd.n >= 0 /\ cmd.n < count
                       /\ cmd.op = "insertrep" => cmd.r >= 0
RangeError(cmd, count) == CASE count <= cmd.n -> "ERR_INDGRTCONTSIZ"
                            [] cmd.n < 0 -> "ERR_NEGATIVEPOS"
                            [] OTHER -> "ERR_NEGATIVEREP"
=============================================================================
