SPECIFICATION CachesSpec
CONSTANTS
  t1 = t1  t2 = t2  t3 = t3  a = a  b = b  k1 = k1  k2 = k2  k3 = k3
  NoValue = NoValue  NoConn = NoConn  Text = Text
  Callers = {t1, t2, t3}
  Conns = {a, b}
  Keys = {k1, k2}
  Home <- TwoHomes
  Plans = {"list", "shared", "map", "free", "memory"}
  Commands <- PlanCommands
  MaxCalls <- PlanCalls
  MaxObjects = 6
  StrKeys = {k1, k2, k3}
  NumKeys = {k1}
  MaxVal = 1
  Size = 2
  Queues = {"q"}
  MaxQueue = 1
CHECK_DEADLOCK FALSE
INVARIANTS UndefinedOnlyByOverlap
PROPERTIES Implements EveryCallReturns ImplementsMap
