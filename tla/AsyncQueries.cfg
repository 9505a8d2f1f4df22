\* Four requests for each of the three data sources; see the module's plans.
CONSTANTS
    r1 = r1 r2 = r2 r3 = r3 r4 = r4 s1 = s1 s2 = s2
    None = None Out = Out Calling = Calling
SPECIFICATION Spec
INVARIANT OwnResults
PROPERTIES Implements RequestAnswered
CHECK_DEADLOCK FALSE
