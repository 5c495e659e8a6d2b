SPECIFICATION OrderlySpec
CONSTANTS
    Callers = {c1, c2}
    MaxSockets = 1
    MaxEps = 2
    Cap = 1
    Dirs = {"recv", "send"}
INVARIANTS NoAbort TableSound SignalsTellTruth
PROPERTIES ImplementsHandles CallsEnd
CHECK_DEADLOCK FALSE
