SPECIFICATION OrderlySpec
CONSTANTS
    Threads <- MCThreads
    Uses <- BothSockets
    RcvBuf = 3
    MaxMsgs = 4
    MaxOpens = 3
INVARIANTS Consistent OneTokenPerSender
PROPERTIES ImplementsChannel WaitsEnd
CHECK_DEADLOCK FALSE
