SPECIFICATION Spec
CONSTANTS
    Pipes <- MCPipes
    MaxId = 2
    Intervals <- MCIntervals
INVARIANTS
    OnlyFreedReplyAborts
    Consistent
    NeverIdleWithPeer
PROPERTIES
    WaitsEnd
    ImplementsClient
CHECK_DEADLOCK FALSE
