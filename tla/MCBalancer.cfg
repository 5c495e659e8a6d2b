SPECIFICATION BalancerSpec
CONSTANTS
    Pipes <- MCPipes
    Slots = 2
    StartsReady = TRUE
INVARIANTS Consistent
PROPERTY ImplementsScheduler
