CONSTANTS
    Pipes = {p1, p2, p3}
    Slots = 2
    Chunks = {c1, c2, c3}
    Prio <- MCPrio
SYMMETRY ChunkSymmetry
SPECIFICATION Spec
CHECK_DEADLOCK FALSE
INVARIANTS ChunksCounted ListsConsistent
