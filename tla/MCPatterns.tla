----------------------------- MODULE MCPatterns -----------------------------
(* Pipes, the second and any further one with the lower priority.          *)
EXTENDS Patterns

MCPrio == LET first == CHOOSE p \in Pipes : TRUE
          IN  [p \in Pipes |-> IF p = first THEN 1 ELSE 2]

ChunkSymmetry == Permutations(Chunks)
=============================================================================
