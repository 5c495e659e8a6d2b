----------------------------- MODULE MCBalancer -----------------------------
EXTENDS Balancer

MCPipes == {"p1", "p2", "p3", "p4"}
=============================================================================
