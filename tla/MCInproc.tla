------------------------------ MODULE MCInproc ------------------------------
EXTENDS Inproc

(* A thread for each socket.                                               *)
MCThreads == {"t1", "t2"}
OwnSocket == [th \in MCThreads |-> IF th = "t1" THEN {"c"} ELSE {"b"}]
BothSockets == [th \in MCThreads |-> Sides]
=============================================================================
