------------------------------- MODULE MCReq -------------------------------
(* Two peers and two requests, either of which may be cancelled, resent,   *)
(* delayed or answered late, over both peers: the handlers only tell the   *)
(* current request from an earlier one.                                    *)
EXTENDS Req

MCPipes == {"p1", "p2"}
MCIntervals == {0, 60000}
============================================================================
