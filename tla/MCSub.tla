-------------------------------- MODULE MCSub --------------------------------
(* Topics of up to three characters out of four, so that a node can have   *)
(* SPARSE_MAX + 2 children and a prefix can be too long for one node.      *)
EXTENDS Sub

MCTopics == { << >>, <<1>>, <<2>>, <<3>>, <<4>>, <<1, 1>>, <<1, 2>>, <<1, 3>>,
              <<1, 4>>, <<1, 2, 3>>, <<2, 2, 2, 2, 2>> }
MCMessages == { <<1>>, <<1, 2, 1>>, <<4, 4>> }
=============================================================================
