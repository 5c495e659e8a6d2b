----------------------------- MODULE MCReplier -----------------------------
(* Two pipe objects used for three connections; the keys wrap round, none  *)
(* is handed out twice.                                                    *)
EXTENDS Replier

MCHashKey(k) == 3 * k + 1
============================================================================
