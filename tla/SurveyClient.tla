---------------------------- MODULE SurveyClient ----------------------------
(***************************************************************************)
(* What a SURVEYOR socket promises its user: responses are those to the    *)
(* latest survey, a survey that is not replaced by another one expires,    *)
(* and every expiry is reported at most once.                              *)
(***************************************************************************)
EXTENDS Naturals

VARIABLES
    phase,      \* "none", "open", "expired" (being stopped) or "closed"
    cur,        \* the latest survey, counted from 0
    due,        \* a survey expired and the user was not told
    result      \* what the latest call of grid_recv returned

vars == <<phase, cur, due, result>>

Returned(code, n) == [code |-> code, of |-> n]

Init == phase = "none" /\ cur = 0 /\ due = FALSE /\ result = Returned("none", 0)

Ask == /\ phase # "closed"
       /\ phase' = "open" /\ cur' = cur + 1
       /\ UNCHANGED <<due, result>>

Expire == /\ phase = "open"
          /\ phase' = "expired" /\ due' = TRUE
          /\ UNCHANGED <<cur, result>>

End == /\ phase = "expired"
       /\ phase' = "none"
       /\ UNCHANGED <<cur, due, result>>

Answer == /\ phase \in {"open", "expired"}
          /\ result' \in {Returned("ok", cur), Returned("EAGAIN", 0)}
          /\ UNCHANGED <<phase, cur, due>>

Report == /\ phase = "none"
          /\ result' = Returned(IF due THEN "ETIMEDOUT" ELSE "EFSM", 0)
          /\ due' = FALSE
          /\ UNCHANGED <<phase, cur>>

Close == phase' = "closed" /\ due' = FALSE /\ UNCHANGED <<cur, result>>

Next == Ask \/ Expire \/ End \/ Answer \/ Report \/ Close

Safety == Init /\ [][Next]_vars

(* Users need not act; a survey ends by itself.                            *)
Spec == Safety /\ WF_vars(Expire) /\ WF_vars(End)
=============================================================================
