--------------------------- MODULE ClaimLifecycle ---------------------------
(***************************************************************************)
(* What the backend promises the client that polls                         *)
(* GET /auth/github/result/{challenge}: the abstract specification that    *)
(* ClaimFlow implements.                                                   *)
(*                                                                         *)
(* A claim moves through its stages in one direction only.  Its view is    *)
(* what a poll is answered: always the stage the claim has just reached,   *)
(* or "not_found" once the answer has been left unrefreshed for too long.  *)
(* A view that is lost comes back only if the claim reaches a new stage.   *)
(* A restart loses every claim for good.                                   *)
(***************************************************************************)
CONSTANT Challenge

VARIABLES stage, view

lvars == <<stage, view>>

Stage == {"unborn", "waiting", "proving", "complete", "failed", "lost"}
View  == {"not_found", "waiting", "proving", "complete", "failed"}

\* The stages that a stage may be followed by while the server is up.
After(s) == CASE s = "unborn"  -> {"waiting"}
              [] s = "waiting" -> {"proving", "failed"}
              [] s = "proving" -> {"complete", "failed"}
              [] OTHER         -> {}

LTypeOK == stage \in [Challenge -> Stage] /\ view \in [Challenge -> View]

LInit == /\ stage = [c \in Challenge |-> "unborn"]
         /\ view = [c \in Challenge |-> "not_found"]

Advance(c, s) == /\ s \in After(stage[c])
                 /\ stage' = [stage EXCEPT ![c] = s]
                 /\ view' = [view EXCEPT ![c] = s]

Expire(S) == /\ view' = [c \in Challenge |-> IF c \in S THEN "not_found" ELSE view[c]]
             /\ UNCHANGED stage

Restart == /\ stage' = [c \in Challenge |-> IF stage[c] = "unborn" THEN "unborn" ELSE "lost"]
           /\ view' = [c \in Challenge |-> "not_found"]

LNext == \/ \E S \in SUBSET Challenge : Expire(S)
         \/ \E c \in Challenge, s \in Stage : Advance(c, s)
         \/ Restart

LSpec == LInit /\ [][LNext]_lvars
=============================================================================
