----------------------------- MODULE RepairLadder -----------------------------
(* What a repair episode promises to the Day, seen only through what has been   *)
(* saved of it: a bounded number of local tries, then one way up to the review  *)
(* stage, then an end, which only the operator may undo, once, and only when    *)
(* nothing was verified.  No crash and no resume is visible here: they must not *)
(* give back what the episode has used up.  The limits are those of             *)
(* RepairEpisode in backend/models/local_llm_day.py.                            *)
EXTENDS Naturals

CONSTANT MaxProposals

VARIABLES
  stage,     \* how far the episode has come
  tries,     \* local proposals recorded
  grants,    \* operator's retries used
  verified   \* ended with a verified repair

ladder == <<stage, tries, grants, verified>>

Init == stage = "unopened" /\ tries = 0 /\ grants = 0 /\ verified = FALSE

Open == stage = "unopened" /\ stage' = "local" /\ UNCHANGED <<tries, grants, verified>>

(* A recorded try, which ends the episode when it is a verified one.            *)
Try ==
  /\ stage = "local" /\ tries < MaxProposals /\ tries' = tries + 1
  /\ \/ UNCHANGED <<stage, verified>>
     \/ stage' = "closed" /\ verified' = TRUE
  /\ UNCHANGED grants

ExpertVerified ==
  stage = "local" /\ stage' = "closed" /\ verified' = TRUE /\ UNCHANGED <<tries, grants>>

Escalate == stage = "local" /\ stage' = "review" /\ UNCHANGED <<tries, grants, verified>>

CloseReview ==
  stage = "review" /\ stage' = "closed" /\ verified' \in BOOLEAN /\ UNCHANGED <<tries, grants>>

Grant ==
  /\ stage = "closed" /\ ~verified /\ grants < 1
  /\ stage' = "review" /\ grants' = grants + 1
  /\ UNCHANGED <<tries, verified>>

Next == Open \/ Try \/ ExpertVerified \/ Escalate \/ CloseReview \/ Grant

Spec == Init /\ [][Next]_ladder
=============================================================================
