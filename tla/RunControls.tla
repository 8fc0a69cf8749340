------------------------------ MODULE RunControls ------------------------------
(* The controls beside a product run: what RunExecutionComposition              *)
(* (backend/control/run_execution_composition.py) does to the durable record    *)
(* with its repair, review and human-decision controllers, and the controllers  *)
(* themselves.                                                                  *)
(*                                                                              *)
(* Every operation holds the composition's lock and ends in one update of the   *)
(* record, so an operation is a step; what goes wrong goes wrong between them.  *)
(* All controllers write the one state and blocker of the record, each from     *)
(* memory of its own, and a restart keeps the record and loses the memory.  The *)
(* caller supplies every input, and every time of day.                          *)
EXTENDS FiniteSets, Naturals, Sequences

CONSTANTS
  Response,       \* ids of review responses
  Failure,        \* fingerprints of a repeated failure
  Message,        \* ids of a human's messages
  MaxAttempts,    \* max_attempts of the run's limits
  MaxRevision,    \* bound: revisions of the decision asked for
  MaxHeard,       \* bound: human messages received
  MaxRestarts     \* bound: restarts

ControlsAssumption ==
  /\ IsFiniteSet(Response) /\ IsFiniteSet(Failure) /\ IsFiniteSet(Message)
  /\ MaxAttempts \in Nat \ {0} /\ {MaxRevision, MaxHeard, MaxRestarts} \subseteq Nat

VARIABLES
  control,        \* the run's durable control: state and blocker
  dayState,       \* the state the Day's snapshot shows
  bound,          \* is every criterion's evidence validated for this run?
  review,         \* ReviewControl: none until a review was asked for
  usedResponses,  \* the responses it has received
  repair,         \* RepairRecoveryController, with its own copy of the control
  revision,       \* the decision request bound to the run, by its revision
  heard,          \* HumanDecisionControl: the recorded messages, in order
  confirming,     \* the messages a confirmation was built for, with the revision
  unverified,     \* is a requested review not verified yet?
  others,         \* has anything else written the record since it was requested?
  forgot,         \* was there a restart since?
  relaunches

controlsVars == <<control, dayState, bound, review, usedResponses, repair, revision, heard,
                  confirming, unverified, others, forgot, relaunches>>

Entry(state, blocker) == [state |-> state, blocker |-> blocker]
NoRepair == [on |-> FALSE, control |-> Entry("PREFLIGHT", "none"),
             tried |-> [f \in Failure |-> 0], made |-> 0, awaits |-> {}]

Init ==
  /\ control = Entry("PREFLIGHT", "none") /\ dayState = "WORKING" /\ bound = FALSE
  /\ review = "none" /\ usedResponses = {} /\ repair = NoRepair
  /\ revision = 0 /\ heard = <<>> /\ confirming = {}
  /\ unverified = FALSE /\ others = FALSE /\ forgot = FALSE /\ relaunches = 0

theDay == <<dayState, bound>>
theReview == <<review, usedResponses>>
theDecision == <<revision, heard, confirming>>

(* _advance, by a control other than the review.                                *)
Advance(state, blocker) ==
  /\ control' = Entry(state, blocker)
  /\ others' = TRUE
  /\ UNCHANGED <<unverified, forgot, relaunches>>

Untouched == UNCHANGED <<control, unverified, others, forgot, relaunches>>
-----------------------------------------------------------------------------
(* Mutant: a review is pending only while the record's blocker says so.         *)
BlockerNamesReview == control.blocker = "REVIEW_RESPONSE_REQUIRED"

(* The record remembers a review over a restart, the process while another      *)
(* control owns the record's blocker.                                           *)
RequiredReviewPending ==
  control.blocker = "REVIEW_RESPONSE_REQUIRED" \/ review \notin {"none", "VERIFIED"}

(* project_day_state: the Day's state, and its blocker, replace the record's.   *)
ProjectDayState ==
  /\ dayState = "COMPLETE" => bound /\ ~RequiredReviewPending
  /\ Advance(dayState, IF dayState = "HUMAN_ACTION_REQUIRED" THEN "AUTHORITY" ELSE "none")
  /\ UNCHANGED <<theDay, theReview, repair, theDecision>>

(* evaluate_criterion, for the last criterion: all its results validated.       *)
EvaluateCriterion ==
  /\ bound' = TRUE
  /\ Untouched /\ UNCHANGED <<dayState, theReview, repair, theDecision>>

(* The Day's own controller.                                                    *)
DayMoves ==
  /\ dayState # "COMPLETE"
  /\ dayState' \in {"WORKING", "COMPLETE", "HUMAN_ACTION_REQUIRED"}
  /\ Untouched /\ UNCHANGED <<bound, theReview, repair, theDecision>>
-----------------------------------------------------------------------------
(* begin_repair: a new episode, over the record as it now is.                   *)
BeginRepair ==
  /\ repair' = [NoRepair EXCEPT !.on = TRUE, !.control = control]
  /\ Untouched /\ UNCHANGED <<theDay, theReview, theDecision>>

(* _set_control and _persist_controller_record: the episode's own control goes  *)
(* over whatever the record holds by now.                                       *)
SetsControl(episode, state, blocker) ==
  /\ repair' = [episode EXCEPT !.control = Entry(state, blocker)]
  /\ Advance(state, blocker)

(* record_attempt; an attempt out of its run, budget, baseline or scope is      *)
(* refused, and so is every attempt past the limit.  One that passes its        *)
(* verification is an attempt at its failure too.                               *)
MayAttempt == repair.on /\ repair.made < MaxAttempts

RecordAttempt ==
  /\ MayAttempt
  /\ \E f \in Failure :
       LET episode == [repair EXCEPT !.made = @ + 1, !.tried[f] = @ + 1]
       IN  \/ SetsControl(episode, "REVALIDATING", "none")
           \/ IF episode.tried[f] >= MaxAttempts
              THEN SetsControl([episode EXCEPT !.awaits = {f}], "HUMAN_ACTION_REQUIRED", "REPEATED_FAILURE")
              ELSE SetsControl(episode, "DIAGNOSING_GAP", "none")
  /\ UNCHANGED <<theDay, theReview, theDecision>>

(* apply_review, for the failure that is awaited; a REJECT changes nothing.     *)
ApplyRepairReview ==
  /\ repair.on /\ repair.awaits # {} /\ repair.control.state = "HUMAN_ACTION_REQUIRED"
  /\ SetsControl(repair, "PREFLIGHT", "none")
  /\ UNCHANGED <<theDay, theReview, theDecision>>
-----------------------------------------------------------------------------
(* request_review: refused while the last one is outstanding.                   *)
RequestReview ==
  /\ review \in {"none", "VERIFIED", "DELIVERY_FAILED"}
  /\ review' = "SENT"
  /\ control' = Entry("HUMAN_ACTION_REQUIRED", "REVIEW_RESPONSE_REQUIRED")
  /\ unverified' = TRUE /\ others' = FALSE /\ forgot' = FALSE
  /\ UNCHANGED <<theDay, usedResponses, repair, theDecision, relaunches>>

(* apply_review_response: too late by the caller's clock; or received and       *)
(* applied, and verified only when the continuation and its effect are.  One    *)
(* that stops at applied is never verified: its response is a duplicate, and no *)
(* other is expected.                                                           *)
ResponseTooLate(r) ==
  /\ review = "SENT" /\ r \notin usedResponses
  /\ review' = "DELIVERY_FAILED"
  /\ Untouched /\ UNCHANGED <<theDay, usedResponses, repair, theDecision>>

ResponseApplied(r) ==
  /\ review = "SENT" /\ r \notin usedResponses
  /\ review' = "APPLIED" /\ usedResponses' = usedResponses \cup {r}
  /\ Untouched /\ UNCHANGED <<theDay, repair, theDecision>>

ResponseVerified(r) ==
  /\ review = "SENT" /\ r \notin usedResponses
  /\ review' = "VERIFIED" /\ usedResponses' = usedResponses \cup {r}
  /\ control' = Entry("PREFLIGHT", "none") /\ unverified' = FALSE
  /\ UNCHANGED <<theDay, repair, theDecision, others, forgot, relaunches>>
-----------------------------------------------------------------------------
(* bind_human_decision: a later request replaces the one before it.             *)
BindHumanDecision ==
  /\ revision < MaxRevision /\ revision' = revision + 1
  /\ Advance("HUMAN_ACTION_REQUIRED", "HUMAN_DECISION_REQUIRED")
  /\ UNCHANGED <<theDay, theReview, repair, heard, confirming>>

(* receive_human_decision: classified when it names the bound request exactly.  *)
ReceiveHumanDecision(m) ==
  /\ revision > 0 /\ Len(heard) < MaxHeard
  /\ \E state \in {"RECEIVED", "UNCLASSIFIED"} :
       heard' = Append(heard, [state |-> state, message |-> m, revision |-> revision])
  /\ Untouched /\ UNCHANGED <<theDay, theReview, repair, revision, confirming>>

(* build_human_confirmation: once for a message and a revision.                 *)
BuildHumanConfirmation(i) ==
  /\ heard[i].state = "RECEIVED"
  /\ <<heard[i].message, heard[i].revision>> \notin confirming
  /\ confirming' = confirming \cup {<<heard[i].message, heard[i].revision>>}
  /\ heard' = [heard EXCEPT ![i].state = "PENDING"]
  /\ Untouched /\ UNCHANGED <<theDay, theReview, repair, revision>>

(* apply_human_confirmation, of the confirmation that was built; one whose      *)
(* effect is not there yet changes nothing.                                     *)
ApplyHumanConfirmation(i) ==
  /\ heard[i].state = "PENDING"
  /\ \/ heard' = [heard EXCEPT ![i].state = "REJECTED"] /\ Untouched
     \/ heard' = [heard EXCEPT ![i].state = "CONFIRMED"] /\ Advance("PREFLIGHT", "none")
  /\ UNCHANGED <<theDay, theReview, repair, revision, confirming>>
-----------------------------------------------------------------------------
(* A restart: the record stays, and so does what the Day has saved.             *)
Restart ==
  /\ relaunches < MaxRestarts /\ relaunches' = relaunches + 1
  /\ review' = "none" /\ usedResponses' = {} /\ repair' = NoRepair
  /\ revision' = 0 /\ heard' = <<>> /\ confirming' = {}
  /\ forgot' = TRUE
  /\ UNCHANGED <<control, theDay, unverified, others>>

Next ==
  \/ ProjectDayState \/ EvaluateCriterion \/ DayMoves
  \/ BeginRepair \/ RecordAttempt \/ ApplyRepairReview
  \/ RequestReview
  \/ \E r \in Response : ResponseTooLate(r) \/ ResponseApplied(r) \/ ResponseVerified(r)
  \/ BindHumanDecision \/ \E m \in Message : ReceiveHumanDecision(m)
  \/ \E i \in 1..Len(heard) : BuildHumanConfirmation(i) \/ ApplyHumanConfirmation(i)
  \/ Restart

Spec == Init /\ [][Next]_controlsVars
-----------------------------------------------------------------------------
Blockers == {"none", "AUTHORITY", "REVIEW_RESPONSE_REQUIRED", "REPEATED_FAILURE", "HUMAN_DECISION_REQUIRED"}
Entries == [state : {"PREFLIGHT", "WORKING", "COMPLETE", "HUMAN_ACTION_REQUIRED", "REVALIDATING",
                     "DIAGNOSING_GAP"}, blocker : Blockers]

TypeOK ==
  /\ control \in Entries /\ dayState \in {"WORKING", "COMPLETE", "HUMAN_ACTION_REQUIRED"}
  /\ bound \in BOOLEAN
  /\ review \in {"none", "SENT", "APPLIED", "VERIFIED", "DELIVERY_FAILED"}
  /\ usedResponses \subseteq Response
  /\ repair \in [on : BOOLEAN, control : Entries, tried : [Failure -> 0..MaxAttempts],
                 made : 0..MaxAttempts, awaits : SUBSET Failure]
  /\ revision \in 0..MaxRevision
  /\ heard \in Seq([state : {"RECEIVED", "UNCLASSIFIED", "PENDING", "REJECTED", "CONFIRMED"},
                    message : Message, revision : 1..MaxRevision])
  /\ confirming \subseteq Message \X (1..MaxRevision)
  /\ {unverified, others, forgot} \subseteq BOOLEAN /\ relaunches \in 0..MaxRestarts

(* A run is recorded COMPLETE only when the last review asked for it was        *)
(* verified: also when a repair, a human decision or a projection has taken the *)
(* record's blocker over in the same process, and also after a restart as long  *)
(* as none of them has.                                                         *)
ReviewedBeforeComplete ==
  [][control'.state = "COMPLETE" /\ control.state # "COMPLETE" => ~unverified \/ (others /\ forgot)]_controlsVars
=============================================================================
