--------------------------- MODULE RunGates_proofs ---------------------------
(* Proofs about what stands before a run and before its end, for every value of *)
(* the bounds: the reviews and human decisions beside a run (RunControls) and   *)
(* the grants and observations it is admitted under (RunPreflight).             *)
EXTENDS Engine_proofs
-----------------------------------------------------------------------------
(* The controls beside a run.                                                   *)

(* A review that is not verified is remembered twice: by the record's blocker   *)
(* until another control takes it over, and by the process until a restart.     *)
Remembered ==
  /\ unverified \in {TRUE, FALSE} /\ others \in {TRUE, FALSE} /\ forgot \in {TRUE, FALSE}
  /\ unverified = TRUE => others = TRUE \/ control.blocker = "REVIEW_RESPONSE_REQUIRED"
  /\ unverified = TRUE => forgot = TRUE \/ review \in {"SENT", "APPLIED", "DELIVERY_FAILED"}

LEMMA EntryIs ==
  \A s, b : Controls!Entry(s, b).state = s /\ Controls!Entry(s, b).blocker = b
  BY DEF Controls!Entry

LEMMA RememberedBegins == Controls!Init => Remembered
  BY DEF Controls!Init, Remembered

LEMMA RememberedSteps ==
  ASSUME Remembered, [Controls!Next]_Controls!controlsVars
  PROVE  Remembered'
<1>1. ASSUME NEW s, NEW b, Controls!Advance(s, b), UNCHANGED Controls!theReview
      PROVE  Remembered'
  BY <1>1 DEF Controls!Advance, Controls!theReview, Remembered
<1>2. ASSUME Controls!Untouched, UNCHANGED Controls!theReview
      PROVE  Remembered'
  BY <1>2 DEF Controls!Untouched, Controls!theReview, Remembered
<1>3. CASE Controls!ProjectDayState
  BY <1>1, <1>3 DEF Controls!ProjectDayState
<1>4. CASE Controls!EvaluateCriterion
  BY <1>2, <1>4 DEF Controls!EvaluateCriterion
<1>5. CASE Controls!DayMoves
  BY <1>2, <1>5 DEF Controls!DayMoves
<1>6. CASE Controls!BeginRepair
  BY <1>2, <1>6 DEF Controls!BeginRepair
<1>7. CASE Controls!RecordAttempt
  BY <1>1, <1>7 DEF Controls!RecordAttempt, Controls!SetsControl
<1>8. CASE Controls!ApplyRepairReview
  BY <1>1, <1>8 DEF Controls!ApplyRepairReview, Controls!SetsControl
<1>9. CASE Controls!RequestReview
  BY <1>9, EntryIs DEF Controls!RequestReview, Remembered
<1>10. ASSUME NEW r \in Response,
              \/ Controls!ResponseTooLate(r) \/ Controls!ResponseApplied(r) \/ Controls!ResponseVerified(r)
       PROVE  Remembered'
  BY <1>10 DEF Controls!ResponseTooLate, Controls!ResponseApplied, Controls!ResponseVerified,
               Controls!Untouched, Remembered
<1>11. CASE Controls!BindHumanDecision
  BY <1>1, <1>11 DEF Controls!BindHumanDecision
<1>12. ASSUME NEW m \in Message, Controls!ReceiveHumanDecision(m) PROVE Remembered'
  BY <1>2, <1>12 DEF Controls!ReceiveHumanDecision
<1>13. ASSUME NEW i \in 1..Len(heard),
              Controls!BuildHumanConfirmation(i) \/ Controls!ApplyHumanConfirmation(i)
       PROVE  Remembered'
  BY <1>1, <1>2, <1>13 DEF Controls!BuildHumanConfirmation, Controls!ApplyHumanConfirmation
<1>14. CASE Controls!Restart
  BY <1>14 DEF Controls!Restart, Remembered
<1>15. CASE UNCHANGED Controls!controlsVars
  BY <1>15 DEF Controls!controlsVars, Remembered
<1> QED
  BY <1>3, <1>4, <1>5, <1>6, <1>7, <1>8, <1>9, <1>10, <1>11, <1>12, <1>13, <1>14, <1>15 DEF Controls!Next

(* The steps of the other components leave the controls as they are.            *)
LEMMA ControlsPart ==
  /\ Init => Controls!Init
  /\ [Next]_allVars => [Controls!Next]_Controls!controlsVars
BY DEF Init, Next, allVars, controlsAll, Controls!controlsVars, RecoveryOnly, BusOnly, TaskOnly, GitOnly, GoingOnly,
       PlanOnly, ControlsOnly, PreflightOnly

LEMMA ControlsInvariant == Spec => []Remembered
<1>1. Init => Remembered
  BY ControlsPart, RememberedBegins
<1>2. Remembered /\ [Next]_allVars => Remembered'
  BY ControlsPart, RememberedSteps
<1> QED  BY <1>1, <1>2, PTL DEF Spec

(* A run is recorded COMPLETE only with the review that was asked for verified, *)
(* unless another control has taken the record's blocker over and a restart has *)
(* taken the process's memory: either of the two keeps the run from its end.    *)
THEOREM ReviewedFirst ==
  Spec => ReviewedBeforeComplete
<1>1. ASSUME Remembered, [Controls!Next]_Controls!controlsVars
      PROVE  [control'.state = "COMPLETE" /\ control.state # "COMPLETE"
                => ~unverified \/ (others /\ forgot)]_Controls!controlsVars
  <2> SUFFICES ASSUME control'.state = "COMPLETE", control.state # "COMPLETE"
               PROVE  ~unverified \/ (others /\ forgot)
    OBVIOUS
  <2>1. Controls!ProjectDayState
    <3>1. ~Controls!RecordAttempt
      <4>1. Controls!RecordAttempt =>
              \E s \in {"REVALIDATING", "HUMAN_ACTION_REQUIRED", "DIAGNOSING_GAP"}, b \in Controls!Blockers :
                control' = Controls!Entry(s, b)
        BY Zenon DEF Controls!RecordAttempt, Controls!SetsControl, Controls!Advance, Controls!Blockers
      <4> QED  BY <4>1, EntryIs
    <3>2. ~Controls!ApplyRepairReview /\ ~Controls!RequestReview /\ ~Controls!BindHumanDecision
      BY EntryIs DEF Controls!ApplyRepairReview, Controls!SetsControl, Controls!RequestReview,
                     Controls!BindHumanDecision, Controls!Advance
    <3>3. \A r \in Response :
            ~Controls!ResponseTooLate(r) /\ ~Controls!ResponseApplied(r) /\ ~Controls!ResponseVerified(r)
      BY EntryIs DEF Controls!ResponseTooLate, Controls!ResponseApplied, Controls!ResponseVerified,
                     Controls!Untouched
    <3>4. \A i \in 1..Len(heard) :
            ~Controls!BuildHumanConfirmation(i) /\ ~Controls!ApplyHumanConfirmation(i)
      BY EntryIs DEF Controls!BuildHumanConfirmation, Controls!ApplyHumanConfirmation,
                     Controls!Untouched, Controls!Advance
    <3>5. control' # control
      OBVIOUS
    <3> QED
      BY <1>1, <3>1, <3>2, <3>3, <3>4, <3>5
      DEF Controls!Next, Controls!controlsVars, Controls!EvaluateCriterion, Controls!DayMoves,
          Controls!BeginRepair, Controls!ReceiveHumanDecision, Controls!Restart, Controls!Untouched
  <2>2. control.blocker # "REVIEW_RESPONSE_REQUIRED" /\ review \in {"none", "VERIFIED"}
    BY <2>1, EntryIs DEF Controls!ProjectDayState, Controls!Advance, Controls!RequiredReviewPending
  <2> QED  BY <1>1, <2>2 DEF Remembered
<1> QED
  BY <1>1, ControlsPart, ControlsInvariant, PTL
  DEF Spec, ReviewedBeforeComplete, Controls!ReviewedBeforeComplete
-----------------------------------------------------------------------------
(* The types of the controls, by the controller that keeps each.                *)
RunStates == {"PREFLIGHT", "WORKING", "COMPLETE", "HUMAN_ACTION_REQUIRED", "REVALIDATING", "DIAGNOSING_GAP"}
Truths == {TRUE, FALSE}
Episodes == [on : Truths, control : Controls!Entries, tried : [Failure -> 0..MaxAttempts],
             made : 0..MaxAttempts, awaits : SUBSET Failure]
Hearings == [state : {"RECEIVED", "UNCLASSIFIED", "PENDING", "REJECTED", "CONFIRMED"},
             message : Message, revision : 1..MaxRevision]

RecordTypes ==
  /\ control \in Controls!Entries /\ dayState \in {"WORKING", "COMPLETE", "HUMAN_ACTION_REQUIRED"}
  /\ bound \in Truths /\ relaunches \in 0..MaxForgets

ReviewTypes ==
  /\ review \in {"none", "SENT", "APPLIED", "VERIFIED", "DELIVERY_FAILED"}
  /\ usedResponses \subseteq Response

(* An attempt at a failure is one of the episode's attempts, which are limited. *)
RepairTypes ==
  repair \in Episodes /\ \A f \in Failure : repair.tried[f] <= repair.made

DecisionTypes ==
  /\ revision \in 0..MaxRevision /\ heard \in Seq(Hearings)
  /\ confirming \subseteq Message \X (1..MaxRevision)

ControlsTypes == Remembered /\ RecordTypes /\ ReviewTypes /\ RepairTypes /\ DecisionTypes

LEMMA ControlsLimits ==
  MaxAttempts \in Nat \ {0} /\ MaxRevision \in Nat /\ MaxHeard \in Nat /\ MaxForgets \in Nat
BY ControlCenterAssumption DEF Controls!ControlsAssumption

LEMMA EntryTyped ==
  ASSUME NEW s \in RunStates, NEW b \in Controls!Blockers
  PROVE  Controls!Entry(s, b) \in Controls!Entries
BY DEF Controls!Entry, Controls!Entries, RunStates

LEMMA BlockerNames ==
  \A b \in {"none", "AUTHORITY", "REVIEW_RESPONSE_REQUIRED", "REPEATED_FAILURE", "HUMAN_DECISION_REQUIRED"} :
    b \in Controls!Blockers
BY DEF Controls!Blockers

(* The record: an operation leaves it, or sets a state and a blocker.           *)
LEMMA RecordTypesStep ==
  ASSUME RecordTypes, [Controls!Next]_Controls!controlsVars
  PROVE  RecordTypes'
<1> DEFINE Kept == UNCHANGED <<control, dayState, bound, relaunches>>
<1>1. ASSUME NEW s \in RunStates, NEW b \in Controls!Blockers,
             control' = Controls!Entry(s, b), UNCHANGED <<dayState, bound, relaunches>>
      PROVE  RecordTypes'
  <2>1. control' \in Controls!Entries
    BY <1>1, EntryTyped
  <2> QED  BY <1>1, <2>1 DEF RecordTypes
<1>2. ASSUME NEW s \in RunStates, NEW b \in Controls!Blockers, Controls!Advance(s, b), UNCHANGED Controls!theDay
      PROVE  RecordTypes'
  BY <1>1, <1>2 DEF Controls!Advance, Controls!theDay
<1>3. Kept => RecordTypes'
  BY DEF RecordTypes
<1>4. ASSUME Controls!Untouched, UNCHANGED Controls!theDay PROVE RecordTypes'
  BY <1>3, <1>4 DEF Controls!Untouched, Controls!theDay
<1>5. CASE Controls!ProjectDayState
  <2>1. /\ Controls!Advance(dayState, IF dayState = "HUMAN_ACTION_REQUIRED" THEN "AUTHORITY" ELSE "none")
        /\ UNCHANGED Controls!theDay
    BY <1>5 DEF Controls!ProjectDayState
  <2>2. /\ dayState \in RunStates
        /\ (IF dayState = "HUMAN_ACTION_REQUIRED" THEN "AUTHORITY" ELSE "none") \in Controls!Blockers
    BY BlockerNames DEF RecordTypes, RunStates
  <2> QED  BY <1>2, <2>1, <2>2
<1>6. CASE Controls!EvaluateCriterion
  BY <1>6 DEF Controls!EvaluateCriterion, Controls!Untouched, RecordTypes, Truths
<1>7. CASE Controls!DayMoves
  BY <1>7 DEF Controls!DayMoves, Controls!Untouched, RecordTypes
<1>8. CASE Controls!BeginRepair
  BY <1>4, <1>8 DEF Controls!BeginRepair
<1>9. CASE Controls!RecordAttempt
  <2>1. UNCHANGED Controls!theDay
    BY <1>9 DEF Controls!RecordAttempt
  <2>2. \E s \in RunStates, b \in Controls!Blockers : Controls!Advance(s, b)
    <3>1. /\ "REVALIDATING" \in RunStates /\ "HUMAN_ACTION_REQUIRED" \in RunStates /\ "DIAGNOSING_GAP" \in RunStates
          /\ "none" \in Controls!Blockers /\ "REPEATED_FAILURE" \in Controls!Blockers
      BY BlockerNames DEF RunStates
    <3>2. \/ Controls!Advance("REVALIDATING", "none") \/ Controls!Advance("DIAGNOSING_GAP", "none")
          \/ Controls!Advance("HUMAN_ACTION_REQUIRED", "REPEATED_FAILURE")
      BY <1>9, Zenon DEF Controls!RecordAttempt, Controls!SetsControl
    <3> QED  BY <3>1, <3>2
  <2> QED  BY <1>2, <2>1, <2>2
<1>10. CASE Controls!ApplyRepairReview
  <2>1. UNCHANGED Controls!theDay /\ Controls!Advance("PREFLIGHT", "none")
    BY <1>10 DEF Controls!ApplyRepairReview, Controls!SetsControl
  <2> QED  BY <1>2, <2>1, BlockerNames DEF RunStates
<1>11. CASE Controls!RequestReview
  <2>1. /\ control' = Controls!Entry("HUMAN_ACTION_REQUIRED", "REVIEW_RESPONSE_REQUIRED")
        /\ UNCHANGED <<dayState, bound, relaunches>>
    BY <1>11 DEF Controls!RequestReview, Controls!theDay
  <2> QED  BY <1>1, <2>1, BlockerNames DEF RunStates
<1>12. ASSUME NEW r \in Response,
              \/ Controls!ResponseTooLate(r) \/ Controls!ResponseApplied(r) \/ Controls!ResponseVerified(r)
       PROVE  RecordTypes'
  <2>1. CASE Controls!ResponseTooLate(r) \/ Controls!ResponseApplied(r)
    BY <1>4, <2>1 DEF Controls!ResponseTooLate, Controls!ResponseApplied
  <2>2. CASE Controls!ResponseVerified(r)
    <3>1. control' = Controls!Entry("PREFLIGHT", "none") /\ UNCHANGED <<dayState, bound, relaunches>>
      BY <2>2 DEF Controls!ResponseVerified, Controls!theDay
    <3> QED  BY <1>1, <3>1, BlockerNames DEF RunStates
  <2> QED  BY <1>12, <2>1, <2>2
<1>13. CASE Controls!BindHumanDecision
  <2>1. UNCHANGED Controls!theDay /\ Controls!Advance("HUMAN_ACTION_REQUIRED", "HUMAN_DECISION_REQUIRED")
    BY <1>13 DEF Controls!BindHumanDecision
  <2> QED  BY <1>2, <2>1, BlockerNames DEF RunStates
<1>14. ASSUME NEW m \in Message, Controls!ReceiveHumanDecision(m) PROVE RecordTypes'
  BY <1>4, <1>14 DEF Controls!ReceiveHumanDecision
<1>15. ASSUME NEW i \in 1..Len(heard),
              Controls!BuildHumanConfirmation(i) \/ Controls!ApplyHumanConfirmation(i)
       PROVE  RecordTypes'
  <2>1. UNCHANGED Controls!theDay /\ (Controls!Untouched \/ Controls!Advance("PREFLIGHT", "none"))
    BY <1>15 DEF Controls!BuildHumanConfirmation, Controls!ApplyHumanConfirmation
  <2> QED  BY <1>2, <1>4, <2>1, BlockerNames DEF RunStates
<1>16. CASE Controls!Restart
  BY <1>16, ControlsLimits DEF Controls!Restart, Controls!theDay, RecordTypes
<1>17. CASE UNCHANGED Controls!controlsVars
  BY <1>3, <1>17 DEF Controls!controlsVars
<1> QED
  BY <1>5, <1>6, <1>7, <1>8, <1>9, <1>10, <1>11, <1>12, <1>13, <1>14, <1>15, <1>16, <1>17 DEF Controls!Next

LEMMA ReviewTypesStep ==
  ASSUME ReviewTypes, [Controls!Next]_Controls!controlsVars
  PROVE  ReviewTypes'
<1>1. CASE UNCHANGED Controls!theReview
  BY <1>1 DEF Controls!theReview, ReviewTypes
<1>2. CASE Controls!RequestReview \/ Controls!Restart
  BY <1>2 DEF Controls!RequestReview, Controls!Restart, ReviewTypes
<1>3. ASSUME NEW r \in Response,
             \/ Controls!ResponseTooLate(r) \/ Controls!ResponseApplied(r) \/ Controls!ResponseVerified(r)
      PROVE  ReviewTypes'
  BY <1>3 DEF Controls!ResponseTooLate, Controls!ResponseApplied, Controls!ResponseVerified, ReviewTypes
<1>4. \/ UNCHANGED Controls!theReview \/ Controls!RequestReview \/ Controls!Restart
      \/ \E r \in Response : \/ Controls!ResponseTooLate(r) \/ Controls!ResponseApplied(r)
                             \/ Controls!ResponseVerified(r)
  <2>1. UNCHANGED Controls!controlsVars => UNCHANGED Controls!theReview
    BY DEF Controls!controlsVars, Controls!theReview
  <2> QED
    BY <2>1, Zenon DEF Controls!Next, Controls!ProjectDayState, Controls!EvaluateCriterion, Controls!DayMoves,
         Controls!BeginRepair, Controls!RecordAttempt, Controls!ApplyRepairReview,
         Controls!BindHumanDecision, Controls!ReceiveHumanDecision, Controls!BuildHumanConfirmation,
         Controls!ApplyHumanConfirmation
<1> QED  BY <1>1, <1>2, <1>3, <1>4

LEMMA NoRepairTyped ==
  Controls!NoRepair \in Episodes /\ \A f \in Failure : Controls!NoRepair.tried[f] <= Controls!NoRepair.made
<1>1. /\ Controls!Entry("PREFLIGHT", "none") \in Controls!Entries
      /\ [f \in Failure |-> 0] \in [Failure -> 0..MaxAttempts] /\ 0 \in 0..MaxAttempts
      /\ {} \in SUBSET Failure /\ FALSE \in Truths
  BY EntryTyped, BlockerNames, ControlsLimits DEF RunStates, Truths
<1>2. Controls!NoRepair = [on |-> FALSE, control |-> Controls!Entry("PREFLIGHT", "none"),
                           tried |-> [f \in Failure |-> 0], made |-> 0, awaits |-> {}]
  BY Zenon DEF Controls!NoRepair
<1>3. Controls!NoRepair \in Episodes
  BY <1>1, <1>2, Zenon DEF Episodes
<1>4. Controls!NoRepair.tried = [f \in Failure |-> 0] /\ Controls!NoRepair.made = 0
  BY <1>2, Zenon
<1> QED  BY <1>3, <1>4

LEMMA EpisodeKept ==
  ASSUME NEW e \in Episodes
  PROVE  /\ \A v \in Controls!Entries : /\ [e EXCEPT !.control = v] \in Episodes
                                       /\ [e EXCEPT !.control = v].tried = e.tried
                                       /\ [e EXCEPT !.control = v].made = e.made
         /\ \A v \in Truths : /\ [e EXCEPT !.on = v] \in Episodes
                             /\ [e EXCEPT !.on = v].tried = e.tried
                             /\ [e EXCEPT !.on = v].made = e.made
         /\ \A v \in SUBSET Failure : /\ [e EXCEPT !.awaits = v] \in Episodes
                                     /\ [e EXCEPT !.awaits = v].tried = e.tried
                                     /\ [e EXCEPT !.awaits = v].made = e.made
         /\ \A v \in 0..MaxAttempts : /\ [e EXCEPT !.made = v] \in Episodes
                                     /\ [e EXCEPT !.made = v].tried = e.tried
                                     /\ [e EXCEPT !.made = v].made = v
         /\ \A v \in [Failure -> 0..MaxAttempts] : /\ [e EXCEPT !.tried = v] \in Episodes
                                                  /\ [e EXCEPT !.tried = v].tried = v
                                                  /\ [e EXCEPT !.tried = v].made = e.made
<1>1. \A v \in Controls!Entries : /\ [e EXCEPT !.control = v] \in Episodes
                                 /\ [e EXCEPT !.control = v].tried = e.tried
                                 /\ [e EXCEPT !.control = v].made = e.made
  BY Zenon DEF Episodes
<1>2. \A v \in Truths : /\ [e EXCEPT !.on = v] \in Episodes
                        /\ [e EXCEPT !.on = v].tried = e.tried
                        /\ [e EXCEPT !.on = v].made = e.made
  BY Zenon DEF Episodes
<1>3. \A v \in SUBSET Failure : /\ [e EXCEPT !.awaits = v] \in Episodes
                               /\ [e EXCEPT !.awaits = v].tried = e.tried
                               /\ [e EXCEPT !.awaits = v].made = e.made
  BY Zenon DEF Episodes
<1>4. \A v \in 0..MaxAttempts : /\ [e EXCEPT !.made = v] \in Episodes
                               /\ [e EXCEPT !.made = v].tried = e.tried
                               /\ [e EXCEPT !.made = v].made = v
  BY Zenon DEF Episodes
<1>5. \A v \in [Failure -> 0..MaxAttempts] : /\ [e EXCEPT !.tried = v] \in Episodes
                                            /\ [e EXCEPT !.tried = v].tried = v
                                            /\ [e EXCEPT !.tried = v].made = e.made
  BY Zenon DEF Episodes
<1> QED  BY <1>1, <1>2, <1>3, <1>4, <1>5

(* The episode with one more attempt, at f.                                     *)
LEMMA AttemptAdded ==
  ASSUME RepairTypes, NEW f \in Failure, repair.made < MaxAttempts,
         NEW e, e = [repair EXCEPT !.made = @ + 1, !.tried[f] = @ + 1]
  PROVE  e \in Episodes /\ \A g \in Failure : e.tried[g] <= e.made
<1>1. repair \in Episodes
  BY DEF RepairTypes
<1>2. repair.made \in 0..MaxAttempts /\ repair.tried \in [Failure -> 0..MaxAttempts]
  BY <1>1, Zenon DEF Episodes
<1>3. \A g \in Failure : repair.tried[g] <= repair.made /\ repair.tried[g] \in 0..MaxAttempts
  BY <1>2 DEF RepairTypes
<1> DEFINE e1 == [repair EXCEPT !.made = repair.made + 1]
           t2 == [repair.tried EXCEPT ![f] = repair.tried[f] + 1]
           e2 == [e1 EXCEPT !.tried = t2]
<1>4. repair.made + 1 \in 0..MaxAttempts
  BY <1>2, ControlsLimits
<1>5. t2 \in [Failure -> 0..MaxAttempts] /\ \A g \in Failure : t2[g] <= repair.made + 1
  BY <1>2, <1>3, ControlsLimits
<1>6. e1 \in Episodes /\ e1.tried = repair.tried /\ e1.made = repair.made + 1
  BY <1>1, <1>4, EpisodeKept
<1>7. e = [e1 EXCEPT !.tried = [e1.tried EXCEPT ![f] = e1.tried[f] + 1]]
  BY Zenon
<1>8. e = e2
  BY <1>6, <1>7
<1> HIDE DEF e1, t2
<1>9. e2 \in Episodes /\ e2.tried = t2 /\ e2.made = repair.made + 1
  BY <1>5, <1>6, EpisodeKept
<1> QED  BY <1>5, <1>8, <1>9

LEMMA RepairTypesStep ==
  ASSUME RecordTypes, RepairTypes, [Controls!Next]_Controls!controlsVars
  PROVE  RepairTypes'
<1>1. CASE UNCHANGED repair
  BY <1>1 DEF RepairTypes
<1>2. ASSUME NEW e \in Episodes, \A f \in Failure : e.tried[f] <= e.made,
             NEW s \in RunStates, NEW b \in Controls!Blockers, Controls!SetsControl(e, s, b)
      PROVE  RepairTypes'
  <2>1. Controls!Entry(s, b) \in Controls!Entries /\ repair' = [e EXCEPT !.control = Controls!Entry(s, b)]
    BY <1>2, EntryTyped DEF Controls!SetsControl
  <2>2. repair' \in Episodes /\ repair'.tried = e.tried /\ repair'.made = e.made
    BY <2>1, EpisodeKept
  <2> QED  BY <1>2, <2>2 DEF RepairTypes
<1>3. /\ "REVALIDATING" \in RunStates /\ "HUMAN_ACTION_REQUIRED" \in RunStates /\ "DIAGNOSING_GAP" \in RunStates
      /\ "PREFLIGHT" \in RunStates /\ "none" \in Controls!Blockers /\ "REPEATED_FAILURE" \in Controls!Blockers
  BY BlockerNames DEF RunStates
<1>4. CASE Controls!BeginRepair
  <2> DEFINE e1 == [Controls!NoRepair EXCEPT !.on = TRUE]
             e2 == [e1 EXCEPT !.control = control]
  <2>1. repair' = e2
    BY <1>4, Zenon DEF Controls!BeginRepair
  <2>2. e1 \in Episodes /\ e1.tried = Controls!NoRepair.tried /\ e1.made = Controls!NoRepair.made
    BY NoRepairTyped, EpisodeKept DEF Truths
  <2> HIDE DEF e1
  <2>3. e2 \in Episodes /\ e2.tried = e1.tried /\ e2.made = e1.made
    BY <2>2, EpisodeKept DEF RecordTypes
  <2> HIDE DEF e2
  <2> QED  BY <2>1, <2>2, <2>3, NoRepairTyped DEF RepairTypes
<1>5. CASE Controls!RecordAttempt
  <2>1. repair.made < MaxAttempts
    BY <1>5 DEF Controls!RecordAttempt, Controls!MayAttempt
  <2> DEFINE Attempted(f) == [repair EXCEPT !.made = @ + 1, !.tried[f] = @ + 1]
  <2>2. PICK f \in Failure : \/ Controls!SetsControl(Attempted(f), "REVALIDATING", "none")
                             \/ Controls!SetsControl([Attempted(f) EXCEPT !.awaits = {f}], "HUMAN_ACTION_REQUIRED",
                                                     "REPEATED_FAILURE")
                             \/ Controls!SetsControl(Attempted(f), "DIAGNOSING_GAP", "none")
    BY <1>5, Zenon DEF Controls!RecordAttempt
  <2> DEFINE e == Attempted(f)
  <2>3. e \in Episodes /\ \A g \in Failure : e.tried[g] <= e.made
    BY <2>1, AttemptAdded
  <2> HIDE DEF Attempted, e
  <2>4. [e EXCEPT !.awaits = {f}] \in Episodes /\ \A g \in Failure : [e EXCEPT !.awaits = {f}].tried[g] <= [e EXCEPT !.awaits = {f}].made
    <3>1. {f} \in SUBSET Failure
      OBVIOUS
    <3>2. /\ [e EXCEPT !.awaits = {f}] \in Episodes
          /\ [e EXCEPT !.awaits = {f}].tried = e.tried /\ [e EXCEPT !.awaits = {f}].made = e.made
      BY <2>3, <3>1, EpisodeKept
    <3> QED  BY <2>3, <3>2
  <2>5. \/ Controls!SetsControl(e, "REVALIDATING", "none") \/ Controls!SetsControl(e, "DIAGNOSING_GAP", "none")
        \/ Controls!SetsControl([e EXCEPT !.awaits = {f}], "HUMAN_ACTION_REQUIRED", "REPEATED_FAILURE")
    BY <2>2, Zenon DEF e
  <2> QED  BY <1>2, <1>3, <2>3, <2>4, <2>5
<1>6. CASE Controls!ApplyRepairReview
  <2>1. Controls!SetsControl(repair, "PREFLIGHT", "none")
    BY <1>6 DEF Controls!ApplyRepairReview
  <2> QED  BY <1>2, <1>3, <2>1 DEF RepairTypes
<1>7. CASE Controls!Restart
  BY <1>7, NoRepairTyped DEF Controls!Restart, RepairTypes
<1>8. \/ UNCHANGED repair \/ Controls!BeginRepair \/ Controls!RecordAttempt \/ Controls!ApplyRepairReview
      \/ Controls!Restart
  <2>1. UNCHANGED Controls!controlsVars => UNCHANGED repair
    BY DEF Controls!controlsVars
  <2> QED
    BY <2>1, Zenon DEF Controls!Next, Controls!ProjectDayState, Controls!EvaluateCriterion, Controls!DayMoves,
         Controls!RequestReview, Controls!ResponseTooLate, Controls!ResponseApplied, Controls!ResponseVerified,
         Controls!BindHumanDecision, Controls!ReceiveHumanDecision, Controls!BuildHumanConfirmation,
         Controls!ApplyHumanConfirmation
<1> QED  BY <1>1, <1>4, <1>5, <1>6, <1>7, <1>8

LEMMA DecisionTypesStep ==
  ASSUME DecisionTypes, [Controls!Next]_Controls!controlsVars
  PROVE  DecisionTypes'
<1>1. CASE UNCHANGED Controls!theDecision
  BY <1>1 DEF Controls!theDecision, DecisionTypes
<1>2. CASE Controls!BindHumanDecision
  BY <1>2, ControlsLimits DEF Controls!BindHumanDecision, DecisionTypes
<1>3. ASSUME NEW m \in Message, Controls!ReceiveHumanDecision(m) PROVE DecisionTypes'
  <2>1. PICK state \in {"RECEIVED", "UNCLASSIFIED"} :
          heard' = Append(heard, [state |-> state, message |-> m, revision |-> revision])
    BY <1>3 DEF Controls!ReceiveHumanDecision
  <2>2. UNCHANGED <<revision, confirming>> /\ revision > 0
    BY <1>3 DEF Controls!ReceiveHumanDecision
  <2>3. [state |-> state, message |-> m, revision |-> revision] \in Hearings
    BY <2>2, ControlsLimits DEF Hearings, DecisionTypes
  <2>4. heard' \in Seq(Hearings)
    BY <2>1, <2>3 DEF DecisionTypes
  <2> QED  BY <2>2, <2>4 DEF DecisionTypes
<1>4. ASSUME NEW i \in 1..Len(heard),
             Controls!BuildHumanConfirmation(i) \/ Controls!ApplyHumanConfirmation(i)
      PROVE  DecisionTypes'
  <2>1. /\ UNCHANGED revision
        /\ \/ UNCHANGED confirming
           \/ confirming' = confirming \cup {<<heard[i].message, heard[i].revision>>}
    BY <1>4 DEF Controls!BuildHumanConfirmation, Controls!ApplyHumanConfirmation
  <2>2. PICK state \in {"PENDING", "REJECTED", "CONFIRMED"} : heard' = [heard EXCEPT ![i].state = state]
    BY <1>4, Zenon DEF Controls!BuildHumanConfirmation, Controls!ApplyHumanConfirmation
  <2>3. heard \in Seq(Hearings) /\ heard[i] \in Hearings
    BY DEF DecisionTypes
  <2>4. [heard[i] EXCEPT !.state = state] \in Hearings /\ <<heard[i].message, heard[i].revision>> \in Message \X (1..MaxRevision)
    BY <2>3 DEF Hearings
  <2>5. heard' = [heard EXCEPT ![i] = [heard[i] EXCEPT !.state = state]]
    BY <2>2
  <2>6. heard' \in Seq(Hearings)
    BY <2>3, <2>4, <2>5
  <2> QED  BY <2>1, <2>4, <2>6 DEF DecisionTypes
<1>5. CASE Controls!Restart
  BY <1>5, ControlsLimits DEF Controls!Restart, DecisionTypes
<1>6. \/ UNCHANGED Controls!theDecision \/ Controls!BindHumanDecision \/ Controls!Restart
      \/ \E m \in Message : Controls!ReceiveHumanDecision(m)
      \/ \E i \in 1..Len(heard) : Controls!BuildHumanConfirmation(i) \/ Controls!ApplyHumanConfirmation(i)
  <2>1. UNCHANGED Controls!controlsVars => UNCHANGED Controls!theDecision
    BY DEF Controls!controlsVars, Controls!theDecision
  <2> QED
    BY <2>1, Zenon DEF Controls!Next, Controls!ProjectDayState, Controls!EvaluateCriterion, Controls!DayMoves,
         Controls!BeginRepair, Controls!RecordAttempt, Controls!ApplyRepairReview,
         Controls!RequestReview, Controls!ResponseTooLate, Controls!ResponseApplied, Controls!ResponseVerified
<1> QED  BY <1>1, <1>2, <1>3, <1>4, <1>5, <1>6

LEMMA ControlsTypesBegin == Controls!Init => ControlsTypes
<1> SUFFICES ASSUME Controls!Init PROVE ControlsTypes
  OBVIOUS
<1>1. RecordTypes
  <2>1. Controls!Entry("PREFLIGHT", "none") \in Controls!Entries
    BY EntryTyped, BlockerNames DEF RunStates
  <2>2. /\ control = Controls!Entry("PREFLIGHT", "none") /\ dayState = "WORKING" /\ bound = FALSE
        /\ relaunches = 0
    BY DEF Controls!Init
  <2>3. FALSE \in Truths /\ 0 \in 0..MaxForgets
    BY ControlsLimits DEF Truths
  <2>4. control \in Controls!Entries /\ bound \in Truths
    BY <2>1, <2>2, <2>3, Zenon
  <2> QED  BY <2>2, <2>3, <2>4 DEF RecordTypes
<1>2. ReviewTypes /\ DecisionTypes
  BY ControlsLimits DEF Controls!Init, ReviewTypes, DecisionTypes
<1>3. RepairTypes
  BY NoRepairTyped DEF Controls!Init, RepairTypes
<1> QED  BY <1>1, <1>2, <1>3, RememberedBegins DEF ControlsTypes

(* Every variable of the controls keeps its type: no failure is tried more      *)
(* often than the episode has attempts, and no message is confirmed for a       *)
(* revision that was not bound.                                                 *)
THEOREM RunControlsTypes == Spec => []Controls!TypeOK
<1>1. Init => ControlsTypes
  BY ControlsPart, ControlsTypesBegin
<1>2. ControlsTypes /\ [Next]_allVars => ControlsTypes'
  BY ControlsPart, RememberedSteps, RecordTypesStep, ReviewTypesStep, RepairTypesStep, DecisionTypesStep
  DEF ControlsTypes
<1>3. ASSUME ControlsTypes PROVE Controls!TypeOK
  <2>1. Truths = BOOLEAN
    BY Zenon DEF Truths
  <2>2. {unverified, others, forgot} \subseteq BOOLEAN
    <3>1. {unverified, others, forgot} \subseteq Truths
      BY <1>3 DEF ControlsTypes, Remembered, Truths
    <3> QED  BY <2>1, <3>1, Zenon
  <2>3. repair \in [on : BOOLEAN, control : Controls!Entries, tried : [Failure -> 0..MaxAttempts],
                    made : 0..MaxAttempts, awaits : SUBSET Failure]
    BY <1>3, <2>1, Zenon DEF ControlsTypes, RepairTypes, Episodes
  <2> QED
    BY <1>3, <2>1, <2>2, <2>3, Zenon DEF ControlsTypes, RecordTypes, ReviewTypes, DecisionTypes, Hearings, Controls!TypeOK
<1> QED  BY <1>1, <1>2, <1>3, PTL DEF Spec
-----------------------------------------------------------------------------
(* The grants and observations a run is admitted under.                         *)

(* A grant, or an observation, that was recorded for this fingerprint.          *)
GrantFor(id, fingerprint, contract) ==
  \E g \in grants : /\ g.id = id /\ g.fingerprint = fingerprint
                    /\ g.contract = contract /\ g.head = fingerprint[1]

ObservedFor(id, fingerprint) ==
  \E o \in observed : o.id = id /\ o.fingerprint = fingerprint /\ o.ready

(* A grant names the head its fingerprint was taken of.                         *)
Headed == \A g \in grants : g.head = g.fingerprint[1]

(* While a Go is under way no run is in PREFLIGHT, so the fact record it writes *)
(* is of no admitted run; what it has found is for the fingerprint of its       *)
(* intent.                                                                      *)
OneGo == goes.at # "idle" => \A r \in Preflight!Runs : admitted[r].state # "PREFLIGHT"

Matched == goes.grant # 0 => GrantFor(goes.grant, goes.fingerprint, goes.contract)

Resolved ==
  goes.at \in {"status", "fingerprint"} /\ goes.run \in Preflight!Runs =>
    /\ preflight[goes.run].grant # 0 =>
         GrantFor(preflight[goes.run].grant, goes.fingerprint, goes.contract)
    /\ preflight[goes.run].observation # 0 =>
         ObservedFor(preflight[goes.run].observation, goes.fingerprint)

Backed ==
  \A r \in Preflight!Runs : admitted[r].state = "PREFLIGHT" =>
    /\ GrantFor(preflight[r].grant, admitted[r].fingerprint, admitted[r].contract)
    /\ ObservedFor(preflight[r].observation, admitted[r].fingerprint)

GrantShaped ==
  /\ goes = [at |-> goes.at, run |-> goes.run, fingerprint |-> goes.fingerprint,
             contract |-> goes.contract, head |-> goes.head, time |-> goes.time, grant |-> goes.grant]
  /\ preflight = [r \in Preflight!Runs |-> preflight[r]]
  /\ admitted = [r \in Preflight!Runs |-> admitted[r]]

Granted == Headed /\ OneGo /\ Matched /\ Resolved /\ Backed /\ GrantShaped

LEMMA GrantedBegins == Preflight!Init => Granted
<1> SUFFICES ASSUME Preflight!Init PROVE Granted
  OBVIOUS
<1>1. grants = {} /\ goes = Preflight!Quiet /\ preflight = [r \in Preflight!Runs |-> Preflight!NoFact]
      /\ admitted = [r \in Preflight!Runs |-> Preflight!NoRun]
  BY DEF Preflight!Init
<1>2. Headed /\ OneGo /\ Matched /\ Resolved
  BY <1>1 DEF Headed, OneGo, Matched, Resolved, Preflight!Quiet, Preflight!none
<1>3. Backed
  BY <1>1 DEF Backed, Preflight!NoRun
<1>4. GrantShaped
  BY <1>1 DEF GrantShaped, Preflight!Quiet
<1> QED  BY <1>2, <1>3, <1>4 DEF Granted

(* Records are never taken back, so what was found stays found.                 *)
LEMMA FoundForGood ==
  ASSUME grants \subseteq grants', observed \subseteq observed'
  PROVE  /\ \A id, p, c : GrantFor(id, p, c) => GrantFor(id, p, c)'
         /\ \A id, p : ObservedFor(id, p) => ObservedFor(id, p)'
  BY DEF GrantFor, ObservedFor

(* The library's Cardinality, as the instance has it.                           *)
LEMMA SameCount ==
  \A S : Preflight!Cardinality(S) = Cardinality(S)
  BY Zenon DEF Preflight!Cardinality, Cardinality

(* A set with one element has that element.                                     *)
LEMMA OnlyOne ==
  ASSUME NEW S, Preflight!Cardinality(S) = 1
  PROVE  (CHOOSE x \in S : TRUE) \in S
<1>1. S # {}
  BY FS_EmptySet, SameCount
<1> QED  BY <1>1

(* Records that are added keep every part but the heads of the new grants.      *)
LEMMA Recording ==
  ASSUME Granted, UNCHANGED <<goes, preflight, admitted>>,
         grants \subseteq grants', observed \subseteq observed'
  PROVE  OneGo' /\ Matched' /\ Resolved' /\ Backed' /\ GrantShaped'
<1>1. OneGo' /\ GrantShaped'
  BY DEF Granted, OneGo, GrantShaped, Preflight!Runs
<1>2. Matched'
  BY FoundForGood DEF Granted, Matched
<1>3. Resolved'
  BY FoundForGood DEF Granted, Resolved, Preflight!Runs
<1>4. Backed'
  BY FoundForGood DEF Granted, Backed, Preflight!Runs
<1> QED  BY <1>1, <1>2, <1>3, <1>4

LEMMA PrepareSteps == Granted /\ Preflight!Prepare => Granted'
<1> SUFFICES ASSUME Granted, Preflight!Prepare PROVE Granted'
  OBVIOUS
<1>1. /\ goes' = [at |-> "head", run |-> Preflight!Cardinality(Preflight!Used) + 1,
                  fingerprint |-> Preflight!Fingerprint, contract |-> project.contract,
                  head |-> 0, time |-> 0, grant |-> 0]
      /\ UNCHANGED <<grants, observed, preflight, admitted>>
  <2>1. goes' = [Preflight!Quiet EXCEPT !.at = "head", !.run = Preflight!Cardinality(Preflight!Used) + 1,
                   !.fingerprint = Preflight!Fingerprint, !.contract = project.contract]
    BY DEF Preflight!Prepare
  <2> HIDE DEF Preflight!Used, Preflight!Fingerprint
  <2>2. UNCHANGED <<grants, observed, preflight, admitted>>
    BY DEF Preflight!Prepare, Preflight!world, Preflight!records
  <2> QED  BY <2>1, <2>2 DEF Preflight!Quiet, Preflight!none
<1>2. \A r \in Preflight!Runs : admitted[r].state # "PREFLIGHT"
  <2>1. \A r \in Preflight!Used : admitted[r].state = "ended"
    BY DEF Preflight!Prepare
  <2>2. \A r \in Preflight!Runs \ Preflight!Used : admitted[r].state = "none"
    BY DEF Preflight!Used, Preflight!NoRun
  <2> QED  BY <2>1, <2>2
<1>3. Headed' /\ OneGo' /\ Matched' /\ Resolved'
  BY <1>1, <1>2 DEF Granted, Headed, OneGo, Matched, Resolved, Preflight!Runs
<1>4. GrantShaped'
  <2>1. preflight' = [r \in Preflight!Runs |-> preflight'[r]] /\ admitted' = [r \in Preflight!Runs |-> admitted'[r]]
    BY <1>1 DEF Granted, GrantShaped
  <2> QED  BY <1>1, <2>1 DEF GrantShaped, Preflight!Runs
<1>5. Backed'
  BY <1>1, <1>2 DEF Backed, Preflight!Runs
<1> QED  BY <1>3, <1>4, <1>5 DEF Granted

(* A step that only looks, and keeps the fingerprint and contract it looks for. *)
LEMMA Looking ==
  ASSUME Granted, UNCHANGED <<grants, observed, preflight, admitted>>, goes.at # "idle",
         NEW at \in {"grants", "paths"}, NEW head, NEW time, NEW grant,
         goes' = [at |-> at, run |-> goes.run, fingerprint |-> goes.fingerprint,
                  contract |-> goes.contract, head |-> head, time |-> time, grant |-> grant],
         grant # 0 => GrantFor(grant, goes.fingerprint, goes.contract)
  PROVE  Granted'
<1>1. Headed' /\ OneGo' /\ Resolved'
  BY DEF Granted, Headed, OneGo, Resolved, Preflight!Runs
<1>2. GrantShaped'
  <2>1. preflight' = [r \in Preflight!Runs |-> preflight'[r]] /\ admitted' = [r \in Preflight!Runs |-> admitted'[r]]
    BY DEF Granted, GrantShaped
  <2> QED  BY <2>1 DEF GrantShaped, Preflight!Runs
<1>3. Matched'
  <2>1. goes'.grant = grant /\ goes'.fingerprint = goes.fingerprint /\ goes'.contract = goes.contract
    OBVIOUS
  <2>2. UNCHANGED grants
    OBVIOUS
  <2> QED  BY <2>1, <2>2, Zenon DEF Matched, GrantFor
<1>4. Backed'
  BY FoundForGood DEF Granted, Backed, Preflight!Runs
<1> QED  BY <1>1, <1>2, <1>3, <1>4 DEF Granted

LEMMA ReadHeadSteps == Granted /\ Preflight!ReadHead => Granted'
<1> SUFFICES ASSUME Granted, Preflight!ReadHead PROVE Granted'
  OBVIOUS
<1>1. UNCHANGED <<grants, observed, preflight, admitted>> /\ goes.at # "idle"
  BY DEF Preflight!ReadHead, Preflight!world, Preflight!records
<1>2. PICK head : goes' = [goes EXCEPT !.at = "grants", !.time = today, !.head = head]
  BY DEF Preflight!ReadHead
<1>3. goes' = [at |-> "grants", run |-> goes.run, fingerprint |-> goes.fingerprint,
               contract |-> goes.contract, head |-> head, time |-> today, grant |-> goes.grant]
  BY <1>2 DEF Granted, GrantShaped
<1> QED  BY <1>1, <1>3, Looking DEF Granted, Matched

LEMMA MatchGrantsSteps == Granted /\ Preflight!MatchGrants => Granted'
<1> SUFFICES ASSUME Granted, Preflight!MatchGrants PROVE Granted'
  OBVIOUS
<1>1. UNCHANGED <<grants, observed, preflight, admitted>> /\ goes.at # "idle"
  BY DEF Preflight!MatchGrants, Preflight!world, Preflight!records
<1>2. \E readable \in SUBSET grants :
        goes' = [goes EXCEPT !.at = "paths",
                   !.grant = IF Preflight!Cardinality({g \in readable : Preflight!Matches(g)}) = 1
                             THEN (CHOOSE g \in {g \in readable : Preflight!Matches(g)} : TRUE).id
                             ELSE Preflight!none]
  BY DEF Preflight!MatchGrants
<1>3. PICK readable \in SUBSET grants :
        goes' = [goes EXCEPT !.at = "paths",
                   !.grant = IF Preflight!Cardinality({g \in readable : Preflight!Matches(g)}) = 1
                             THEN (CHOOSE g \in {g \in readable : Preflight!Matches(g)} : TRUE).id
                             ELSE Preflight!none]
  BY <1>2
<1> DEFINE found == {g \in readable : Preflight!Matches(g)}
           one == CHOOSE g \in found : TRUE
           grant == IF Preflight!Cardinality(found) = 1 THEN one.id ELSE 0
<1>4. goes' = [at |-> "paths", run |-> goes.run, fingerprint |-> goes.fingerprint,
               contract |-> goes.contract, head |-> goes.head, time |-> goes.time, grant |-> grant]
  BY <1>3 DEF Granted, GrantShaped, Preflight!none
<1>5. grant # 0 => GrantFor(grant, goes.fingerprint, goes.contract)
  <2> SUFFICES ASSUME Preflight!Cardinality(found) = 1
               PROVE  GrantFor(one.id, goes.fingerprint, goes.contract)
    BY Zenon
  <2>1. one \in found
    BY OnlyOne
  <2>2. one \in grants /\ Preflight!Matches(one)
    BY <2>1
  <2> HIDE DEF one
  <2>3. one.fingerprint = goes.fingerprint /\ one.contract = goes.contract
        /\ one.head = goes.fingerprint[1]
    BY <2>2 DEF Preflight!Matches, Granted, Headed
  <2> QED  BY <2>2, <2>3 DEF GrantFor
<1> HIDE DEF grant
<1> QED  BY <1>1, <1>4, <1>5, Looking

LEMMA ResolveFactsSteps == Granted /\ Preflight!ResolveFacts => Granted'
<1> SUFFICES ASSUME Granted, Preflight!ResolveFacts PROVE Granted'
  OBVIOUS
<1> DEFINE found == {o \in observed : /\ o.ready /\ o.head = goes.head /\ project.paths
                                      /\ o.fingerprint = goes.fingerprint}
           first == CHOOSE o \in found : TRUE
           one == IF Preflight!Cardinality(found) = 1 THEN first.id ELSE 0
<1>1. goes.at = "paths" /\ UNCHANGED <<grants, observed, admitted>>
  BY DEF Preflight!ResolveFacts, Preflight!world, Preflight!records
<1>2. preflight' = [preflight EXCEPT ![goes.run] = [grant |-> goes.grant, observation |-> one]]
  BY DEF Preflight!ResolveFacts, Preflight!none
<1>3. goes' = [at |-> "status", run |-> goes.run, fingerprint |-> goes.fingerprint,
               contract |-> goes.contract, head |-> goes.head, time |-> goes.time, grant |-> goes.grant]
  BY DEF Preflight!ResolveFacts, Granted, GrantShaped
<1>4. one # 0 => ObservedFor(one, goes.fingerprint)
  <2> SUFFICES ASSUME Preflight!Cardinality(found) = 1 PROVE ObservedFor(first.id, goes.fingerprint)
    BY Zenon
  <2>1. first \in found
    BY OnlyOne
  <2>2. first \in observed /\ first.ready /\ first.fingerprint = goes.fingerprint
    BY <2>1
  <2> HIDE DEF first
  <2> QED  BY <2>2 DEF ObservedFor
<1> HIDE DEF one
<1>5. \A r \in Preflight!Runs : admitted[r].state # "PREFLIGHT"
  BY <1>1 DEF Granted, OneGo
<1>6. Headed' /\ OneGo' /\ Backed'
  BY <1>1, <1>5 DEF Granted, Headed, OneGo, Backed, Preflight!Runs
<1>7. Matched'
  BY <1>1, <1>3, FoundForGood DEF Granted, Matched
<1>8. Resolved'
  <2> SUFFICES ASSUME goes.run \in Preflight!Runs
               PROVE  /\ preflight'[goes.run].grant # 0 =>
                           GrantFor(preflight'[goes.run].grant, goes.fingerprint, goes.contract)
                      /\ preflight'[goes.run].observation # 0 =>
                           ObservedFor(preflight'[goes.run].observation, goes.fingerprint)
    BY <1>1, <1>3, FoundForGood DEF Resolved, Preflight!Runs
  <2>1. preflight'[goes.run] = [grant |-> goes.grant, observation |-> one]
    BY <1>2 DEF Granted, GrantShaped
  <2>2. preflight'[goes.run].grant = goes.grant /\ preflight'[goes.run].observation = one
    BY <2>1
  <2> QED  BY <2>2, <1>4 DEF Granted, Matched
<1>9. GrantShaped'
  <2>1. preflight' = [r \in Preflight!Runs |-> preflight'[r]]
    BY <1>2 DEF Granted, GrantShaped
  <2>2. admitted' = [r \in Preflight!Runs |-> admitted'[r]]
    BY <1>1 DEF Granted, GrantShaped
  <2> QED  BY <2>1, <2>2, <1>3 DEF GrantShaped, Preflight!Runs
<1> QED  BY <1>6, <1>7, <1>8, <1>9 DEF Granted

(* The end of a Go: its run record is written, and the next one can begin.      *)
LEMMA Recorded ==
  ASSUME Granted, NEW state, NEW fingerprint, goes.at # "idle",
         admitted' = [admitted EXCEPT ![goes.run] =
                        [state |-> state, fingerprint |-> fingerprint, contract |-> goes.contract]],
         goes' = Preflight!Quiet, UNCHANGED <<grants, observed, preflight>>,
         state = "PREFLIGHT" /\ goes.run \in Preflight!Runs =>
           /\ GrantFor(preflight[goes.run].grant, fingerprint, goes.contract)
           /\ ObservedFor(preflight[goes.run].observation, fingerprint)
  PROVE  Granted'
<1>1. Headed' /\ OneGo' /\ Matched' /\ Resolved'
  BY DEF Granted, Headed, OneGo, Matched, Resolved, Preflight!Quiet, Preflight!none
<1>2. GrantShaped'
  <2>1. preflight' = [r \in Preflight!Runs |-> preflight'[r]]
    BY DEF Granted, GrantShaped
  <2>2. admitted' = [r \in Preflight!Runs |-> admitted'[r]]
    BY DEF Granted, GrantShaped
  <2> QED  BY <2>1, <2>2 DEF GrantShaped, Preflight!Runs, Preflight!Quiet
<1>3. ASSUME NEW r \in Preflight!Runs, admitted'[r].state = "PREFLIGHT"
      PROVE  /\ GrantFor(preflight[r].grant, admitted'[r].fingerprint, admitted'[r].contract)
             /\ ObservedFor(preflight[r].observation, admitted'[r].fingerprint)
  <2>1. CASE r = goes.run
    <3>1. admitted'[r] = [state |-> state, fingerprint |-> fingerprint, contract |-> goes.contract]
      BY <2>1 DEF Granted, GrantShaped
    <3>2. admitted'[r].state = state /\ admitted'[r].fingerprint = fingerprint
          /\ admitted'[r].contract = goes.contract
      BY <3>1
    <3> QED  BY <1>3, <2>1, <3>2
  <2>2. CASE r # goes.run
    <3>1. admitted'[r] = admitted[r]
      BY <2>2 DEF Granted, GrantShaped
    <3> QED  BY <1>3, <3>1 DEF Granted, OneGo
  <2> QED  BY <2>1, <2>2
<1>4. Backed'
  BY <1>3, FoundForGood DEF Backed, Preflight!Runs
<1> QED  BY <1>1, <1>2, <1>4 DEF Granted

LEMMA CheckStatusSteps == Granted /\ Preflight!CheckStatus => Granted'
<1> SUFFICES ASSUME Granted, Preflight!CheckStatus PROVE Granted'
  OBVIOUS
<1>1. goes.at = "status" /\ UNCHANGED <<grants, observed, preflight>>
  BY DEF Preflight!CheckStatus, Preflight!RecordRun, Preflight!world, Preflight!records
<1>2. CASE Preflight!RecordRun("HUMAN_ACTION_REQUIRED", Preflight!Fingerprint)
  BY <1>1, <1>2, Recorded DEF Preflight!RecordRun
<1>3. CASE goes' = [goes EXCEPT !.at = "fingerprint"] /\ UNCHANGED admitted
  <2>1. goes' = [at |-> "fingerprint", run |-> goes.run, fingerprint |-> goes.fingerprint,
                 contract |-> goes.contract, head |-> goes.head, time |-> goes.time, grant |-> goes.grant]
    BY <1>3 DEF Granted, GrantShaped
  <2>2. Headed' /\ OneGo' /\ Backed'
    BY <1>1, <1>3, FoundForGood DEF Granted, Headed, OneGo, Backed, Preflight!Runs
  <2>3. Matched' /\ Resolved'
    BY <1>1, <2>1, FoundForGood DEF Granted, Matched, Resolved, Preflight!Runs
  <2>4. GrantShaped'
    <3>1. preflight' = [r \in Preflight!Runs |-> preflight'[r]] /\ admitted' = [r \in Preflight!Runs |-> admitted'[r]]
      BY <1>1, <1>3 DEF Granted, GrantShaped
    <3> QED  BY <2>1, <3>1 DEF GrantShaped, Preflight!Runs
  <2> QED  BY <2>2, <2>3, <2>4 DEF Granted
<1> QED  BY <1>2, <1>3 DEF Preflight!CheckStatus

LEMMA AdmitSteps == Granted /\ Preflight!Admit => Granted'
<1> SUFFICES ASSUME Granted, Preflight!Admit PROVE Granted'
  OBVIOUS
<1> DEFINE state == IF Preflight!Fingerprint # goes.fingerprint \/ preflight[goes.run].grant = 0
                    THEN "HUMAN_ACTION_REQUIRED"
                    ELSE IF preflight[goes.run].observation = 0 THEN "EXTERNAL_ACTION_REQUIRED"
                    ELSE "PREFLIGHT"
<1>1. /\ goes.at = "fingerprint" /\ UNCHANGED <<grants, observed, preflight>>
      /\ goes' = Preflight!Quiet
      /\ admitted' = [admitted EXCEPT ![goes.run] =
           [state |-> state, fingerprint |-> Preflight!Fingerprint, contract |-> goes.contract]]
  BY DEF Preflight!Admit, Preflight!RecordRun, Preflight!world, Preflight!records, Preflight!none
<1>2. state = "PREFLIGHT" /\ goes.run \in Preflight!Runs =>
        /\ GrantFor(preflight[goes.run].grant, Preflight!Fingerprint, goes.contract)
        /\ ObservedFor(preflight[goes.run].observation, Preflight!Fingerprint)
  <2> HIDE DEF Preflight!Fingerprint
  <2> SUFFICES ASSUME state = "PREFLIGHT", goes.run \in Preflight!Runs
               PROVE  /\ GrantFor(preflight[goes.run].grant, Preflight!Fingerprint, goes.contract)
                      /\ ObservedFor(preflight[goes.run].observation, Preflight!Fingerprint)
    OBVIOUS
  <2>1. Preflight!Fingerprint = goes.fingerprint /\ preflight[goes.run].grant # 0
        /\ preflight[goes.run].observation # 0
    OBVIOUS
  <2> QED  BY <1>1, <2>1 DEF Granted, Resolved
<1> HIDE DEF state
<1> QED  BY <1>1, <1>2, Recorded

LEMMA RunEndsSteps == Granted /\ Preflight!RunEnds => Granted'
<1> SUFFICES ASSUME Granted, Preflight!RunEnds PROVE Granted'
  OBVIOUS
<1>1. PICK run \in Preflight!Used : admitted' = [admitted EXCEPT ![run].state = "ended"]
  BY DEF Preflight!RunEnds
<1>2. UNCHANGED <<grants, observed, goes, preflight>>
  BY DEF Preflight!RunEnds, Preflight!world, Preflight!records
<1>3. admitted' = [r \in Preflight!Runs |-> admitted'[r]]
  BY <1>1 DEF Granted, GrantShaped
<1>4. \A r \in Preflight!Runs : admitted'[r].state = "PREFLIGHT" => admitted'[r] = admitted[r]
  <2> TAKE r \in Preflight!Runs
  <2>1. CASE r = run
    <3>1. admitted'[r] = [admitted[r] EXCEPT !.state = "ended"]
      BY <1>1, <2>1 DEF Granted, GrantShaped
    <3>2. admitted'[r].state = "ended" \/ admitted'[r].state = admitted[r].state
      BY <3>1
    <3>3. CASE "state" \in DOMAIN admitted[r]
      BY <3>1, <3>3
    <3>4. CASE "state" \notin DOMAIN admitted[r]
      BY <3>1, <3>4
    <3> QED  BY <3>3, <3>4
  <2>2. CASE r # run
    BY <1>1, <2>2 DEF Granted, GrantShaped
  <2> QED  BY <2>1, <2>2
<1>5. Headed' /\ Matched' /\ Resolved'
  BY <1>2, FoundForGood DEF Granted, Headed, Matched, Resolved, Preflight!Runs
<1>6. OneGo'
  BY <1>2, <1>4 DEF Granted, OneGo, Preflight!Runs
<1>7. Backed'
  <2> SUFFICES ASSUME NEW r \in Preflight!Runs, admitted'[r].state = "PREFLIGHT"
               PROVE  /\ GrantFor(preflight[r].grant, admitted[r].fingerprint, admitted[r].contract)
                      /\ ObservedFor(preflight[r].observation, admitted[r].fingerprint)
    BY <1>2, <1>4, FoundForGood DEF Backed, Preflight!Runs
  <2> QED  BY <1>4 DEF Granted, Backed
<1>8. GrantShaped'
  <2>1. preflight' = [r \in Preflight!Runs |-> preflight'[r]]
    BY <1>2 DEF Granted, GrantShaped
  <2> QED  BY <1>2, <1>3, <2>1 DEF Granted, GrantShaped, Preflight!Runs
<1> QED  BY <1>5, <1>6, <1>7, <1>8 DEF Granted

LEMMA GoLostSteps == Granted /\ Preflight!GoLost => Granted'
<1> SUFFICES ASSUME Granted, Preflight!GoLost PROVE Granted'
  OBVIOUS
<1>1. /\ goes.at # "idle" /\ goes' = Preflight!Quiet /\ UNCHANGED <<grants, observed, preflight>>
      /\ admitted' = [admitted EXCEPT ![goes.run] = [Preflight!NoRun EXCEPT !.state = "ended"]]
  BY DEF Preflight!GoLost, Preflight!world, Preflight!records
<1>2. admitted' = [r \in Preflight!Runs |-> admitted'[r]]
  BY <1>1 DEF Granted, GrantShaped
<1>3. \A r \in Preflight!Runs : admitted'[r].state # "PREFLIGHT"
  <2> TAKE r \in Preflight!Runs
  <2>1. CASE r = goes.run
    BY <1>1, <2>1 DEF Granted, GrantShaped, Preflight!NoRun
  <2>2. CASE r # goes.run
    BY <1>1, <2>2 DEF Granted, GrantShaped, OneGo
  <2> QED  BY <2>1, <2>2
<1>4. Headed' /\ Matched' /\ Resolved'
  BY <1>1 DEF Granted, Headed, Matched, Resolved, Preflight!Quiet, Preflight!none
<1>5. OneGo' /\ Backed'
  BY <1>3 DEF OneGo, Backed, Preflight!Runs
<1>6. GrantShaped'
  <2>1. preflight' = [r \in Preflight!Runs |-> preflight'[r]]
    BY <1>1 DEF Granted, GrantShaped
  <2> QED  BY <1>1, <1>2, <2>1 DEF GrantShaped, Preflight!Runs, Preflight!Quiet
<1> QED  BY <1>4, <1>5, <1>6 DEF Granted

LEMMA RecordGrantSteps == Granted /\ Preflight!RecordGrant => Granted'
<1> SUFFICES ASSUME Granted, Preflight!RecordGrant PROVE Granted'
  OBVIOUS
<1>1. PICK until \in 1..MaxClock + 1 :
        grants' = grants \cup {[id |-> Preflight!Cardinality(grants) + 1,
                                fingerprint |-> Preflight!Fingerprint, head |-> project.head,
                                contract |-> project.contract, until |-> until]}
  BY DEF Preflight!RecordGrant
<1>2. UNCHANGED <<observed, goes, preflight, admitted>>
  BY DEF Preflight!RecordGrant
<1>3. Headed'
  <2>1. Preflight!Fingerprint[1] = project.head
    BY DEF Preflight!Fingerprint
  <2> QED  BY <1>1, <2>1 DEF Granted, Headed
<1>4. grants \subseteq grants' /\ observed \subseteq observed'
  BY <1>1, <1>2
<1> QED  BY <1>2, <1>3, <1>4, Recording DEF Granted

LEMMA RecordObservationSteps == Granted /\ Preflight!RecordObservation => Granted'
<1> SUFFICES ASSUME Granted, Preflight!RecordObservation PROVE Granted'
  OBVIOUS
<1>1. UNCHANGED <<grants, goes, preflight, admitted>> /\ observed \subseteq observed'
  BY DEF Preflight!RecordObservation
<1>2. Headed'
  BY <1>1 DEF Granted, Headed
<1> QED  BY <1>1, <1>2, Recording DEF Granted

LEMMA GrantedSteps ==
  ASSUME Granted, [Preflight!Next]_Preflight!preflightVars
  PROVE  Granted'
<1>1. CASE \/ Preflight!ProjectMoves \/ Preflight!ClockMoves \/ UNCHANGED Preflight!preflightVars
  <2>1. UNCHANGED <<grants, observed, goes, preflight, admitted>>
    BY <1>1 DEF Preflight!ProjectMoves, Preflight!ClockMoves, Preflight!preflightVars, Preflight!records
  <2>2. Headed'
    BY <2>1 DEF Granted, Headed
  <2> QED  BY <2>1, <2>2, Recording DEF Granted
<1> QED
  BY <1>1, PrepareSteps, ReadHeadSteps, MatchGrantsSteps, ResolveFactsSteps, CheckStatusSteps,
     AdmitSteps, RunEndsSteps, GoLostSteps, RecordGrantSteps, RecordObservationSteps
  DEF Preflight!Next

(* The steps of the other components leave the admission as it is.              *)
LEMMA PreflightPart ==
  /\ Init => Preflight!Init
  /\ [Next]_allVars => [Preflight!Next]_Preflight!preflightVars
BY DEF Init, Next, allVars, preflightAll, Preflight!preflightVars, RecoveryOnly, BusOnly, TaskOnly, GitOnly, GoingOnly,
       PlanOnly, ControlsOnly, PreflightOnly

LEMMA PreflightInvariant == Spec => []Granted
<1>1. Init => Granted
  BY PreflightPart, GrantedBegins
<1>2. Granted /\ [Next]_allVars => Granted'
  BY PreflightPart, GrantedSteps
<1> QED  BY <1>1, <1>2, PTL DEF Spec

(* Whatever moves between the five looks of a Go at the project, and whoever    *)
(* records grants and observations meanwhile: a run that is admitted has a      *)
(* grant and an observation for the project its admission saw.                  *)
THEOREM AdmittedUnderGrant ==
  Spec => []AdmittedAsGranted
<1>1. Granted => AdmittedAsGranted
  BY DEF AdmittedAsGranted, Granted, Backed, GrantFor, ObservedFor, Preflight!AdmittedAsGranted
<1> QED  BY <1>1, PreflightInvariant, PTL
-----------------------------------------------------------------------------
(* The types of the admission.                                                  *)
States == {"none", "PREFLIGHT", "HUMAN_ACTION_REQUIRED", "EXTERNAL_ACTION_REQUIRED", "ended"}
TrueOrFalse == {TRUE, FALSE}
Projects == [head : Preflight!Head, committed : Contents, files : Contents, contract : Preflight!Head,
             paths : TrueOrFalse]
GrantRecords == [id : Preflight!Ids, fingerprint : Preflight!Prints, head : Preflight!Head,
                 contract : Preflight!Head, until : 1..MaxClock + 1]
Observations == [id : Preflight!Ids, fingerprint : Preflight!Prints, head : Preflight!Head, ready : TrueOrFalse]
Goings == [at : {"idle", "head", "grants", "paths", "status", "fingerprint"}, run : 0..MaxGo,
           fingerprint : Preflight!Prints, contract : Preflight!Head, head : Preflight!Head,
           time : 0..MaxClock, grant : Preflight!Ids]
Facts == [grant : Preflight!Ids, observation : Preflight!Ids]
Admissions == [fingerprint : Preflight!Prints, contract : Preflight!Head, state : States]

(* A head, and a contract, is as new as the moves made so far allow.            *)
ProjectTypes ==
  /\ project \in Projects /\ today \in 0..MaxClock /\ moves \in 0..MaxMoves
  /\ project.head <= moves + 1 /\ project.contract <= moves + 1

(* Records are finite in number, so that the id of the next one can be counted. *)
RecordedTypes ==
  /\ grants \subseteq GrantRecords /\ IsFiniteSet(grants)
  /\ observed \subseteq Observations /\ IsFiniteSet(observed)

GoTypes ==
  /\ goes \in Goings
  /\ preflight \in [Preflight!Runs -> Facts] /\ admitted \in [Preflight!Runs -> Admissions]

PreflightTypes == ProjectTypes /\ RecordedTypes /\ GoTypes

LEMMA PreflightLimits ==
  /\ MaxGo \in Nat /\ MaxRecords \in Nat /\ MaxMoves \in Nat /\ MaxClock \in Nat
  /\ Contents # {} /\ Contents \subseteq Nat
BY ControlCenterAssumption DEF Preflight!PreflightAssumption

LEMMA NoneTyped ==
  /\ <<0, 0>> \in Preflight!Prints /\ 0 \in Preflight!Head /\ 0 \in Preflight!Ids /\ 1 \in Preflight!Head
  /\ Preflight!none = 0
  /\ Preflight!Quiet \in Goings /\ Preflight!NoFact \in Facts /\ Preflight!NoRun \in Admissions
<1>1. /\ <<0, 0>> \in Preflight!Prints /\ 0 \in Preflight!Head /\ 0 \in Preflight!Ids /\ 1 \in Preflight!Head
      /\ Preflight!none = 0
  BY PreflightLimits DEF Preflight!Prints, Preflight!Head, Preflight!Ids, Preflight!none
<1> QED
  BY <1>1, PreflightLimits DEF Preflight!Quiet, Preflight!NoFact, Preflight!NoRun, Goings, Facts, Admissions, States

LEMMA FingerprintTyped == ProjectTypes => Preflight!Fingerprint \in Preflight!Prints /\ project.contract \in Preflight!Head
                                          /\ project.head \in Preflight!Head
<1> SUFFICES ASSUME ProjectTypes
             PROVE  Preflight!Fingerprint \in Preflight!Prints /\ project.contract \in Preflight!Head
                    /\ project.head \in Preflight!Head
  OBVIOUS
<1>1. project \in Projects
  BY DEF ProjectTypes
<1>2. project.contract \in Preflight!Head /\ project.head \in Preflight!Head /\ project.files \in Contents
  BY <1>1, Zenon DEF Projects
<1> QED  BY <1>2 DEF Preflight!Fingerprint, Preflight!Prints

(* The id a new record gets, while there is room for one.                       *)
LEMMA NextId ==
  ASSUME NEW S, IsFiniteSet(S), Preflight!Cardinality(S) < MaxRecords
  PROVE  Preflight!Cardinality(S) + 1 \in Preflight!Ids
<1>1. Cardinality(S) \in Nat
  BY FS_CardinalityType
<1> QED  BY <1>1, SameCount, PreflightLimits DEF Preflight!Ids

LEMMA ProjectKept ==
  ASSUME NEW p \in Projects
  PROVE  /\ \A v \in Preflight!Head : /\ [p EXCEPT !.head = v] \in Projects /\ [p EXCEPT !.head = v].head = v
                                     /\ [p EXCEPT !.head = v].contract = p.contract
         /\ \A v \in Contents : /\ [p EXCEPT !.committed = v] \in Projects
                               /\ [p EXCEPT !.committed = v].head = p.head
                               /\ [p EXCEPT !.committed = v].contract = p.contract
         /\ \A v \in Contents : /\ [p EXCEPT !.files = v] \in Projects
                               /\ [p EXCEPT !.files = v].head = p.head
                               /\ [p EXCEPT !.files = v].contract = p.contract
         /\ \A v \in Preflight!Head : /\ [p EXCEPT !.contract = v] \in Projects
                                     /\ [p EXCEPT !.contract = v].head = p.head
                                     /\ [p EXCEPT !.contract = v].contract = v
         /\ \A v \in TrueOrFalse : /\ [p EXCEPT !.paths = v] \in Projects
                                  /\ [p EXCEPT !.paths = v].head = p.head
                                  /\ [p EXCEPT !.paths = v].contract = p.contract
<1>1. \A v \in Preflight!Head : /\ [p EXCEPT !.head = v] \in Projects /\ [p EXCEPT !.head = v].head = v
                                /\ [p EXCEPT !.head = v].contract = p.contract
  BY Zenon DEF Projects
<1>2. \A v \in Contents : /\ [p EXCEPT !.committed = v] \in Projects
                          /\ [p EXCEPT !.committed = v].head = p.head
                          /\ [p EXCEPT !.committed = v].contract = p.contract
  BY Zenon DEF Projects
<1>3. \A v \in Contents : /\ [p EXCEPT !.files = v] \in Projects
                          /\ [p EXCEPT !.files = v].head = p.head
                          /\ [p EXCEPT !.files = v].contract = p.contract
  BY Zenon DEF Projects
<1>4. \A v \in Preflight!Head : /\ [p EXCEPT !.contract = v] \in Projects
                                /\ [p EXCEPT !.contract = v].head = p.head
                                /\ [p EXCEPT !.contract = v].contract = v
  BY Zenon DEF Projects
<1>5. \A v \in TrueOrFalse : /\ [p EXCEPT !.paths = v] \in Projects
                             /\ [p EXCEPT !.paths = v].head = p.head
                             /\ [p EXCEPT !.paths = v].contract = p.contract
  BY Zenon DEF Projects
<1> QED  BY <1>1, <1>2, <1>3, <1>4, <1>5

LEMMA ProjectTypesStep ==
  ASSUME ProjectTypes, [Preflight!Next]_Preflight!preflightVars
  PROVE  ProjectTypes'
<1>1. CASE UNCHANGED <<project, today, moves>>
  BY <1>1 DEF ProjectTypes
<1>2. CASE Preflight!ClockMoves
  BY <1>2, PreflightLimits DEF Preflight!ClockMoves, ProjectTypes
<1>3. CASE Preflight!ProjectMoves
  <2>1. moves < MaxMoves /\ moves' = moves + 1 /\ today' = today /\ project \in Projects
    BY <1>3 DEF Preflight!ProjectMoves, ProjectTypes
  <2>2. /\ project.head \in Preflight!Head /\ project.contract \in Preflight!Head
        /\ project.files \in Contents /\ project.paths \in TrueOrFalse
    BY <2>1, Zenon DEF Projects
  <2>3. /\ project.head + 1 \in Preflight!Head /\ project.contract + 1 \in Preflight!Head
        /\ project.head \in Nat /\ project.contract \in Nat
        /\ project.head + 1 <= moves' + 1 /\ project.contract + 1 <= moves' + 1
        /\ project.head <= moves' + 1 /\ project.contract <= moves' + 1 /\ moves' \in 0..MaxMoves
    BY <2>1, <2>2, PreflightLimits DEF ProjectTypes, Preflight!Head
  <2>4. CASE \E c \in Contents \ {project.files} : project' = [project EXCEPT !.files = c]
    <3>1. project' \in Projects /\ project'.head = project.head /\ project'.contract = project.contract
      BY <2>1, <2>4, ProjectKept
    <3> QED  BY <2>1, <2>3, <3>1 DEF ProjectTypes
  <2>5. CASE project' = [project EXCEPT !.head = @ + 1, !.committed = project.files]
    <3> DEFINE p1 == [project EXCEPT !.head = project.head + 1]
               p2 == [p1 EXCEPT !.committed = project.files]
    <3>1. project' = p2
      BY <2>5, Zenon
    <3>2. p1 \in Projects /\ p1.head = project.head + 1 /\ p1.contract = project.contract
      BY <2>1, <2>3, ProjectKept
    <3> HIDE DEF p1
    <3>3. p2 \in Projects /\ p2.head = p1.head /\ p2.contract = p1.contract
      BY <2>2, <3>2, ProjectKept
    <3> HIDE DEF p2
    <3> QED  BY <2>1, <2>3, <3>1, <3>2, <3>3 DEF ProjectTypes
  <2>6. CASE project' = [project EXCEPT !.contract = @ + 1]
    <3>1. project' = [project EXCEPT !.contract = project.contract + 1]
      BY <2>6, Zenon
    <3>2. project' \in Projects /\ project'.head = project.head /\ project'.contract = project.contract + 1
      BY <2>1, <2>3, <3>1, ProjectKept
    <3> QED  BY <2>1, <2>3, <3>2 DEF ProjectTypes
  <2>7. CASE project' = [project EXCEPT !.paths = ~@]
    <3>1. (~project.paths) \in TrueOrFalse
      BY <2>2, Zenon DEF TrueOrFalse
    <3>2. project' = [project EXCEPT !.paths = ~project.paths]
      BY <2>7, Zenon
    <3>3. project' \in Projects /\ project'.head = project.head /\ project'.contract = project.contract
      BY <2>1, <3>1, <3>2, ProjectKept, Zenon
    <3> QED  BY <2>1, <2>3, <3>3 DEF ProjectTypes
  <2> QED  BY <1>3, <2>4, <2>5, <2>6, <2>7 DEF Preflight!ProjectMoves
<1>4. UNCHANGED <<project, today, moves>> \/ Preflight!ClockMoves \/ Preflight!ProjectMoves
  <2>1. UNCHANGED Preflight!preflightVars \/ UNCHANGED Preflight!world => UNCHANGED <<project, today, moves>>
    BY DEF Preflight!preflightVars, Preflight!world
  <2>2. Preflight!CheckStatus \/ Preflight!Admit => UNCHANGED Preflight!world
    BY DEF Preflight!CheckStatus, Preflight!Admit, Preflight!RecordRun
  <2>3. Preflight!RecordGrant \/ Preflight!RecordObservation => UNCHANGED <<project, today, moves>>
    BY DEF Preflight!RecordGrant, Preflight!RecordObservation
  <2>4. ASSUME \/ Preflight!Prepare \/ Preflight!ReadHead \/ Preflight!MatchGrants
               \/ Preflight!ResolveFacts \/ Preflight!RunEnds \/ Preflight!GoLost
        PROVE  UNCHANGED Preflight!world
    BY <2>4, Zenon DEF Preflight!Prepare, Preflight!ReadHead, Preflight!MatchGrants, Preflight!ResolveFacts,
                 Preflight!RunEnds, Preflight!GoLost
  <2> QED  BY <2>1, <2>2, <2>3, <2>4 DEF Preflight!Next
<1> QED  BY <1>1, <1>2, <1>3, <1>4

LEMMA RecordedTypesStep ==
  ASSUME ProjectTypes, RecordedTypes, [Preflight!Next]_Preflight!preflightVars
  PROVE  RecordedTypes'
<1>1. CASE UNCHANGED Preflight!records
  BY <1>1 DEF Preflight!records, RecordedTypes
<1>2. CASE Preflight!RecordGrant
  <2>1. PICK until \in 1..MaxClock + 1 :
          grants' = grants \cup {[id |-> Preflight!Cardinality(grants) + 1,
                                  fingerprint |-> Preflight!Fingerprint, head |-> project.head,
                                  contract |-> project.contract, until |-> until]}
    BY <1>2 DEF Preflight!RecordGrant
  <2>2. Preflight!Cardinality(grants) + 1 \in Preflight!Ids
    BY <1>2, NextId DEF Preflight!RecordGrant, RecordedTypes
  <2>3. [id |-> Preflight!Cardinality(grants) + 1, fingerprint |-> Preflight!Fingerprint,
         head |-> project.head, contract |-> project.contract, until |-> until] \in GrantRecords
    BY <2>2, FingerprintTyped, Zenon DEF GrantRecords
  <2>4. IsFiniteSet(grants')
    BY <2>1, FS_AddElement DEF RecordedTypes
  <2> QED  BY <1>2, <2>1, <2>3, <2>4 DEF Preflight!RecordGrant, RecordedTypes
<1>3. CASE Preflight!RecordObservation
  <2>1. observed' = observed \cup {[id |-> Preflight!Cardinality(observed) + 1,
                                    fingerprint |-> Preflight!Fingerprint, head |-> project.head,
                                    ready |-> project.paths]}
    BY <1>3 DEF Preflight!RecordObservation
  <2>2. Preflight!Cardinality(observed) + 1 \in Preflight!Ids
    BY <1>3, NextId DEF Preflight!RecordObservation, RecordedTypes
  <2>3. project.paths \in TrueOrFalse
    BY Zenon DEF ProjectTypes, Projects
  <2>4. [id |-> Preflight!Cardinality(observed) + 1, fingerprint |-> Preflight!Fingerprint,
         head |-> project.head, ready |-> project.paths] \in Observations
    BY <2>2, <2>3, FingerprintTyped, Zenon DEF Observations
  <2>5. IsFiniteSet(observed')
    BY <2>1, FS_AddElement DEF RecordedTypes
  <2>6. observed' \subseteq Observations
    BY <2>1, <2>4, Zenon DEF RecordedTypes
  <2> QED  BY <1>3, <2>5, <2>6 DEF Preflight!RecordObservation, RecordedTypes
<1>4. UNCHANGED Preflight!records \/ Preflight!RecordGrant \/ Preflight!RecordObservation
  <2>1. UNCHANGED Preflight!preflightVars \/ UNCHANGED Preflight!world => UNCHANGED Preflight!records
    BY DEF Preflight!preflightVars, Preflight!world, Preflight!records
  <2>2. Preflight!CheckStatus \/ Preflight!Admit => UNCHANGED Preflight!world
    BY DEF Preflight!CheckStatus, Preflight!Admit, Preflight!RecordRun
  <2>3. Preflight!ProjectMoves \/ Preflight!ClockMoves => UNCHANGED Preflight!records
    BY DEF Preflight!ProjectMoves, Preflight!ClockMoves
  <2>4. ASSUME \/ Preflight!Prepare \/ Preflight!ReadHead \/ Preflight!MatchGrants
               \/ Preflight!ResolveFacts \/ Preflight!RunEnds \/ Preflight!GoLost
        PROVE  UNCHANGED Preflight!world
    BY <2>4, Zenon DEF Preflight!Prepare, Preflight!ReadHead, Preflight!MatchGrants, Preflight!ResolveFacts,
                 Preflight!RunEnds, Preflight!GoLost
  <2> QED  BY <2>1, <2>2, <2>3, <2>4 DEF Preflight!Next
<1> QED  BY <1>1, <1>2, <1>3, <1>4

(* The number of the next run, while there is room for one.                     *)
LEMMA NextRun == Preflight!Cardinality(Preflight!Used) < MaxGo => Preflight!Cardinality(Preflight!Used) + 1 \in 0..MaxGo
<1>1. IsFiniteSet(Preflight!Runs)
  BY FS_Interval, PreflightLimits DEF Preflight!Runs
<1>2. Preflight!Used \subseteq Preflight!Runs
  BY DEF Preflight!Used
<1>3. Cardinality(Preflight!Used) \in Nat
  BY <1>1, <1>2, FS_Subset, FS_CardinalityType
<1> HIDE DEF Preflight!Used
<1> QED  BY <1>3, SameCount, PreflightLimits

(* A run record written by an admission that ends.                              *)
LEMMA AdmissionRecorded ==
  ASSUME GoTypes, NEW v \in Admissions, admitted' = [admitted EXCEPT ![goes.run] = v],
         goes' = Preflight!Quiet, UNCHANGED preflight
  PROVE  GoTypes'
<1>1. admitted' \in [Preflight!Runs -> Admissions]
  BY DEF GoTypes
<1> QED  BY <1>1, NoneTyped DEF GoTypes, Preflight!Runs

LEMMA GoTypesStep ==
  ASSUME ProjectTypes, RecordedTypes, GoTypes, [Preflight!Next]_Preflight!preflightVars
  PROVE  GoTypes'
<1> USE DEF Preflight!Runs
<1>1. CASE UNCHANGED <<goes, preflight, admitted>>
  BY <1>1 DEF GoTypes
<1>2. ASSUME goes' \in Goings, UNCHANGED <<preflight, admitted>> PROVE GoTypes'
  BY <1>2 DEF GoTypes
<1>3. CASE Preflight!Prepare
  <2>1. goes' = [Preflight!Quiet EXCEPT !.at = "head", !.run = Preflight!Cardinality(Preflight!Used) + 1,
                   !.fingerprint = Preflight!Fingerprint, !.contract = project.contract]
    BY <1>3 DEF Preflight!Prepare
  <2>2. Preflight!Cardinality(Preflight!Used) + 1 \in 0..MaxGo
    BY <1>3, NextRun DEF Preflight!Prepare
  <2> HIDE DEF Preflight!Used
  <2>3. goes' \in Goings
    BY <2>1, <2>2, NoneTyped, FingerprintTyped DEF Goings
  <2> QED  BY <1>2, <1>3, <2>3 DEF Preflight!Prepare
<1>4. CASE Preflight!ReadHead
  <2>1. PICK head \in {project.head, Preflight!none} :
          goes' = [goes EXCEPT !.at = "grants", !.time = today, !.head = head]
    BY <1>4 DEF Preflight!ReadHead
  <2>2. head \in Preflight!Head
    BY NoneTyped, FingerprintTyped
  <2>3. goes' \in Goings
    BY <2>1, <2>2 DEF GoTypes, Goings, ProjectTypes
  <2> QED  BY <1>2, <1>4, <2>3 DEF Preflight!ReadHead
<1>5. CASE Preflight!MatchGrants
  <2>1. PICK readable \in SUBSET grants :
          goes' = [goes EXCEPT !.at = "paths",
                     !.grant = IF Preflight!Cardinality({g \in readable : Preflight!Matches(g)}) = 1
                               THEN (CHOOSE g \in {g \in readable : Preflight!Matches(g)} : TRUE).id
                               ELSE Preflight!none]
    BY <1>5 DEF Preflight!MatchGrants
  <2> DEFINE found == {g \in readable : Preflight!Matches(g)}
             one == CHOOSE g \in found : TRUE
             grant == IF Preflight!Cardinality(found) = 1 THEN one.id ELSE Preflight!none
  <2>2. grant \in Preflight!Ids
    <3>1. Preflight!Cardinality(found) = 1 => one \in GrantRecords
      BY OnlyOne DEF RecordedTypes
    <3>2. \A g \in GrantRecords : g.id \in Preflight!Ids
      BY DEF GrantRecords
    <3> HIDE DEF one, found
    <3> QED  BY <3>1, <3>2, NoneTyped
  <2>3. goes' = [goes EXCEPT !.at = "paths", !.grant = grant]
    BY <2>1
  <2> HIDE DEF grant
  <2>4. goes' \in Goings
    BY <2>2, <2>3 DEF GoTypes, Goings
  <2> QED  BY <1>2, <1>5, <2>4 DEF Preflight!MatchGrants
<1>6. CASE Preflight!ResolveFacts
  <2> DEFINE found == {o \in observed : /\ o.ready /\ o.head = goes.head /\ project.paths
                                        /\ o.fingerprint = goes.fingerprint}
             first == CHOOSE o \in found : TRUE
             one == IF Preflight!Cardinality(found) = 1 THEN first.id ELSE Preflight!none
  <2>1. /\ preflight' = [preflight EXCEPT ![goes.run] = [grant |-> goes.grant, observation |-> one]]
        /\ goes' = [goes EXCEPT !.at = "status"] /\ UNCHANGED admitted
    BY <1>6 DEF Preflight!ResolveFacts
  <2>2. one \in Preflight!Ids
    <3>1. found \subseteq Observations
      BY DEF RecordedTypes
    <3> HIDE DEF found
    <3>2. Preflight!Cardinality(found) = 1 => first \in Observations
      BY <3>1, OnlyOne
    <3>3. \A o \in Observations : o.id \in Preflight!Ids
      BY Zenon DEF Observations
    <3> HIDE DEF first
    <3> QED  BY <3>2, <3>3, NoneTyped
  <2> HIDE DEF one
  <2>3. [grant |-> goes.grant, observation |-> one] \in Facts
    BY <2>2 DEF GoTypes, Goings, Facts
  <2>4. goes' \in Goings
    BY <2>1 DEF GoTypes, Goings
  <2> QED  BY <2>1, <2>3, <2>4 DEF GoTypes
<1>7. CASE Preflight!CheckStatus
  <2>1. CASE Preflight!RecordRun("HUMAN_ACTION_REQUIRED", Preflight!Fingerprint)
    <3>1. [state |-> "HUMAN_ACTION_REQUIRED", fingerprint |-> Preflight!Fingerprint,
           contract |-> goes.contract] \in Admissions
      BY FingerprintTyped DEF GoTypes, Goings, Admissions, States
    <3> QED  BY <2>1, <3>1, AdmissionRecorded DEF Preflight!RecordRun
  <2>2. CASE goes' = [goes EXCEPT !.at = "fingerprint"] /\ UNCHANGED <<preflight, admitted>>
    <3>1. goes' \in Goings
      BY <2>2 DEF GoTypes, Goings
    <3> QED  BY <1>2, <2>2, <3>1
  <2> QED  BY <1>7, <2>1, <2>2 DEF Preflight!CheckStatus
<1>8. CASE Preflight!Admit
  <2>1. PICK state \in States : Preflight!RecordRun(state, Preflight!Fingerprint)
    <3>1. \E state \in {"HUMAN_ACTION_REQUIRED", "EXTERNAL_ACTION_REQUIRED", "PREFLIGHT"} :
            Preflight!RecordRun(state, Preflight!Fingerprint)
      BY <1>8, Zenon DEF Preflight!Admit
    <3> QED  BY <3>1 DEF States
  <2>2. [state |-> state, fingerprint |-> Preflight!Fingerprint, contract |-> goes.contract] \in Admissions
    BY FingerprintTyped DEF GoTypes, Goings, Admissions
  <2> QED  BY <2>1, <2>2, AdmissionRecorded DEF Preflight!RecordRun
<1>9. CASE Preflight!RunEnds
  <2>1. PICK r \in Preflight!Runs : admitted' = [admitted EXCEPT ![r].state = "ended"]
    BY <1>9 DEF Preflight!RunEnds, Preflight!Used
  <2>2. [admitted[r] EXCEPT !.state = "ended"] \in Admissions
    BY DEF GoTypes, Admissions, States
  <2>3. admitted' = [admitted EXCEPT ![r] = [admitted[r] EXCEPT !.state = "ended"]]
    BY <2>1
  <2>4. admitted' \in [Preflight!Runs -> Admissions]
    BY <2>2, <2>3 DEF GoTypes
  <2> QED  BY <1>9, <2>4 DEF Preflight!RunEnds, GoTypes
<1>10. CASE Preflight!GoLost
  <2>1. [Preflight!NoRun EXCEPT !.state = "ended"] \in Admissions
    BY NoneTyped DEF Admissions, States
  <2> QED  BY <1>10, <2>1, AdmissionRecorded DEF Preflight!GoLost
<1>11. \/ UNCHANGED <<goes, preflight, admitted>> \/ Preflight!Prepare \/ Preflight!ReadHead
       \/ Preflight!MatchGrants \/ Preflight!ResolveFacts \/ Preflight!CheckStatus \/ Preflight!Admit
       \/ Preflight!RunEnds \/ Preflight!GoLost
  BY DEF Preflight!Next, Preflight!preflightVars, Preflight!RecordGrant, Preflight!RecordObservation,
         Preflight!ProjectMoves, Preflight!ClockMoves
<1> QED  BY <1>1, <1>3, <1>4, <1>5, <1>6, <1>7, <1>8, <1>9, <1>10, <1>11

LEMMA PreflightTypesBegin == Preflight!Init => PreflightTypes
<1> SUFFICES ASSUME Preflight!Init PROVE PreflightTypes
  OBVIOUS
<1>1. ProjectTypes
  <2>1. PICK c \in Contents : project = [head |-> 1, committed |-> c, files |-> c, contract |-> 1, paths |-> TRUE]
    BY DEF Preflight!Init
  <2>2. TRUE \in TrueOrFalse
    BY Zenon DEF TrueOrFalse
  <2>3. project \in Projects /\ project.head = 1 /\ project.contract = 1
    BY <2>1, <2>2, NoneTyped, Zenon DEF Projects
  <2>4. today = 0 /\ moves = 0
    BY DEF Preflight!Init
  <2> QED  BY <2>3, <2>4, PreflightLimits DEF ProjectTypes
<1>2. RecordedTypes
  BY FS_EmptySet DEF Preflight!Init, RecordedTypes
<1>3. GoTypes
  BY NoneTyped DEF Preflight!Init, GoTypes
<1> QED  BY <1>1, <1>2, <1>3 DEF PreflightTypes

(* Every variable of the admission keeps its type: a run, a record and a head   *)
(* is numbered within its bound, and what was read of a project is a state of   *)
(* one.                                                                         *)
THEOREM AdmissionTypes == Spec => []Preflight!TypeOK
<1>1. Init => PreflightTypes
  BY PreflightPart, PreflightTypesBegin
<1>2. PreflightTypes /\ [Next]_allVars => PreflightTypes'
  BY PreflightPart, ProjectTypesStep, RecordedTypesStep, GoTypesStep DEF PreflightTypes
<1>3. ASSUME PreflightTypes PROVE Preflight!TypeOK
  <2>1. TrueOrFalse = BOOLEAN
    BY Zenon DEF TrueOrFalse
  <2> QED
    BY <1>3, <2>1, Zenon DEF PreflightTypes, ProjectTypes, RecordedTypes, GoTypes, Projects, GrantRecords,
       Observations, Goings, Facts, Admissions, States, Preflight!TypeOK
<1> QED  BY <1>1, <1>2, <1>3, PTL DEF Spec
-----------------------------------------------------------------------------
(* Every variable of every component beside the Day controller and the run      *)
(* records keeps its type and its bound, for every value of the constants: what *)
(* is saved can be loaded again, and what is counted stays within its limit.    *)
THEOREM SuiteTypes == Spec => []TypesOK
<1>1. /\ Recovery!TypeOK /\ Bus!TypeOK /\ Task!TypeOK /\ Git!TypeOK
      /\ Going!TypeOK /\ Plan!TypeOK /\ Controls!TypeOK /\ Preflight!TypeOK
      => TypesOK
  BY Zenon DEF TypesOK
<1> QED
  BY <1>1, RecoveryTypes, BusKeepsTypes, WorkflowTypes, CompletionTypes, ContinuationTypes, PlanTypes,
     RunControlsTypes, AdmissionTypes, PTL
=============================================================================
