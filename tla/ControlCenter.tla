---------------------------- MODULE ControlCenter ----------------------------
(* The components beside the Day controller and the run records, one at a time: *)
(* they share no state that a property is about, so a behaviour picks one of    *)
(* them and the others stay as they begin.  Their states add up instead of      *)
(* multiplying.  The constants are those of the components, under their names;  *)
(* MaxForgets bounds the restarts of RunControls.                               *)
EXTENDS FiniteSets, Naturals, Sequences

CONSTANTS
  Deadline, MaxForeign, MaxCrash,
  MaxReports, Transport, Confirms, NeedsReply, MaxEdits, MaxRuns, MaxRestarts,
  Caller, MaxRetry, BudgetRetry, DailyLimit, MaxCalls, MaxSpent, MaxRestart,
  Requester, MaxTouches, MaxRequests, MaxStops,
  Actor, Goal, MaxSteps, MaxReboots,
  Driver, PlanTask, MaxTasks, MaxArchitect, MaxCodex, MaxEvaluator, MaxRepairs, MaxFailed,
  MaxRetries, MaxReplans, MaxLoops, MaxInterrupts,
  Response, Failure, Message, MaxAttempts, MaxRevision, MaxHeard, MaxForgets,
  Contents, MaxGo, MaxRecords, MaxMoves, MaxClock

VARIABLES
  part,         \* the component this behaviour is about
  phase, repairable, child, attempts, clock, request, inFlight, comments, posts,
  entry, tickAt, seen, restarts,
  posted, replies, replyIds, edits, registry, loaded, refused, pending, outstanding, processed,
  lastReport, lastAction, excluded, cycle, continued, runs, busRestarts,
  workflow, spent, saved, mockDone, call, record, calls, recoveries, cause,
  branch, remote, index, worktree, base, completing, results, touches, requests,
  stops,
  week1Enabled, week, experiment, goals, zeroTouch, candidate, doing, asked, reboots,
  plan, keptPlan, loop, epoch, used, loops, interrupts, blind,
  control, dayState, bound, review, usedResponses, repair, revision, heard,
  confirming, unverified, others, forgot, relaunches,
  project, today, grants, observed, goes, preflight, admitted, moves

recoveryState == <<phase, repairable, child, attempts, clock, request, inFlight,
                   comments, posts, entry, tickAt, seen, restarts>>
busAll == <<posted, replies, replyIds, edits, registry, loaded, refused, pending, outstanding,
            processed, lastReport, lastAction, excluded, cycle, continued, runs,
            busRestarts>>
taskAll == <<workflow, spent, saved, mockDone, call, record, calls, recoveries,
             cause>>
gitAll == <<branch, remote, index, worktree, base, completing, results, touches,
            requests, stops>>
goingAll == <<week1Enabled, week, experiment, goals, zeroTouch, candidate, doing,
              asked, reboots>>
planAll == <<plan, keptPlan, loop, epoch, used, loops, interrupts, blind>>
controlsAll == <<control, dayState, bound, review, usedResponses, repair, revision,
                 heard, confirming, unverified, others, forgot, relaunches>>
preflightAll == <<project, today, grants, observed, goes, preflight, admitted,
                  moves>>

Recovery == INSTANCE TransportRecovery
Bus == INSTANCE ReviewerBus
Task == INSTANCE TaskWorkflow
Git == INSTANCE GitCompletion
Going == INSTANCE Continuation
Plan == INSTANCE PlanRunner
Controls == INSTANCE RunControls WITH MaxRestarts <- MaxForgets
Preflight == INSTANCE RunPreflight

ASSUME ControlCenterAssumption ==
  /\ Recovery!RecoveryAssumption /\ Bus!BusAssumption
  /\ Task!TaskAssumption /\ Git!CompletionAssumption
  /\ Going!ContinuationAssumption /\ Plan!PlanAssumption
  /\ Controls!ControlsAssumption /\ Preflight!PreflightAssumption

allVars == <<part, recoveryState, busAll, taskAll, gitAll, goingAll, planAll,
            controlsAll, preflightAll>>

Init ==
  /\ part \in {"recovery", "bus", "task", "git", "continuation", "plan", "controls",
               "preflight"}
  /\ Recovery!Init /\ Bus!Init /\ Task!Init /\ Git!Init
  /\ Going!Init /\ Plan!Init /\ Controls!Init /\ Preflight!Init

RecoveryOnly(A) ==
  /\ part = "recovery" /\ A
  /\ UNCHANGED <<part, busAll, taskAll, gitAll, goingAll, planAll, controlsAll,
                  preflightAll>>

BusOnly(A) ==
  /\ part = "bus" /\ A
  /\ UNCHANGED <<part, recoveryState, taskAll, gitAll, goingAll, planAll, controlsAll,
                  preflightAll>>

TaskOnly(A) ==
  /\ part = "task" /\ A
  /\ UNCHANGED <<part, recoveryState, busAll, gitAll, goingAll, planAll, controlsAll,
                  preflightAll>>

GitOnly(A) ==
  /\ part = "git" /\ A
  /\ UNCHANGED <<part, recoveryState, busAll, taskAll, goingAll, planAll, controlsAll,
                  preflightAll>>

GoingOnly(A) ==
  /\ part = "continuation" /\ A
  /\ UNCHANGED <<part, recoveryState, busAll, taskAll, gitAll, planAll, controlsAll,
                  preflightAll>>

PlanOnly(A) ==
  /\ part = "plan" /\ A
  /\ UNCHANGED <<part, recoveryState, busAll, taskAll, gitAll, goingAll, controlsAll,
                  preflightAll>>

ControlsOnly(A) ==
  /\ part = "controls" /\ A
  /\ UNCHANGED <<part, recoveryState, busAll, taskAll, gitAll, goingAll, planAll,
                  preflightAll>>

PreflightOnly(A) ==
  /\ part = "preflight" /\ A
  /\ UNCHANGED <<part, recoveryState, busAll, taskAll, gitAll, goingAll, planAll,
                  controlsAll>>

Next ==
  \/ RecoveryOnly(Recovery!Next) \/ BusOnly(Bus!Next)
  \/ TaskOnly(Task!Next) \/ GitOnly(Git!Next)
  \/ GoingOnly(Going!Next) \/ PlanOnly(Plan!Next)
  \/ ControlsOnly(Controls!Next) \/ PreflightOnly(Preflight!Next)

(* The fairness of the transport recovery, the one part with a liveness         *)
(* property.                                                                    *)
Fairness ==
  /\ WF_allVars(RecoveryOnly(Recovery!Poll)) /\ WF_allVars(RecoveryOnly(Recovery!TickSteps))
  /\ WF_allVars(RecoveryOnly(Recovery!ClockAdvances))

Spec == Init /\ [][Next]_allVars /\ Fairness
-----------------------------------------------------------------------------
(* Every component's state stays within its types and bounds.                   *)
TypesOK ==
  /\ Recovery!TypeOK /\ Bus!TypeOK /\ Task!TypeOK /\ Git!TypeOK
  /\ Going!TypeOK /\ Plan!TypeOK /\ Controls!TypeOK /\ Preflight!TypeOK

(* The trigger comment of a replacement report is posted at most once.          *)
PostedAtMostOnce == Recovery!PostedAtMostOnce

(* A replacement whose recovery was given up is not applied by Codex.           *)
EscalatedIsNotApplied == Recovery!EscalatedIsNotApplied

(* Every rejected report is resolved or escalated in the end.                   *)
RecoveryEnds == Recovery!RecoveryEnds

(* A processed report is never given to Codex again.                            *)
ProcessedIsNotContinued == Bus!ProcessedIsNotContinued

(* A report's wait for a human ends by a confirmation that was applied.         *)
HumanWaitEndsByConfirmation == Bus!HumanWaitEndsByConfirmation

(* A pending reply stays the one that was validated and bound.                  *)
AppliesWhatWasBound == Bus!AppliesWhatWasBound

(* The shared workflow is only left where no task can start by an overlap, a    *)
(* restart, a blocked retry or an uncaught error.                               *)
NextTaskCanStart == Task!NextTaskCanStart

(* Verified work is committed once, by one request, and what is reported as     *)
(* pushed is on origin.                                                         *)
CompletedOnce == Git!CompletedOnce

(* Day 7 asks for the decision of the next phase only over repeated Days.       *)
DecisionNeedsRepeat == Going!DecisionNeedsRepeat

(* After a Week 1 record that asks for a person only requests that were checked *)
(* before it add another.                                                       *)
AttentionIsFinal == Going!AttentionIsFinal

(* The Codex calls of a Day plan stay within its limit while every call is seen. *)
CodexLimitKept == Plan!CodexLimitKept

(* A run is recorded COMPLETE only with its requested review verified.          *)
ReviewedBeforeComplete == Controls!ReviewedBeforeComplete

(* A run is admitted only under a grant and an observation for the project its  *)
(* admission saw.                                                               *)
AdmittedAsGranted == Preflight!AdmittedAsGranted
=============================================================================
