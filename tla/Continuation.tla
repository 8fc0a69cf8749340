----------------------------- MODULE Continuation -----------------------------
(* What the control center does next by itself: goals, trusted experiments, the *)
(* Week 1 program, continue_autonomously and the Zero-Touch runs of             *)
(* backend/orchestrator/engine.py, with the policies of                         *)
(* backend/control/next_action.py, goal_policy.py, week1_program.py and         *)
(* local_runtime.py.                                                            *)
(*                                                                              *)
(* Requests run on threads of their own, with no lock between them.  A request  *)
(* is one step up to its external command (the runtime's readiness, an          *)
(* experiment) and one after it; a Day of Week 1 is a step for its check, one   *)
(* for the files its program reads and one for its record.  What a request has  *)
(* found out by then is not looked at again.                                    *)
EXTENDS FiniteSets, Naturals, Sequences

CONSTANTS
  Actor,         \* threads that serve a request
  Goal,          \* goals submitted
  MaxSteps,      \* bound: requests
  MaxReboots     \* bound: restarts

ContinuationAssumption ==
  IsFiniteSet(Actor) /\ IsFiniteSet(Goal) /\ MaxSteps \in Nat /\ MaxReboots \in Nat

VARIABLES
  week1Enabled,  \* was the Week 1 runbook found when the process started?
  week,          \* week1_days: the records, the oldest first
  experiment,    \* the outcome of the last recorded experiment
  goals,         \* the status of each submitted goal
  zeroTouch,     \* the status of the last Zero-Touch run
  candidate,     \* the verified run that waits for its completion, if any
  doing,         \* what each thread is doing
  asked, reboots

continuationVars == <<week1Enabled, week, experiment, goals, zeroTouch, candidate, doing, asked, reboots>>

Day == {4, 5, 6, 7}

(* A record of Week 1, with the number of records its request was checked       *)
(* against, and what a thread is doing: a Day carries the record it will add.   *)
Blank == [day |-> 0, status |-> "none", seen |-> 0]
Free == [op |-> "free", zero |-> FALSE, goal |-> "none", entry |-> Blank]
OnDay(op, zero, entry) == [op |-> op, zero |-> zero, goal |-> "none", entry |-> entry]

Init ==
  /\ week1Enabled = FALSE /\ week = <<>> /\ experiment = "none"
  /\ goals = [g \in Goal |-> "absent"] /\ zeroTouch = "none" /\ candidate = "none"
  /\ doing = [a \in Actor |-> Free] /\ asked = 0 /\ reboots = 0

records == <<week, experiment, goals, zeroTouch, candidate>>

Asks(a) == doing[a].op = "free" /\ asked < MaxSteps /\ asked' = asked + 1 /\ UNCHANGED <<week1Enabled, reboots>>
Answers == UNCHANGED <<week1Enabled, asked, reboots>>
Does(a, next) == doing' = [doing EXCEPT ![a] = next]

(* _finish_zero_touch, of a request that is a Zero-Touch run.                   *)
Closes(zero, status) == zeroTouch' = IF zero THEN status ELSE zeroTouch
-----------------------------------------------------------------------------
Attention == {"EXTERNAL_ACTION_REQUIRED", "HUMAN_DECISION_REQUIRED"}
Completed == {i \in 1..Len(week) : week[i].status = "COMPLETE"}

(* The Week 1 action: a person while the last record asks for one, else the     *)
(* first Day without a COMPLETE record.                                         *)
Week1NextDay ==
  LET open == {d \in Day : \A i \in Completed : week[i].day # d}
  IN  IF open = {} THEN 0 ELSE CHOOSE d \in open : \A e \in open : d <= e

Week1NeedsPerson == Len(week) > 0 /\ week[Len(week)].status \in Attention

(* recommend_next_action, behind the Week 1 action, by the last outcome.        *)
NextAction(outcome) ==
  IF week1Enabled /\ Week1NeedsPerson THEN week[Len(week)].status
  ELSE IF week1Enabled /\ Week1NextDay # 0 THEN "RUN_WEEK1_DAY"
  ELSE IF candidate \in {"ready", "stuck"} THEN "COMPLETE_VERIFIED_WORK"
  ELSE IF zeroTouch = "COMPLETE" THEN "NO_FURTHER_ACTION"
  ELSE IF outcome = "external" THEN "EXTERNAL_ACTION_REQUIRED"
  ELSE "RUN_TRUSTED_EXPERIMENT"

(* Mutant: two COMPLETE records are enough for Day 7.                           *)
DecidesOnTwo(day) ==
  CASE day = 4 -> {"COMPLETE", "EXTERNAL_ACTION_REQUIRED"}
    [] day = 5 -> {"EXTERNAL_ACTION_REQUIRED"}
    [] day = 6 -> {"COMPLETE", "EXTERNAL_ACTION_REQUIRED"}
    [] day = 7 -> IF Cardinality(Completed) < 2 THEN {"EXTERNAL_ACTION_REQUIRED"}
                  ELSE {"HUMAN_DECISION_REQUIRED"}

(* Week1Program.run, by the files of the LocalLLM-Lab as they are just now.     *)
(* Day 5 has no runner; Day 7 counts COMPLETE records, not Days.                *)
Week1Results(day) ==
  CASE day = 4 -> {"COMPLETE", "EXTERNAL_ACTION_REQUIRED"}
    [] day = 5 -> {"EXTERNAL_ACTION_REQUIRED"}
    [] day = 6 -> {"COMPLETE", "EXTERNAL_ACTION_REQUIRED"}
    [] day = 7 -> IF Cardinality(Completed) < 3 THEN {"EXTERNAL_ACTION_REQUIRED"}
                  ELSE {"HUMAN_DECISION_REQUIRED"}

(* Mutant: only the last record is asked.                                       *)
LastUnresolved == Week1NeedsPerson

(* Any record that asks for a person refuses every further Day.                 *)
AttentionUnresolved == \E i \in 1..Len(week) : week[i].status \in Attention

(* run_week1_day up to its check.  For a refused Day a continuation raises: it  *)
(* looks for the status of the answer.                                          *)
BeginsWeek1Day(a, day, zero) ==
  /\ UNCHANGED records
  /\ \/ AttentionUnresolved /\ UNCHANGED doing
     \/ /\ ~AttentionUnresolved
        /\ Does(a, OnDay("program", zero, [day |-> day, status |-> "none", seen |-> Len(week)]))

(* The program's answer; that of Day 4 may ask for its experiment.              *)
RunsProgram(a) ==
  /\ doing[a].op = "program" /\ Answers /\ UNCHANGED records
  /\ LET entry == doing[a].entry
     IN  \E status \in Week1Results(entry.day) :
           Does(a, OnDay(IF entry.day = 4 /\ status = "COMPLETE" THEN "day4" ELSE "record",
                         doing[a].zero, [entry EXCEPT !.status = status]))

(* The record, whatever was recorded in the meantime.                           *)
RecordsDay(a) ==
  /\ doing[a].op = "record" /\ Answers /\ Does(a, Free)
  /\ week' = Append(week, doing[a].entry)
  /\ Closes(doing[a].zero, IF doing[a].entry.status = "COMPLETE" THEN "COMPLETE" ELSE "ATTENTION")
  /\ UNCHANGED <<experiment, goals, candidate>>

RunWeek1Day(a) == Asks(a) /\ \E day \in Day : BeginsWeek1Day(a, day, FALSE)
-----------------------------------------------------------------------------
(* Outcomes of an experiment: one that needs no one, or one of the runtime's.   *)
Outcome == {"ok", "external"}

Day4Experiment(a) ==
  /\ doing[a].op = "day4" /\ Answers
  /\ experiment' \in Outcome \cup {experiment}
  /\ \E recorded \in IF experiment' = "ok" THEN BOOLEAN ELSE {FALSE} :
       Does(a, OnDay("record", doing[a].zero,
                     [doing[a].entry EXCEPT !.status = IF recorded THEN "COMPLETE"
                                                       ELSE "EXTERNAL_ACTION_REQUIRED"]))
  /\ UNCHANGED <<week, goals, zeroTouch, candidate>>

RunExperiment(a) ==
  /\ Asks(a) /\ Does(a, [Free EXCEPT !.op = "experiment"])
  /\ UNCHANGED records

(* A continuation that ran it is complete whatever the outcome: the record of   *)
(* an experiment carries no error.                                              *)
Experiment(a) ==
  /\ doing[a].op = "experiment" /\ Answers /\ Does(a, Free)
  /\ experiment' \in Outcome
  /\ Closes(doing[a].zero, "COMPLETE")
  /\ UNCHANGED <<week, goals, candidate>>
-----------------------------------------------------------------------------
(* propose_goal: rejected by the policy, or a plan for the trusted experiment.  *)
ProposeGoal(a) ==
  /\ Asks(a) /\ UNCHANGED doing
  /\ \E g \in Goal, status \in {"PROPOSED", "REJECTED"} :
       goals[g] = "absent" /\ goals' = [goals EXCEPT ![g] = status]
  /\ UNCHANGED <<week, experiment, zeroTouch, candidate>>

ExecuteGoal(a) ==
  /\ Asks(a) /\ UNCHANGED records
  /\ \E g \in Goal : goals[g] = "PROPOSED" /\ Does(a, [Free EXCEPT !.op = "goal", !.goal = g])

(* start_zero_touch: the plan, then the readiness of the runtime.               *)
StartZeroTouch(a) ==
  /\ Asks(a)
  /\ \E g \in Goal :
       /\ goals[g] = "absent"
       /\ \/ /\ goals' = [goals EXCEPT ![g] = "REJECTED"] /\ zeroTouch' = "ATTENTION"
             /\ UNCHANGED doing
          \/ /\ goals' = [goals EXCEPT ![g] = "PROPOSED"] /\ UNCHANGED zeroTouch
             /\ Does(a, [Free EXCEPT !.op = "ready", !.zero = TRUE, !.goal = g])
  /\ UNCHANGED <<week, experiment, candidate>>

(* ApprovedLocalRuntimeService.readiness: checked, started, waited for; then a  *)
(* goal must still be open.                                                     *)
Readiness(a) ==
  /\ doing[a].op = "ready" /\ Answers
  /\ \/ Closes(doing[a].zero, "ATTENTION") /\ Does(a, Free)
     \/ /\ doing[a].goal # "none" => goals[doing[a].goal] = "PROPOSED"
        /\ UNCHANGED zeroTouch
        /\ Does(a, [doing[a] EXCEPT !.op = IF doing[a].goal = "none" THEN "experiment" ELSE "goal"])
  /\ UNCHANGED <<week, experiment, goals, candidate>>

(* The experiment of a goal, which is EXECUTED whatever its outcome.  The       *)
(* Zero-Touch run over it is ATTENTION only if the runtime is what is next.     *)
GoalExperiment(a) ==
  /\ doing[a].op = "goal" /\ Answers /\ Does(a, Free)
  /\ experiment' \in Outcome
  /\ goals' = [goals EXCEPT ![doing[a].goal] = "EXECUTED"]
  /\ Closes(doing[a].zero,
            IF NextAction(experiment') = "EXTERNAL_ACTION_REQUIRED" THEN "ATTENTION" ELSE "COMPLETE")
  /\ UNCHANGED <<week, candidate>>

(* continue_autonomously and continue_zero_touch: only the next action.         *)
Continue(a) ==
  /\ Asks(a)
  /\ \E zero \in BOOLEAN :
       CASE NextAction(experiment) = "RUN_WEEK1_DAY" -> BeginsWeek1Day(a, Week1NextDay, zero)
         [] NextAction(experiment) = "RUN_TRUSTED_EXPERIMENT" ->
              /\ Does(a, [Free EXCEPT !.op = "ready", !.zero = zero]) /\ UNCHANGED records
         [] NextAction(experiment) = "COMPLETE_VERIFIED_WORK" ->
              /\ candidate' \in IF candidate = "ready" THEN {"done", "stuck"} ELSE {"stuck"}
              /\ Closes(zero, IF candidate' = "done" THEN "COMPLETE" ELSE "ATTENTION")
              /\ UNCHANGED <<week, experiment, goals, doing>>
         [] OTHER -> /\ Closes(zero, "ATTENTION")
                     /\ UNCHANGED <<week, experiment, goals, candidate, doing>>

(* A request for a task whose run passed its checks.                            *)
WorkVerified ==
  /\ asked < MaxSteps /\ asked' = asked + 1
  /\ candidate = "none" /\ candidate' = "ready"
  /\ UNCHANGED <<week1Enabled, week, experiment, goals, zeroTouch, doing, reboots>>

(* A restart: the records stay, the runbook is looked for again.                *)
Restart ==
  /\ reboots < MaxReboots /\ reboots' = reboots + 1
  /\ week1Enabled' \in BOOLEAN
  /\ doing' = [a \in Actor |-> Free]
  /\ UNCHANGED <<records, asked>>

Next ==
  \/ \E a \in Actor :
       \/ RunWeek1Day(a) \/ RunsProgram(a) \/ Day4Experiment(a) \/ RecordsDay(a)
       \/ RunExperiment(a) \/ Experiment(a)
       \/ ProposeGoal(a) \/ ExecuteGoal(a) \/ StartZeroTouch(a) \/ Readiness(a) \/ GoalExperiment(a)
       \/ Continue(a)
  \/ WorkVerified \/ Restart

Spec == Init /\ [][Next]_continuationVars
-----------------------------------------------------------------------------
TypeOK ==
  /\ week1Enabled \in BOOLEAN /\ asked \in 0..MaxSteps /\ reboots \in 0..MaxReboots
  /\ week \in Seq([day : Day, status : Attention \cup {"COMPLETE"}, seen : 0..MaxSteps])
  /\ experiment \in Outcome \cup {"none"}
  /\ goals \in [Goal -> {"absent", "PROPOSED", "REJECTED", "EXECUTED"}]
  /\ zeroTouch \in {"none", "COMPLETE", "ATTENTION"} /\ candidate \in {"none", "ready", "stuck", "done"}
  /\ doing \in [Actor -> [op : {"free", "program", "day4", "record", "experiment", "goal", "ready"},
                          zero : BOOLEAN, goal : Goal \cup {"none"},
                          entry : [day : Day \cup {0}, status : Attention \cup {"COMPLETE", "none"},
                                   seen : 0..MaxSteps]]]

(* Day 7 asks for the decision of the next phase only when a Day was run again: *)
(* Day 5 cannot complete, and what is counted are records, so the threshold of  *)
(* three is reached by repetition alone.                                        *)
DecisionNeedsRepeat ==
  \A i \in 1..Len(week) :
    week[i].status = "HUMAN_DECISION_REQUIRED" =>
      \E j, k \in Completed : j < k /\ k < i /\ week[j].day = week[k].day

(* Once Week 1 asks for a person every further Day is refused: only a request   *)
(* that was checked before that record still adds one of its own.               *)
AttentionIsFinal ==
  \A i, j \in 1..Len(week) :
    i < j /\ week[i].status \in Attention => week[j].seen < i
=============================================================================
