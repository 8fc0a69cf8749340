------------------------------ MODULE PlanRunner ------------------------------
(* The scheduler of configured Day plans: DayRunner of                          *)
(* backend/orchestrator/day_runner.py.  An architect chooses the next task of   *)
(* the plan, the guarded task engine executes it, an evaluator may send it back *)
(* for repair.                                                                  *)
(*                                                                              *)
(* A loop is one start or resume request, on a thread of its own; a step goes   *)
(* from one external call (architect, engine, evaluator) to the next, and acts  *)
(* on the snapshot as it then is.  Nothing stops a loop that is inside a call:  *)
(* the state is looked at again only at the head of the loop, so after a stop a *)
(* second loop may run beside the first, and after a start the first still      *)
(* holds a task of the old queue.                                               *)
EXTENDS FiniteSets, Naturals

CONSTANTS
  Driver,          \* threads that run the loop
  PlanTask,        \* the tasks of the plan
  MaxTasks, MaxArchitect, MaxCodex, MaxEvaluator, MaxRepairs, MaxFailed, MaxRetries, MaxReplans,
                   \* the limits of the plan
  MaxLoops,        \* bound: starts and resumes
  MaxInterrupts    \* bound: restarts

PlanAssumption ==
  /\ IsFiniteSet(Driver) /\ IsFiniteSet(PlanTask) /\ PlanTask # {}
  /\ {MaxTasks, MaxArchitect, MaxCodex, MaxEvaluator, MaxRepairs, MaxFailed, MaxRetries,
      MaxReplans, MaxLoops, MaxInterrupts} \subseteq Nat

VARIABLES
  plan,            \* the snapshot: state, mode, queue, repair loops, counters
  keptPlan,        \* the snapshot as it was last saved
  loop,            \* where each loop is; epoch tells whose queue its task is of
  epoch,           \* how many plans were started
  used,            \* Codex calls really made for the plan
  loops, interrupts,
  blind            \* did a call go uncounted or unseen: two loops at once, a
                   \* restart or an exception during a task?

planVars == <<plan, keptPlan, loop, epoch, used, loops, interrupts, blind>>

Success == {"PASS", "COMPLETE_NO_CHANGE", "SKIPPED"}
Eligible == {"PENDING", "REPAIR_PENDING"}
Away == [at |-> "away", task |-> "none", epoch |-> 0, calls |-> 0]

Fresh(state, mode) ==
  [state |-> state, mode |-> mode, queue |-> [t \in PlanTask |-> "PENDING"],
   repairs |-> [t \in PlanTask |-> 0], architect |-> 0, codex |-> 0, evaluator |-> 0,
   failed |-> 0, processed |-> 0, retries |-> 0, replans |-> 0]

Init ==
  /\ plan = Fresh("IDLE", "single") /\ keptPlan = plan
  /\ loop = [d \in Driver |-> Away]
  /\ epoch = 0 /\ used = 0 /\ loops = 0 /\ interrupts = 0 /\ blind = FALSE

(* A task of the queue a loop took it from; the queue may be another by now.    *)
Own(d) == loop[d].epoch = epoch
SetTask(p, d, state) == IF Own(d) THEN [p EXCEPT !.queue[loop[d].task] = state] ELSE p

AllSuccessful(p) == \A t \in PlanTask : p.queue[t] \in Success

Stopped(p) == [p EXCEPT !.state = "STOPPED"]
Review(p) == [p EXCEPT !.state = "HUMAN_REVIEW"]
ReviewTask(p, t) == [Review(p) EXCEPT !.queue[t] = "HUMAN_REVIEW"]

(* _after_task.                                                                 *)
AfterTask(p) ==
  IF p.failed > MaxFailed THEN Stopped(p)
  ELSE IF AllSuccessful(p) THEN [p EXCEPT !.state = "COMPLETE"]
  ELSE p

Processed(p) == AfterTask([p EXCEPT !.processed = @ + 1])

Replanned(p) ==
  IF p.replans < MaxReplans THEN [p EXCEPT !.replans = @ + 1] ELSE Review(p)

(* The end of _process_one: a single step pauses, and the snapshot is saved.    *)
EndsTurn(d, p) ==
  /\ plan' = IF p.mode = "single" /\ p.state = "RUNNING"
             THEN [p EXCEPT !.state = IF AllSuccessful(p) THEN "COMPLETE" ELSE "PAUSED"]
             ELSE p
  /\ keptPlan' = plan'
  /\ loop' = [loop EXCEPT ![d] = IF p.mode = "single" THEN Away ELSE [Away EXCEPT !.at = "turn"]]

counts == <<epoch, loops, interrupts>>
-----------------------------------------------------------------------------
Overlaps(d) == \E e \in Driver \ {d} : loop[e].at # "away"

(* start: refused while a Day is RUNNING, PAUSED or in HUMAN_REVIEW.            *)
Start(d) ==
  /\ loop[d].at = "away" /\ loops < MaxLoops
  /\ plan.state \notin {"RUNNING", "PAUSED", "HUMAN_REVIEW"}
  /\ \E mode \in {"single", "continuous"} : plan' = Fresh("RUNNING", mode)
  /\ keptPlan' = plan' /\ epoch' = epoch + 1 /\ loops' = loops + 1
  /\ used' = 0 /\ blind' = Overlaps(d)
  /\ loop' = [loop EXCEPT ![d] = [Away EXCEPT !.at = "turn"]]
  /\ UNCHANGED interrupts

Resume(d) ==
  /\ loop[d].at = "away" /\ loops < MaxLoops /\ loops' = loops + 1
  /\ plan.state \in {"PAUSED", "STOPPED"}
  /\ \E mode \in {"single", "continuous"} :
       plan' = [plan EXCEPT !.state = "RUNNING", !.mode = mode, !.processed = 0]
  /\ keptPlan' = plan' /\ blind' = (blind \/ Overlaps(d))
  /\ loop' = [loop EXCEPT ![d] = [Away EXCEPT !.at = "turn"]]
  /\ UNCHANGED <<epoch, used, interrupts>>

Stop ==
  /\ plan.state \in {"RUNNING", "PAUSED"}
  /\ plan' = Stopped(plan) /\ keptPlan' = plan'
  /\ UNCHANGED <<loop, used, blind, counts>>

(* The head of the loop and _process_one up to the architect's call, which is   *)
(* counted but not saved yet.  A provider's budget stops the Day, and the model *)
(* router may ask for a person.                                                 *)
Turn(d) ==
  /\ loop[d].at = "turn" /\ UNCHANGED <<used, blind, counts>>
  /\ IF plan.state # "RUNNING"
     THEN loop' = [loop EXCEPT ![d] = Away] /\ UNCHANGED <<plan, keptPlan>>
     ELSE IF plan.processed >= MaxTasks \/ plan.architect >= MaxArchitect
     THEN EndsTurn(d, Stopped(plan))
     ELSE \/ EndsTurn(d, Stopped(plan)) \/ EndsTurn(d, Review(plan))
          \/ /\ plan' = [plan EXCEPT !.architect = @ + 1] /\ keptPlan' = plan
             /\ loop' = [loop EXCEPT ![d].at = "architect"]

(* Mutant: the engine may use the limit of the plan, not what remains of it.    *)
WholeLimit(p) == MaxCodex

Remaining(p) == IF p.codex < MaxCodex THEN MaxCodex - p.codex ELSE 0

(* _execute_one up to the engine's call.                                        *)
Executes(d, p, t) ==
  IF Remaining(p) = 0 THEN EndsTurn(d, Stopped(p))
  ELSE /\ plan' = [p EXCEPT !.queue[t] = "RUNNING"] /\ keptPlan' = plan'
       /\ loop' = [loop EXCEPT ![d] = [at |-> "execute", task |-> t, epoch |-> epoch, calls |-> Remaining(p)]]

(* What the architect answers; the state is not looked at again before its      *)
(* task is executed.                                                            *)
ArchitectFails(d) ==
  /\ loop[d].at = "architect" /\ UNCHANGED <<used, blind, counts>>
  /\ \/ plan.retries < MaxRetries /\ EndsTurn(d, [plan EXCEPT !.retries = @ + 1])
     \/ EndsTurn(d, Review(plan))

ArchitectEnds(d) ==
  /\ loop[d].at = "architect" /\ UNCHANGED <<used, blind, counts>>
  /\ \/ EndsTurn(d, Stopped(plan))
     \/ EndsTurn(d, IF AllSuccessful(plan) THEN [plan EXCEPT !.state = "COMPLETE"] ELSE Replanned(plan))

ArchitectChooses(d) ==
  /\ loop[d].at = "architect" /\ UNCHANGED <<used, blind, counts>>
  /\ \E t \in PlanTask :
       IF plan.queue[t] \notin Eligible THEN EndsTurn(d, Replanned(plan))
       ELSE \/ EndsTurn(d, ReviewTask(plan, t))
            \/ EndsTurn(d, Processed([plan EXCEPT !.queue[t] = "SKIPPED"]))
            \/ Executes(d, plan, t)

(* The engine returns: its Codex calls are counted, and the evaluator is asked  *)
(* about a completed task that needs one.  When the evaluator's limit, budget   *)
(* or profile refuses that, the task stays RUNNING.                             *)
TaskReturns(d) ==
  /\ loop[d].at = "execute" /\ UNCHANGED <<blind, counts>>
  /\ \E n \in 0..loop[d].calls :
       LET p == [plan EXCEPT !.codex = @ + n]
       IN  /\ used' = used + n
           /\ \/ \E state \in {"COMPLETE_NO_CHANGE", "PASS"} : EndsTurn(d, Processed(SetTask(p, d, state)))
              \/ EndsTurn(d, Processed(SetTask([p EXCEPT !.failed = @ + 1], d, "FAILED")))
              \/ EndsTurn(d, ReviewTask(p, loop[d].task))
              \/ IF p.evaluator >= MaxEvaluator THEN EndsTurn(d, Stopped(p))
                 ELSE \/ EndsTurn(d, Stopped(p)) \/ EndsTurn(d, Review(p))
                      \/ /\ plan' = [p EXCEPT !.evaluator = @ + 1] /\ UNCHANGED keptPlan
                         /\ loop' = [loop EXCEPT ![d].at = "evaluate"]

EvaluatorAnswers(d) ==
  /\ loop[d].at = "evaluate" /\ UNCHANGED <<used, blind, counts>>
  /\ LET t == loop[d].task
     IN  \/ EndsTurn(d, Processed(SetTask(plan, d, "PASS")))
         \/ EndsTurn(d, ReviewTask(plan, t))
         \/ /\ Own(d) /\ plan.repairs[t] < MaxRepairs
            /\ Executes(d, [plan EXCEPT !.repairs[t] = @ + 1, !.queue[t] = "REPAIR_PENDING"], t)

(* The engine raises: the loop is gone, the Day stays as it is.                 *)
Raises(d) ==
  /\ loop[d].at = "execute"
  /\ \E n \in 0..loop[d].calls : used' = used + n
  /\ loop' = [loop EXCEPT ![d] = Away] /\ blind' = TRUE
  /\ UNCHANGED <<plan, keptPlan, counts>>

(* A restart: a RUNNING Day is PAUSED, with its tasks as they were saved.       *)
Restart ==
  /\ interrupts < MaxInterrupts /\ interrupts' = interrupts + 1
  /\ plan' = IF keptPlan.state = "RUNNING" THEN [keptPlan EXCEPT !.state = "PAUSED"] ELSE keptPlan
  /\ keptPlan' = plan'
  /\ blind' = (blind \/ \E d \in Driver : loop[d].at \in {"execute", "evaluate"})
  /\ loop' = [d \in Driver |-> Away]
  /\ UNCHANGED <<epoch, used, loops>>

Next ==
  \/ \E d \in Driver :
       \/ Start(d) \/ Resume(d) \/ Turn(d) \/ ArchitectFails(d) \/ ArchitectEnds(d)
       \/ ArchitectChooses(d) \/ TaskReturns(d) \/ EvaluatorAnswers(d) \/ Raises(d)
  \/ Stop \/ Restart

Spec == Init /\ [][Next]_planVars
-----------------------------------------------------------------------------
PlanState == {"IDLE", "RUNNING", "PAUSED", "STOPPED", "COMPLETE", "HUMAN_REVIEW"}
TaskState == Success \cup Eligible \cup {"RUNNING", "FAILED", "HUMAN_REVIEW"}

Snapshots ==
  [state : PlanState, mode : {"single", "continuous"}, queue : [PlanTask -> TaskState],
   repairs : [PlanTask -> 0..MaxRepairs], architect : 0..MaxArchitect, codex : Nat,
   evaluator : 0..MaxEvaluator, failed : Nat, processed : Nat, retries : 0..MaxRetries,
   replans : 0..MaxReplans]

TypeOK ==
  /\ plan \in Snapshots /\ keptPlan \in Snapshots
  /\ loop \in [Driver -> [at : {"away", "turn", "architect", "execute", "evaluate"},
       task : PlanTask \cup {"none"}, epoch : 0..MaxLoops, calls : 0..MaxCodex]]
  /\ epoch \in 0..MaxLoops /\ used \in Nat /\ loops \in 0..MaxLoops
  /\ interrupts \in 0..MaxInterrupts /\ blind \in BOOLEAN

(* The Codex calls really made for a plan stay within its limit over all its    *)
(* tasks, repairs, stops, resumes and restarts, as long as no two loops ran at  *)
(* once and no task was cut off by a restart or an exception.                   *)
CodexLimitKept == blind \/ used <= MaxCodex
=============================================================================
