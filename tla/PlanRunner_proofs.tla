-------------------------- MODULE PlanRunner_proofs --------------------------
(* Proofs about PlanRunner, for every plan, every limit and any number of       *)
(* loops: its types, and the limit of Codex calls.                              *)
EXTENDS Reviewer_proofs

LEMMA Limits ==
  ASSUME Plan!PlanAssumption
  PROVE  /\ MaxTasks \in Nat /\ MaxArchitect \in Nat /\ MaxCodex \in Nat /\ MaxEvaluator \in Nat
         /\ MaxRepairs \in Nat /\ MaxRetries \in Nat /\ MaxReplans \in Nat /\ MaxLoops \in Nat
         /\ MaxInterrupts \in Nat
  BY DEF Plan!PlanAssumption
-----------------------------------------------------------------------------
(* What the helpers of a turn make of a snapshot: another one, with the same    *)
(* count of Codex calls.                                                        *)
Counts(p, n) == p \in Plan!Snapshots /\ p.codex = n

LEMMA StateCounts ==
  ASSUME NEW n, NEW p, Counts(p, n), NEW s \in Plan!PlanState
  PROVE  Counts([p EXCEPT !.state = s], n)
  BY DEF Counts, Plan!Snapshots

LEMMA QueueCounts ==
  ASSUME NEW n, NEW p, Counts(p, n), NEW t, NEW s \in Plan!TaskState
  PROVE  Counts([p EXCEPT !.queue[t] = s], n)
<1>1. [p.queue EXCEPT ![t] = s] \in [PlanTask -> Plan!TaskState]
  BY DEF Counts, Plan!Snapshots
<1>2. [p EXCEPT !.queue[t] = s] = [p EXCEPT !.queue = [p.queue EXCEPT ![t] = s]]
  BY DEF Counts, Plan!Snapshots
<1> QED  BY <1>1, <1>2 DEF Counts, Plan!Snapshots

LEMMA Ended ==
  ASSUME NEW n, NEW p, Counts(p, n)
  PROVE  /\ Counts(Plan!Stopped(p), n) /\ Counts(Plan!Review(p), n)
         /\ \A t : Counts(Plan!ReviewTask(p, t), n)
<1>1. Counts(Plan!Stopped(p), n) /\ Counts(Plan!Review(p), n)
  BY StateCounts DEF Plan!Stopped, Plan!Review, Plan!PlanState
<1>2. \A t : Counts(Plan!ReviewTask(p, t), n)
  BY <1>1, QueueCounts DEF Plan!ReviewTask, Plan!TaskState
<1> QED  BY <1>1, <1>2

LEMMA AfterCounts ==
  ASSUME NEW n, NEW p, Counts(p, n)
  PROVE  Counts(Plan!Processed(p), n)
<1> DEFINE q == [p EXCEPT !.processed = @ + 1]
<1>1. Counts(q, n)
  BY DEF Counts, Plan!Snapshots
<1> HIDE DEF q
<1>2. Counts(Plan!Stopped(q), n)
  BY <1>1, Ended
<1>3. Counts([q EXCEPT !.state = "COMPLETE"], n)
  BY <1>1, StateCounts DEF Plan!PlanState
<1>4. Counts(Plan!AfterTask(q), n)
  BY <1>1, <1>2, <1>3 DEF Plan!AfterTask
<1> QED  BY <1>4 DEF Plan!Processed, q

LEMMA ReplannedCounts ==
  ASSUME Plan!PlanAssumption, NEW n, NEW p, Counts(p, n)
  PROVE  Counts(Plan!Replanned(p), n)
<1>1. ASSUME p.replans < MaxReplans PROVE Counts([p EXCEPT !.replans = @ + 1], n)
  BY <1>1, Limits DEF Counts, Plan!Snapshots
<1>2. Counts(Plan!Review(p), n)
  BY Ended
<1> QED  BY <1>1, <1>2 DEF Plan!Replanned

LEMMA SetCounts ==
  ASSUME NEW n, NEW p, Counts(p, n), NEW d, NEW s \in Plan!TaskState
  PROVE  Counts(Plan!SetTask(p, d, s), n)
  BY QueueCounts DEF Plan!SetTask

LEMMA FreshCounts ==
  ASSUME Plan!PlanAssumption, NEW s \in Plan!PlanState, NEW m \in {"single", "continuous"}
  PROVE  Counts(Plan!Fresh(s, m), 0)
<1>1. [t \in PlanTask |-> "PENDING"] \in [PlanTask -> Plan!TaskState]
  BY DEF Plan!TaskState, Plan!Eligible
<1>2. [t \in PlanTask |-> 0] \in [PlanTask -> 0..MaxRepairs]
  BY Limits
<1>3. 0 \in 0..MaxArchitect /\ 0 \in 0..MaxEvaluator /\ 0 \in 0..MaxRetries /\ 0 \in 0..MaxReplans
  BY Limits
<1> QED  BY <1>1, <1>2, <1>3 DEF Counts, Plan!Fresh, Plan!Snapshots
-----------------------------------------------------------------------------
Places == {"away", "turn", "architect", "execute", "evaluate"}

(* A loop inside the engine's or the evaluator's call has a task of the plan.   *)
Loops ==
  {l \in [at : Places, task : PlanTask \cup {"none"}, epoch : 0..MaxLoops, calls : 0..MaxCodex] :
     l.at \in {"execute", "evaluate"} => l.task \in PlanTask}

LEMMA AwayIsALoop ==
  ASSUME Plan!PlanAssumption
  PROVE  /\ Plan!Away \in Loops /\ Plan!Away.at = "away"
         /\ [Plan!Away EXCEPT !.at = "turn"] \in Loops /\ [Plan!Away EXCEPT !.at = "turn"].at = "turn"
<1>1. 0 \in 0..MaxLoops /\ 0 \in 0..MaxCodex
  BY Limits
<1> QED  BY <1>1 DEF Plan!Away, Loops, Places

(* The end of a turn: the snapshot is saved, the loop is at its head or gone.   *)
LEMMA TurnEnds ==
  ASSUME Plan!PlanAssumption, NEW n, NEW p, Counts(p, n), NEW d \in Driver,
         Plan!EndsTurn(d, p)
  PROVE  /\ Counts(plan', n) /\ keptPlan' = plan'
         /\ \E l \in Loops : l.at \in {"away", "turn"} /\ loop' = [loop EXCEPT ![d] = l]
<1>1. Counts([p EXCEPT !.state = "COMPLETE"], n) /\ Counts([p EXCEPT !.state = "PAUSED"], n)
  BY StateCounts DEF Plan!PlanState
<1>2. Counts(plan', n) /\ keptPlan' = plan'
  BY <1>1 DEF Plan!EndsTurn
<1>3. loop' = [loop EXCEPT ![d] = Plan!Away] \/ loop' = [loop EXCEPT ![d] = [Plan!Away EXCEPT !.at = "turn"]]
  BY DEF Plan!EndsTurn
<1> QED  BY <1>2, <1>3, AwayIsALoop
-----------------------------------------------------------------------------
(* As long as every call was seen there is at most one loop; what it may still  *)
(* use keeps the count within the limit; and what is saved has the count too,   *)
(* except while the evaluator is asked about the task that used it.             *)
Seen ==
  /\ \A d, e \in Driver : loop[d].at # "away" /\ loop[e].at # "away" => d = e
  /\ used = plan.codex /\ used <= MaxCodex
  /\ \A d \in Driver : loop[d].at = "execute" => plan.codex + loop[d].calls <= MaxCodex
  /\ keptPlan.codex = plan.codex \/ \E d \in Driver : loop[d].at = "evaluate"

Typed ==
  /\ plan \in Plan!Snapshots /\ keptPlan \in Plan!Snapshots /\ loop \in [Driver -> Loops]
  /\ epoch \in Nat /\ loops \in 0..MaxLoops /\ epoch <= loops
  /\ used \in Nat /\ interrupts \in 0..MaxInterrupts /\ blind \in {TRUE, FALSE}

PlanInv == Typed /\ (blind = TRUE \/ Seen)

LEMMA PlanBegins ==
  ASSUME Plan!PlanAssumption, Plan!Init
  PROVE  PlanInv
<1>1. Counts(plan, 0)
  BY FreshCounts DEF Plan!Init, Plan!PlanState
<1>2. loop = [d \in Driver |-> Plan!Away] /\ \A d \in Driver : loop[d].at = "away"
  BY AwayIsALoop DEF Plan!Init
<1>3. Typed
  <2>1. loop \in [Driver -> Loops]
    BY <1>2, AwayIsALoop
  <2>2. 0 \in 0..MaxLoops /\ 0 \in 0..MaxInterrupts
    BY Limits
  <2>3. blind \in {TRUE, FALSE}
    BY DEF Plan!Init
  <2>4. plan \in Plan!Snapshots /\ keptPlan \in Plan!Snapshots
    BY <1>1 DEF Plan!Init, Counts
  <2>5. epoch \in Nat /\ loops \in 0..MaxLoops /\ epoch <= loops /\ used \in Nat
        /\ interrupts \in 0..MaxInterrupts
    BY <2>2 DEF Plan!Init
  <2> QED  BY <2>1, <2>3, <2>4, <2>5 DEF Typed
<1>4. Seen
  BY <1>1, <1>2, Limits DEF Plan!Init, Seen, Counts
<1> QED  BY <1>3, <1>4 DEF PlanInv

(* What the loop that has the task did, it counted.                             *)
LEMMA OneLoopMoves ==
  ASSUME Plan!PlanAssumption, PlanInv, NEW d \in Driver, loop[d].at # "away",
         NEW l \in Loops, loop' = [loop EXCEPT ![d] = l],
         NEW n \in Nat, n = 0 \/ (loop[d].at = "execute" /\ n <= loop[d].calls),
         Counts(plan', plan.codex + n), used' = used + n, keptPlan' \in Plan!Snapshots,
         l.at = "execute" => plan.codex + n + l.calls <= MaxCodex,
         Seen => keptPlan'.codex = plan'.codex \/ l.at = "evaluate",
         UNCHANGED <<blind, epoch, loops, interrupts>>
  PROVE  PlanInv'
<1>1. Typed'
  <2>1. loop' \in [Driver -> Loops]
    BY DEF PlanInv, Typed
  <2>2. plan' \in Plan!Snapshots /\ used' \in Nat
    BY DEF PlanInv, Typed, Counts
  <2>3. blind' \in {TRUE, FALSE}
    BY DEF PlanInv, Typed
  <2> QED  BY <2>1, <2>2, <2>3 DEF PlanInv, Typed
<1>2. loop'[d] = l /\ \A e \in Driver \ {d} : loop'[e] = loop[e]
  BY DEF PlanInv, Typed
<1>3. ASSUME Seen PROVE Seen'
  <2>1. \A e \in Driver \ {d} : loop'[e].at = "away"
    BY <1>2, <1>3 DEF Seen
  <2>2. plan.codex \in Nat /\ used \in Nat /\ MaxCodex \in Nat /\ plan'.codex = plan.codex + n
    BY Limits DEF PlanInv, Typed, Plan!Snapshots, Counts
  <2>3. \A e \in Driver : loop[e].calls \in Nat /\ l.calls \in Nat
    <3> TAKE e \in Driver
    <3>1. loop[e].calls \in 0..MaxCodex /\ l.calls \in 0..MaxCodex
      BY DEF PlanInv, Typed, Loops
    <3> QED  BY <3>1, <2>2
  <2>4. \A e, f \in Driver : loop'[e].at # "away" /\ loop'[f].at # "away" => e = f
    BY <2>1
  <2>5. used' = plan'.codex /\ used' <= MaxCodex
    <3>1. n = 0 \/ plan.codex + n <= MaxCodex
      BY <1>3, <2>2, <2>3 DEF Seen
    <3> QED  BY <1>3, <2>2, <3>1 DEF Seen
  <2>6. \A e \in Driver : loop'[e].at = "execute" => plan'.codex + loop'[e].calls <= MaxCodex
    BY <1>2, <2>1, <2>2
  <2>7. keptPlan'.codex = plan'.codex \/ \E e \in Driver : loop'[e].at = "evaluate"
    BY <1>2, <1>3
  <2> QED  BY <2>4, <2>5, <2>6, <2>7 DEF Seen
<1> QED  BY <1>1, <1>3 DEF PlanInv

(* The end of a turn in which the engine used n calls.                          *)
LEMMA OneTurnEnds ==
  ASSUME Plan!PlanAssumption, PlanInv, NEW d \in Driver, loop[d].at # "away",
         NEW n \in Nat, n = 0 \/ (loop[d].at = "execute" /\ n <= loop[d].calls),
         NEW p, Counts(p, plan.codex + n), used' = used + n, Plan!EndsTurn(d, p),
         UNCHANGED <<blind, epoch, loops, interrupts>>
  PROVE  PlanInv'
<1>1. PICK l \in Loops : l.at \in {"away", "turn"} /\ loop' = [loop EXCEPT ![d] = l]
  BY TurnEnds
<1>2. Counts(plan', plan.codex + n) /\ keptPlan' = plan'
  BY TurnEnds
<1>3. keptPlan' \in Plan!Snapshots /\ keptPlan'.codex = plan'.codex
  BY <1>2 DEF Counts
<1> QED  BY <1>1, <1>2, <1>3, OneLoopMoves

(* The same for a turn in which it used none.                                   *)
LEMMA OneTurnEndsFree ==
  ASSUME Plan!PlanAssumption, PlanInv, NEW d \in Driver, loop[d].at # "away",
         NEW p, Counts(p, plan.codex), Plan!EndsTurn(d, p),
         UNCHANGED <<used, blind, epoch, loops, interrupts>>
  PROVE  PlanInv'
<1>1. plan.codex + 0 = plan.codex /\ used' = used + 0
  BY DEF PlanInv, Typed, Plan!Snapshots
<1> QED  BY <1>1, OneTurnEnds

LEMMA PlanIsCounted ==
  ASSUME PlanInv
  PROVE  Counts(plan, plan.codex) /\ plan.codex \in Nat
  BY DEF PlanInv, Typed, Counts, Plan!Snapshots

LEMMA Executing ==
  ASSUME Plan!PlanAssumption, PlanInv, NEW d \in Driver, loop[d].at # "away", NEW t \in PlanTask,
         NEW p, Counts(p, plan.codex), Plan!Executes(d, p, t),
         UNCHANGED <<used, blind, epoch, loops, interrupts>>
  PROVE  PlanInv'
<1>1. CASE Plan!Remaining(p) = 0
  <2>1. Counts(Plan!Stopped(p), plan.codex) /\ Plan!EndsTurn(d, Plan!Stopped(p))
    BY <1>1, Ended DEF Plan!Executes
  <2> QED  BY <2>1, OneTurnEndsFree
<1>2. CASE Plan!Remaining(p) # 0
  <2> DEFINE l == [at |-> "execute", task |-> t, epoch |-> epoch, calls |-> Plan!Remaining(p)]
  <2>1. plan' = [p EXCEPT !.queue[t] = "RUNNING"] /\ keptPlan' = plan' /\ loop' = [loop EXCEPT ![d] = l]
    BY <1>2 DEF Plan!Executes
  <2>2. Counts(plan', plan.codex)
    BY <2>1, QueueCounts DEF Plan!TaskState
  <2>3. p.codex = plan.codex /\ plan.codex \in Nat /\ MaxCodex \in Nat
    BY PlanIsCounted, Limits DEF Counts
  <2>4. Plan!Remaining(p) \in 0..MaxCodex /\ plan.codex + Plan!Remaining(p) <= MaxCodex
    BY <1>2, <2>3 DEF Plan!Remaining
  <2>5. epoch \in 0..MaxLoops
    BY Limits DEF PlanInv, Typed
  <2>6. l \in Loops
    BY <2>4, <2>5 DEF Loops, Places
  <2>7. keptPlan' \in Plan!Snapshots /\ keptPlan'.codex = plan'.codex
    BY <2>1, <2>2 DEF Counts
  <2>8. l.calls = Plan!Remaining(p) /\ plan.codex + 0 = plan.codex /\ used' = used + 0
    BY <2>3 DEF PlanInv, Typed
  <2> HIDE DEF l
  <2> QED  BY <2>1, <2>2, <2>4, <2>6, <2>7, <2>8, OneLoopMoves
<1> QED  BY <1>1, <1>2

LEMMA TurnSteps ==
  ASSUME Plan!PlanAssumption, PlanInv, NEW d \in Driver, Plan!Turn(d)
  PROVE  PlanInv'
<1>1. loop[d].at = "turn" /\ UNCHANGED <<used, blind, epoch, loops, interrupts>>
  BY DEF Plan!Turn, Plan!counts
<1>2. Counts(plan, plan.codex) /\ plan.codex \in Nat /\ used \in Nat
  BY PlanIsCounted DEF PlanInv, Typed
<1>3. Counts(Plan!Stopped(plan), plan.codex) /\ Counts(Plan!Review(plan), plan.codex)
  BY <1>2, Ended
<1>4. plan.codex + 0 = plan.codex /\ used + 0 = used
  BY <1>2
<1>5. CASE plan.state # "RUNNING"
  <2>1. loop' = [loop EXCEPT ![d] = Plan!Away] /\ UNCHANGED <<plan, keptPlan>>
    BY <1>5 DEF Plan!Turn
  <2>2. Seen => keptPlan'.codex = plan'.codex
    BY <1>1, <2>1 DEF Seen
  <2>3. keptPlan' \in Plan!Snapshots /\ Plan!Away \in Loops /\ Plan!Away.at = "away"
    BY <2>1, AwayIsALoop DEF PlanInv, Typed
  <2> QED  BY <1>1, <1>2, <1>4, <2>1, <2>2, <2>3, OneLoopMoves
<1>6. CASE Plan!EndsTurn(d, Plan!Stopped(plan)) \/ Plan!EndsTurn(d, Plan!Review(plan))
  BY <1>1, <1>3, <1>6, OneTurnEndsFree
<1>7. CASE /\ plan.architect < MaxArchitect
           /\ plan' = [plan EXCEPT !.architect = @ + 1] /\ keptPlan' = plan
           /\ loop' = [loop EXCEPT ![d].at = "architect"]
  <2> DEFINE l == [loop[d] EXCEPT !.at = "architect"]
  <2>1. Counts(plan', plan.codex)
    BY <1>7, <1>2, Limits DEF Counts, Plan!Snapshots
  <2>2. keptPlan' \in Plan!Snapshots /\ keptPlan'.codex = plan'.codex
    BY <1>7, <1>2, <2>1 DEF Counts
  <2>3. l \in Loops /\ l.at = "architect"
    BY DEF PlanInv, Typed, Loops, Places
  <2>4. loop' = [loop EXCEPT ![d] = l]
    BY <1>7 DEF PlanInv, Typed
  <2> HIDE DEF l
  <2> QED  BY <1>1, <1>4, <2>1, <2>2, <2>3, <2>4, OneLoopMoves
<1>8. plan.architect >= MaxArchitect \/ plan.architect < MaxArchitect
  BY Limits DEF PlanInv, Typed, Plan!Snapshots
<1> QED  BY <1>5, <1>6, <1>7, <1>8 DEF Plan!Turn

LEMMA ArchitectSteps ==
  ASSUME Plan!PlanAssumption, PlanInv, NEW d \in Driver,
         Plan!ArchitectFails(d) \/ Plan!ArchitectEnds(d) \/ Plan!ArchitectChooses(d)
  PROVE  PlanInv'
<1>1. loop[d].at = "architect" /\ UNCHANGED <<used, blind, epoch, loops, interrupts>>
  BY DEF Plan!ArchitectFails, Plan!ArchitectEnds, Plan!ArchitectChooses, Plan!counts
<1>2. Counts(plan, plan.codex)
  BY PlanIsCounted
<1>3. /\ Counts(Plan!Stopped(plan), plan.codex) /\ Counts(Plan!Review(plan), plan.codex)
      /\ \A t : Counts(Plan!ReviewTask(plan, t), plan.codex)
  BY <1>2, Ended
<1>4. Counts(Plan!Replanned(plan), plan.codex)
  BY <1>2, ReplannedCounts
<1>5. CASE Plan!ArchitectFails(d)
  <2>1. plan.retries < MaxRetries => Counts([plan EXCEPT !.retries = @ + 1], plan.codex)
    BY <1>2, Limits DEF Counts, Plan!Snapshots
  <2> QED  BY <1>1, <1>3, <1>5, <2>1, OneTurnEndsFree DEF Plan!ArchitectFails
<1>6. CASE Plan!ArchitectEnds(d)
  <2>1. Counts([plan EXCEPT !.state = "COMPLETE"], plan.codex)
    BY <1>2, StateCounts DEF Plan!PlanState
  <2>2. PICK p : Counts(p, plan.codex) /\ Plan!EndsTurn(d, p)
    <3>1. CASE Plan!EndsTurn(d, Plan!Stopped(plan))
      BY <3>1, <1>3
    <3>2. CASE Plan!AllSuccessful(plan) /\ Plan!EndsTurn(d, [plan EXCEPT !.state = "COMPLETE"])
      BY <3>2, <2>1
    <3>3. CASE Plan!EndsTurn(d, Plan!Replanned(plan))
      BY <3>3, <1>4
    <3> QED  BY <1>6, <3>1, <3>2, <3>3, Zenon DEF Plan!ArchitectEnds
  <2> QED  BY <1>1, <2>2, OneTurnEndsFree
<1>7. CASE Plan!ArchitectChooses(d)
  <2>1. PICK t \in PlanTask :
          \/ Plan!EndsTurn(d, Plan!Replanned(plan)) \/ Plan!EndsTurn(d, Plan!ReviewTask(plan, t))
          \/ Plan!EndsTurn(d, Plan!Processed([plan EXCEPT !.queue[t] = "SKIPPED"])) \/ Plan!Executes(d, plan, t)
    BY <1>7 DEF Plan!ArchitectChooses
  <2>2. Counts([plan EXCEPT !.queue[t] = "SKIPPED"], plan.codex)
    BY <1>2, QueueCounts DEF Plan!TaskState, Plan!Success
  <2>3. Counts(Plan!Processed([plan EXCEPT !.queue[t] = "SKIPPED"]), plan.codex)
    BY <2>2, AfterCounts
  <2>4. CASE Plan!Executes(d, plan, t)
    BY <1>1, <1>2, <2>4, Executing
  <2> QED  BY <1>1, <1>3, <1>4, <2>1, <2>3, <2>4, OneTurnEndsFree
<1> QED  BY <1>5, <1>6, <1>7

LEMMA TaskReturnsSteps ==
  ASSUME Plan!PlanAssumption, PlanInv, NEW d \in Driver, Plan!TaskReturns(d)
  PROVE  PlanInv'
<1>1. loop[d].at = "execute" /\ UNCHANGED <<blind, epoch, loops, interrupts>>
  BY DEF Plan!TaskReturns, Plan!counts
<1>2. loop[d] \in Loops /\ loop[d].calls \in 0..MaxCodex
  BY DEF PlanInv, Typed, Loops
<1>3. PICK n \in 0..loop[d].calls :
        LET p == [plan EXCEPT !.codex = @ + n]
        IN  /\ used' = used + n
            /\ \/ \E state \in {"COMPLETE_NO_CHANGE", "PASS"} : Plan!EndsTurn(d, Plan!Processed(Plan!SetTask(p, d, state)))
               \/ Plan!EndsTurn(d, Plan!Processed(Plan!SetTask([p EXCEPT !.failed = @ + 1], d, "FAILED")))
               \/ Plan!EndsTurn(d, Plan!ReviewTask(p, loop[d].task))
               \/ IF p.evaluator >= MaxEvaluator THEN Plan!EndsTurn(d, Plan!Stopped(p))
                  ELSE \/ Plan!EndsTurn(d, Plan!Stopped(p)) \/ Plan!EndsTurn(d, Plan!Review(p))
                       \/ /\ plan' = [p EXCEPT !.evaluator = @ + 1] /\ UNCHANGED keptPlan
                          /\ loop' = [loop EXCEPT ![d].at = "evaluate"]
  BY <1>1 DEF Plan!TaskReturns
<1> DEFINE p == [plan EXCEPT !.codex = @ + n]
           m == plan.codex + n
<1>4. n \in Nat /\ n <= loop[d].calls /\ used' = used + n
  BY <1>2, <1>3, Limits
<1>5. Counts(p, m)
  BY <1>4, PlanIsCounted DEF Counts, Plan!Snapshots
<1>6. \/ \E state \in {"COMPLETE_NO_CHANGE", "PASS"} : Plan!EndsTurn(d, Plan!Processed(Plan!SetTask(p, d, state)))
      \/ Plan!EndsTurn(d, Plan!Processed(Plan!SetTask([p EXCEPT !.failed = @ + 1], d, "FAILED")))
      \/ Plan!EndsTurn(d, Plan!ReviewTask(p, loop[d].task))
      \/ Plan!EndsTurn(d, Plan!Stopped(p)) \/ Plan!EndsTurn(d, Plan!Review(p))
      \/ /\ ~(p.evaluator >= MaxEvaluator)
         /\ plan' = [p EXCEPT !.evaluator = @ + 1] /\ UNCHANGED keptPlan
         /\ loop' = [loop EXCEPT ![d].at = "evaluate"]
  BY <1>3, Zenon
<1> HIDE DEF p
<1>7. ASSUME NEW q, Counts(q, m), Plan!EndsTurn(d, q) PROVE PlanInv'
  BY <1>1, <1>4, <1>7, OneTurnEnds
<1>8. ASSUME NEW state \in {"COMPLETE_NO_CHANGE", "PASS"}, Plan!EndsTurn(d, Plan!Processed(Plan!SetTask(p, d, state)))
      PROVE  PlanInv'
  <2>1. Counts(Plan!SetTask(p, d, state), m)
    BY <1>5, SetCounts DEF Plan!TaskState, Plan!Success
  <2>2. Counts(Plan!Processed(Plan!SetTask(p, d, state)), m)
    BY <2>1, AfterCounts
  <2> QED  BY <1>7, <1>8, <2>2
<1>9. ASSUME Plan!EndsTurn(d, Plan!Processed(Plan!SetTask([p EXCEPT !.failed = @ + 1], d, "FAILED"))) PROVE PlanInv'
  <2>1. Counts([p EXCEPT !.failed = @ + 1], m)
    BY <1>5 DEF Counts, Plan!Snapshots
  <2>2. Counts(Plan!SetTask([p EXCEPT !.failed = @ + 1], d, "FAILED"), m)
    BY <2>1, SetCounts DEF Plan!TaskState
  <2>3. Counts(Plan!Processed(Plan!SetTask([p EXCEPT !.failed = @ + 1], d, "FAILED")), m)
    BY <2>2, AfterCounts
  <2> QED  BY <1>7, <1>9, <2>3
<1>10. Counts(Plan!ReviewTask(p, loop[d].task), m) /\ Counts(Plan!Stopped(p), m) /\ Counts(Plan!Review(p), m)
  BY <1>5, Ended
<1>11. ASSUME ~(p.evaluator >= MaxEvaluator), plan' = [p EXCEPT !.evaluator = @ + 1],
              UNCHANGED keptPlan, loop' = [loop EXCEPT ![d].at = "evaluate"]
       PROVE  PlanInv'
  <2> DEFINE l == [loop[d] EXCEPT !.at = "evaluate"]
  <2>1. Counts(plan', m)
    BY <1>5, <1>11, Limits DEF Counts, Plan!Snapshots
  <2>2. keptPlan' \in Plan!Snapshots
    BY <1>11 DEF PlanInv, Typed
  <2>3. l \in Loops /\ l.at = "evaluate"
    BY <1>1, <1>2 DEF Loops, Places
  <2>4. loop' = [loop EXCEPT ![d] = l]
    BY <1>11 DEF PlanInv, Typed
  <2> HIDE DEF l
  <2> QED  BY <1>1, <1>4, <2>1, <2>2, <2>3, <2>4, OneLoopMoves
<1> QED  BY <1>6, <1>7, <1>8, <1>9, <1>10, <1>11, Zenon

LEMMA EvaluatorSteps ==
  ASSUME Plan!PlanAssumption, PlanInv, NEW d \in Driver, Plan!EvaluatorAnswers(d)
  PROVE  PlanInv'
<1>1. loop[d].at = "evaluate" /\ UNCHANGED <<used, blind, epoch, loops, interrupts>>
  BY DEF Plan!EvaluatorAnswers, Plan!counts
<1>2. Counts(plan, plan.codex)
  BY PlanIsCounted
<1> DEFINE t == loop[d].task
           p == [plan EXCEPT !.repairs[t] = @ + 1, !.queue[t] = "REPAIR_PENDING"]
<1>3. CASE Plan!EndsTurn(d, Plan!Processed(Plan!SetTask(plan, d, "PASS")))
  <2>1. Counts(Plan!SetTask(plan, d, "PASS"), plan.codex)
    BY <1>2, SetCounts DEF Plan!TaskState, Plan!Success
  <2>2. Counts(Plan!Processed(Plan!SetTask(plan, d, "PASS")), plan.codex)
    BY <2>1, AfterCounts
  <2> QED  BY <1>1, <1>3, <2>2, OneTurnEndsFree
<1>4. CASE Plan!EndsTurn(d, Plan!ReviewTask(plan, t))
  BY <1>1, <1>2, <1>4, Ended, OneTurnEndsFree
<1>5. CASE plan.repairs[t] < MaxRepairs /\ Plan!Executes(d, p, t)
  <2>1. t \in PlanTask
    BY <1>1 DEF PlanInv, Typed, Loops
  <2>2. plan.repairs \in [PlanTask -> 0..MaxRepairs] /\ plan.queue \in [PlanTask -> Plan!TaskState]
    BY DEF PlanInv, Typed, Plan!Snapshots
  <2>3. [plan.repairs EXCEPT ![t] = @ + 1] \in [PlanTask -> 0..MaxRepairs]
    BY <1>5, <2>2, <2>1, Limits
  <2> DEFINE q == [plan EXCEPT !.repairs = [plan.repairs EXCEPT ![t] = @ + 1]]
  <2>4. Counts(q, plan.codex)
    BY <1>2, <2>3 DEF Counts, Plan!Snapshots
  <2>5. p = [q EXCEPT !.queue[t] = "REPAIR_PENDING"]
    BY DEF PlanInv, Typed, Plan!Snapshots
  <2> HIDE DEF q
  <2>6. Counts(p, plan.codex)
    BY <2>4, <2>5, QueueCounts DEF Plan!TaskState, Plan!Eligible
  <2> HIDE DEF p
  <2> QED  BY <1>1, <1>5, <2>6, <2>1, Executing
<1> QED  BY <1>3, <1>4, <1>5 DEF Plan!EvaluatorAnswers

(* An exception in the engine hides what was called.                            *)
LEMMA RaisesSteps ==
  ASSUME Plan!PlanAssumption, PlanInv, NEW d \in Driver, Plan!Raises(d)
  PROVE  PlanInv'
<1>1. PICK n \in 0..loop[d].calls : used' = used + n
  BY DEF Plan!Raises
<1>2. n \in Nat
  <2>1. loop[d].calls \in 0..MaxCodex
    BY DEF PlanInv, Typed, Loops
  <2> QED  BY <2>1, Limits
<1>3. loop' \in [Driver -> Loops]
  BY AwayIsALoop DEF Plan!Raises, PlanInv, Typed
<1>4. blind' = TRUE
  BY DEF Plan!Raises
<1>5. UNCHANGED <<plan, keptPlan, epoch, loops, interrupts>> /\ used' \in Nat
  BY <1>1, <1>2 DEF Plan!Raises, Plan!counts, PlanInv, Typed
<1>6. Typed'
  BY <1>3, <1>4, <1>5 DEF PlanInv, Typed
<1> QED  BY <1>4, <1>6 DEF PlanInv

(* A loop that begins with nobody else at work: it has used nothing yet.        *)
LEMMA OneBegins ==
  ASSUME Plan!PlanAssumption, NEW d \in Driver, loop \in [Driver -> Loops], ~Plan!Overlaps(d),
         loop' = [loop EXCEPT ![d] = [Plan!Away EXCEPT !.at = "turn"]],
         plan' \in Plan!Snapshots, keptPlan' = plan', used' = plan'.codex, used' <= MaxCodex
  PROVE  Seen'
<1>1. \A e \in Driver \ {d} : loop'[e].at = "away"
  BY DEF Plan!Overlaps
<1>2. loop'[d].at = "turn"
  BY AwayIsALoop
<1> QED  BY <1>1, <1>2 DEF Seen

LEMMA BeginsTyped ==
  ASSUME Plan!PlanAssumption, PlanInv, NEW d \in Driver, Plan!Start(d) \/ Plan!Resume(d)
  PROVE  /\ loop' = [loop EXCEPT ![d] = [Plan!Away EXCEPT !.at = "turn"]]
         /\ loop' \in [Driver -> Loops] /\ loops' = loops + 1 /\ loops' \in 0..MaxLoops
         /\ blind' \in {TRUE, FALSE} /\ interrupts' = interrupts /\ keptPlan' = plan'
<1>1. /\ loop' = [loop EXCEPT ![d] = [Plan!Away EXCEPT !.at = "turn"]] /\ keptPlan' = plan'
      /\ loops < MaxLoops /\ loops' = loops + 1 /\ interrupts' = interrupts
  BY DEF Plan!Start, Plan!Resume
<1>2. loop' \in [Driver -> Loops]
  BY <1>1, AwayIsALoop DEF PlanInv, Typed
<1>3. loops' \in 0..MaxLoops
  BY <1>1, Limits DEF PlanInv, Typed
<1>4. blind' \in {TRUE, FALSE}
  <2>1. blind' = Plan!Overlaps(d) \/ blind' = (blind \/ Plan!Overlaps(d))
    BY Zenon DEF Plan!Start, Plan!Resume
  <2>2. Plan!Overlaps(d) \in {TRUE, FALSE}
    BY Zenon DEF Plan!Overlaps
  <2>3. (blind \/ Plan!Overlaps(d)) \in {TRUE, FALSE}
    BY <2>2, Zenon
  <2> QED  BY <2>1, <2>2, <2>3, Zenon
<1> QED  BY <1>1, <1>2, <1>3, <1>4

LEMMA PlanStartSteps ==
  ASSUME Plan!PlanAssumption, PlanInv, NEW d \in Driver, Plan!Start(d)
  PROVE  PlanInv'
<1>1. PICK mode \in {"single", "continuous"} : plan' = Plan!Fresh("RUNNING", mode)
  BY DEF Plan!Start
<1>2. Counts(plan', 0)
  BY <1>1, FreshCounts DEF Plan!PlanState
<1>3. used' = 0 /\ epoch' = epoch + 1
  BY DEF Plan!Start
<1>4. Typed'
  <2>1. plan' \in Plan!Snapshots /\ keptPlan' \in Plan!Snapshots
    BY <1>2, BeginsTyped DEF Counts
  <2>2. epoch' \in Nat /\ epoch' <= loops' /\ used' \in Nat
    <3>1. loops' = loops + 1
      BY BeginsTyped
    <3>2. loops \in Nat /\ epoch \in Nat /\ epoch <= loops /\ used \in Nat
      BY Limits DEF PlanInv, Typed
    <3> QED  BY <1>3, <3>1, <3>2
  <2>3. interrupts' \in 0..MaxInterrupts
    BY BeginsTyped DEF PlanInv, Typed
  <2> QED  BY <2>1, <2>2, <2>3, BeginsTyped DEF Typed
<1>5. ASSUME ~Plan!Overlaps(d) PROVE Seen'
  <2>1. plan' \in Plan!Snapshots /\ used' = plan'.codex /\ used' <= MaxCodex
    BY <1>2, <1>3, Limits DEF Counts
  <2> QED  BY <1>5, <2>1, BeginsTyped, OneBegins DEF PlanInv, Typed
<1>6. Plan!Overlaps(d) => blind' = TRUE
  <2>1. blind' = Plan!Overlaps(d)
    BY Zenon DEF Plan!Start
  <2> QED  BY <2>1, Zenon
<1> QED  BY <1>4, <1>5, <1>6 DEF PlanInv

LEMMA ResumeSteps ==
  ASSUME Plan!PlanAssumption, PlanInv, NEW d \in Driver, Plan!Resume(d)
  PROVE  PlanInv'
<1>1. PICK mode \in {"single", "continuous"} :
        plan' = [plan EXCEPT !.state = "RUNNING", !.mode = mode, !.processed = 0]
  BY DEF Plan!Resume
<1>2. Counts(plan', plan.codex)
  BY <1>1, PlanIsCounted DEF Counts, Plan!Snapshots, Plan!PlanState
<1>3. UNCHANGED <<epoch, used>>
  BY DEF Plan!Resume
<1>4. Typed'
  <2>1. plan' \in Plan!Snapshots /\ keptPlan' \in Plan!Snapshots
    BY <1>2, BeginsTyped DEF Counts
  <2>2. epoch' \in Nat /\ epoch' <= loops' /\ used' \in Nat
    <3>1. loops' = loops + 1
      BY BeginsTyped
    <3>2. loops \in Nat /\ epoch \in Nat /\ epoch <= loops /\ used \in Nat
      BY Limits DEF PlanInv, Typed
    <3> QED  BY <1>3, <3>1, <3>2
  <2>3. interrupts' \in 0..MaxInterrupts
    BY BeginsTyped DEF PlanInv, Typed
  <2> QED  BY <2>1, <2>2, <2>3, BeginsTyped DEF Typed
<1>5. ASSUME ~Plan!Overlaps(d), Seen PROVE Seen'
  <2>1. plan' \in Plan!Snapshots /\ used' = plan'.codex /\ used' <= MaxCodex
    BY <1>2, <1>3, <1>5 DEF Counts, Seen
  <2> QED  BY <1>5, <2>1, BeginsTyped, OneBegins DEF PlanInv, Typed
<1>6. blind = TRUE \/ Plan!Overlaps(d) => blind' = TRUE
  <2>1. blind' = (blind \/ Plan!Overlaps(d))
    BY Zenon DEF Plan!Resume
  <2> QED  BY <2>1, Zenon
<1> QED  BY <1>4, <1>5, <1>6 DEF PlanInv

LEMMA StopSteps == PlanInv /\ Plan!Stop => PlanInv'
<1> SUFFICES ASSUME PlanInv, Plan!Stop PROVE PlanInv'
  OBVIOUS
<1>1. Counts(plan', plan.codex) /\ keptPlan' = plan'
  BY PlanIsCounted, Ended DEF Plan!Stop
<1>2. UNCHANGED <<loop, used, blind, epoch, loops, interrupts>>
  BY DEF Plan!Stop, Plan!counts
<1>3. Typed'
  BY <1>1, <1>2 DEF PlanInv, Typed, Counts
<1>4. Seen => Seen'
  BY <1>1, <1>2 DEF Seen, Counts
<1> QED  BY <1>2, <1>3, <1>4 DEF PlanInv

LEMMA RestartSteps ==
  ASSUME Plan!PlanAssumption, PlanInv, Plan!Restart
  PROVE  PlanInv'
<1>1. /\ interrupts' = interrupts + 1 /\ interrupts < MaxInterrupts
      /\ keptPlan' = plan' /\ loop' = [d \in Driver |-> Plan!Away] /\ UNCHANGED <<epoch, used, loops>>
  BY DEF Plan!Restart
<1>2. Counts(plan', keptPlan.codex)
  <2>1. Counts(keptPlan, keptPlan.codex)
    BY DEF PlanInv, Typed, Counts
  <2>2. Counts([keptPlan EXCEPT !.state = "PAUSED"], keptPlan.codex)
    BY <2>1, StateCounts DEF Plan!PlanState
  <2> QED  BY <2>1, <2>2 DEF Plan!Restart
<1>3. blind' = (blind \/ \E d \in Driver : loop[d].at \in {"execute", "evaluate"})
  BY Zenon DEF Plan!Restart
<1>4. loop' \in [Driver -> Loops] /\ \A d \in Driver : loop'[d].at = "away"
  BY <1>1, AwayIsALoop
<1>5. blind' \in {TRUE, FALSE}
  <2>1. (blind \/ \E d \in Driver : loop[d].at \in {"execute", "evaluate"}) \in {TRUE, FALSE}
    BY Zenon
  <2> QED  BY <1>3, <2>1, Zenon
<1>6. Typed'
  <2>1. interrupts' \in 0..MaxInterrupts
    BY <1>1, Limits DEF PlanInv, Typed
  <2>2. plan' \in Plan!Snapshots
    BY <1>2 DEF Counts
  <2> QED  BY <1>1, <1>4, <1>5, <2>1, <2>2 DEF PlanInv, Typed
<1>7. CASE blind = TRUE \/ \E d \in Driver : loop[d].at \in {"execute", "evaluate"}
  <2>1. blind' = TRUE
    BY <1>3, <1>7, Zenon
  <2> QED  BY <1>6, <2>1 DEF PlanInv
<1>8. CASE ~(blind = TRUE \/ \E d \in Driver : loop[d].at \in {"execute", "evaluate"})
  <2>1. Seen /\ keptPlan.codex = plan.codex
    BY <1>8 DEF PlanInv, Seen
  <2>2. Seen'
    BY <1>1, <1>2, <1>4, <2>1 DEF Seen, Counts
  <2> QED  BY <1>6, <2>2 DEF PlanInv
<1> QED  BY <1>7, <1>8

LEMMA PlanSteps ==
  ASSUME Plan!PlanAssumption, PlanInv, [Plan!Next]_Plan!planVars
  PROVE  PlanInv'
<1>1. CASE UNCHANGED Plan!planVars
  BY <1>1 DEF Plan!planVars, PlanInv, Typed, Seen
<1> QED
  BY <1>1, PlanStartSteps, ResumeSteps, TurnSteps, ArchitectSteps, TaskReturnsSteps, EvaluatorSteps,
     RaisesSteps, StopSteps, RestartSteps DEF Plan!Next
-----------------------------------------------------------------------------
(* The steps of the other components leave the plan as it is.                   *)
LEMMA PlanPart ==
  /\ Init => Plan!Init
  /\ [Next]_allVars => [Plan!Next]_Plan!planVars
BY DEF Init, Next, allVars, planAll, Plan!planVars, RecoveryOnly, BusOnly, TaskOnly, GitOnly, GoingOnly,
       PlanOnly, ControlsOnly, PreflightOnly

LEMMA PlanInvariant == Spec => []PlanInv
<1>1. Plan!PlanAssumption
  BY ControlCenterAssumption
<1>2. Init => PlanInv
  BY <1>1, PlanPart, PlanBegins
<1>3. PlanInv /\ [Next]_allVars => PlanInv'
  BY <1>1, PlanPart, PlanSteps
<1> QED  BY <1>2, <1>3, PTL DEF Spec

(* Over every start, stop, resume and restart the snapshot of a plan stays      *)
(* within the plan's limits, and so does the work handed to a loop.             *)
THEOREM PlanTypes ==
  Spec => []Plan!TypeOK
<1>a. Plan!PlanAssumption
  BY ControlCenterAssumption
<1>1. PlanInv => Plan!TypeOK
  <2> SUFFICES ASSUME PlanInv PROVE Plan!TypeOK
    OBVIOUS
  <2>1. Typed
    BY DEF PlanInv
  <2>2. loop \in [Driver -> [at : Places, task : PlanTask \cup {"none"}, epoch : 0..MaxLoops,
                            calls : 0..MaxCodex]]
    BY <2>1 DEF Typed, Loops
  <2>3. epoch \in 0..MaxLoops
    BY <1>a, <2>1, Limits DEF Typed
  <2>4. blind \in BOOLEAN
    BY <2>1, Zenon DEF Typed
  <2> QED  BY <2>1, <2>2, <2>3, <2>4 DEF Typed, Plan!TypeOK, Places
<1> QED  BY <1>1, PlanInvariant, PTL

(* A plan never makes more Codex calls than its limit over all its tasks,       *)
(* repairs, stops, resumes and restarts, as long as no call went unseen.        *)
THEOREM LimitIsKept ==
  Spec => []CodexLimitKept
<1>1. PlanInv => CodexLimitKept
  BY DEF PlanInv, Typed, Seen, CodexLimitKept, Plan!CodexLimitKept
<1> QED  BY <1>1, PlanInvariant, PTL
=============================================================================
