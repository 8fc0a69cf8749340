---------------------------- MODULE Engine_proofs ----------------------------
(* Proofs about the orchestrator engine, for any number of threads, requests,   *)
(* goals and restarts: what follows by itself (Continuation), the completion of *)
(* verified work (GitCompletion) and the shared workflow (TaskWorkflow).        *)
EXTENDS PlanRunner_proofs, FiniteSetTheorems, SequenceTheorems
-----------------------------------------------------------------------------
(* The Week 1 records.                                                          *)
WeekRecords == [day : Going!Day, status : Going!Attention \cup {"COMPLETE"}, seen : Nat]

(* What a thread does, and the Day it carries, are records of these fields.     *)
Form(r) == r = [op |-> r.op, zero |-> r.zero, goal |-> r.goal, entry |-> r.entry]

Shape(e) == e = [day |-> e.day, status |-> e.status, seen |-> e.seen]

WeekShaped ==
  /\ week \in Seq(WeekRecords)
  /\ doing = [a \in Actor |-> doing[a]]
  /\ \A a \in Actor : Form(doing[a])

(* Only the Days 4 and 6 can complete.                                          *)
Completable == \A i \in 1..Len(week) : week[i].status = "COMPLETE" => week[i].day \in {4, 6}

Repeated == \E j, k \in Going!Completed : j < k /\ week[j].day = week[k].day

(* A Day whose request has passed its check, and one that is about to be        *)
(* recorded: the check came before any record that asks for a person.           *)
DayOps == {"program", "day4", "record"}

Checked(e) ==
  /\ Shape(e) /\ e.day \in Going!Day /\ e.seen \in Nat /\ e.seen <= Len(week)
  /\ \A i \in 1..Len(week) : week[i].status \in Going!Attention => e.seen < i

Recordable(e) ==
  /\ e.status \in Going!Attention \cup {"COMPLETE"}
  /\ e.status = "COMPLETE" => e.day \in {4, 6}
  /\ e.status = "HUMAN_DECISION_REQUIRED" => Repeated

Carries(a) ==
  /\ doing[a].op \in DayOps => Checked(doing[a].entry)
  /\ doing[a].op = "day4" => doing[a].entry.day = 4
  /\ doing[a].op = "record" => Recordable(doing[a].entry)

Began == \A a \in Actor : Carries(a)

Weekly ==
  WeekShaped /\ Completable /\ Began /\ Going!DecisionNeedsRepeat /\ Going!AttentionIsFinal

LEMMA WeekBegins == Going!Init => Weekly
<1> SUFFICES ASSUME Going!Init PROVE Weekly
  OBVIOUS
<1>1. week = <<>> /\ doing = [a \in Actor |-> Going!Free]
  BY DEF Going!Init
<1>2. week \in Seq(WeekRecords) /\ Len(week) = 0
  BY <1>1
<1>3. WeekShaped /\ Began
  BY <1>1, <1>2 DEF WeekShaped, Began, Carries, Form, Going!Free, DayOps
<1> QED
  BY <1>2, <1>3 DEF Weekly, Completable, Going!DecisionNeedsRepeat, Going!AttentionIsFinal

LEMMA FormKept ==
  ASSUME NEW r, Form(r), NEW v
  PROVE  /\ Form([r EXCEPT !.op = v]) /\ [r EXCEPT !.op = v].op = v
         /\ Form([r EXCEPT !.zero = v]) /\ [r EXCEPT !.zero = v].op = r.op
         /\ Form([r EXCEPT !.goal = v]) /\ [r EXCEPT !.goal = v].op = r.op
  BY DEF Form

(* A Day under way, and its record when its status is known.                    *)
LEMMA OnDayIs ==
  ASSUME NEW o, NEW zero, NEW e
  PROVE  /\ Form(Going!OnDay(o, zero, e))
         /\ Going!OnDay(o, zero, e).op = o /\ Going!OnDay(o, zero, e).entry = e
  BY DEF Form, Going!OnDay

LEMMA StatusSet ==
  ASSUME NEW e, Shape(e), NEW v
  PROVE  LET n == [e EXCEPT !.status = v] IN
         Shape(n) /\ n.day = e.day /\ n.status = v /\ n.seen = e.seen
  BY DEF Shape

(* A step that adds no record, of a thread that goes to a Day it has checked,   *)
(* goes on with it, or goes elsewhere.                                          *)
LEMMA NothingRecorded ==
  ASSUME Weekly, UNCHANGED week, NEW a \in Actor, NEW next,
         Form(next),
         doing' = [doing EXCEPT ![a] = next],
         next.op \in DayOps => Checked(next.entry),
         next.op = "day4" => next.entry.day = 4,
         next.op = "record" => Recordable(next.entry)
  PROVE  Weekly'
<1>1. doing'[a] = next /\ \A b \in Actor \ {a} : doing'[b] = doing[b]
  BY DEF Weekly, WeekShaped
<1>2. WeekShaped'
  <2>1. doing' = [b \in Actor |-> doing'[b]]
    BY DEF Weekly, WeekShaped
  <2> QED  BY <1>1, <2>1 DEF Weekly, WeekShaped, Form
<1>3. Began'
  <2> SUFFICES ASSUME NEW b \in Actor PROVE Carries(b)'
    BY DEF Began
  <2>1. Carries(b)
    BY DEF Weekly, Began
  <2>2. Repeated' <=> Repeated
    BY DEF Repeated, Going!Completed
  <2>3. CASE b = a
    BY <1>1, <2>2, <2>3 DEF Carries, Checked, Recordable
  <2>4. CASE b # a
    BY <1>1, <2>1, <2>2, <2>4 DEF Carries, Checked, Recordable
  <2> QED  BY <2>3, <2>4
<1> QED
  BY <1>2, <1>3 DEF Weekly, Completable, Going!DecisionNeedsRepeat, Going!AttentionIsFinal,
                    Going!Completed

(* A step that adds a record and frees its thread.                              *)
LEMMA DayRecorded ==
  ASSUME Weekly, NEW a \in Actor, doing' = [doing EXCEPT ![a] = Going!Free],
         NEW new, Checked(new), Recordable(new), week' = Append(week, new)
  PROVE  Weekly'
<1> DEFINE n == Len(week)
<1>1. week \in Seq(WeekRecords) /\ n \in Nat /\ new \in WeekRecords
  BY LenProperties DEF Weekly, WeekShaped, WeekRecords, Checked, Recordable, Shape
<1>3. /\ week' \in Seq(WeekRecords) /\ Len(week') = n + 1 /\ week'[n + 1] = new
      /\ \A i \in 1..n : week'[i] = week[i]
  BY <1>1, AppendProperties
<1>5. doing'[a] = Going!Free /\ \A b \in Actor \ {a} : doing'[b] = doing[b]
  BY DEF Weekly, WeekShaped
<1>6. WeekShaped'
  <2>1. doing' = [b \in Actor |-> doing'[b]]
    BY DEF Weekly, WeekShaped
  <2> QED  BY <1>3, <1>5, <2>1 DEF Weekly, WeekShaped, Form, Going!Free
<1>7. \A i \in 1..Len(week') : i \in 1..n \/ i = n + 1
  BY <1>1, <1>3
<1>8. Completable'
  BY <1>3, <1>7 DEF Weekly, Completable, Recordable
<1>2. /\ Going!Completed \subseteq Going!Completed' /\ Going!Completed \subseteq 1..n
  BY <1>1, <1>3 DEF Going!Completed
<1>4. Repeated => Repeated'
  BY <1>2, <1>3 DEF Repeated
<1>9. Began'
  <2> SUFFICES ASSUME NEW b \in Actor PROVE Carries(b)'
    BY DEF Began
  <2>1. Carries(b)
    BY DEF Weekly, Began
  <2>2. CASE b = a
    BY <1>5, <2>2 DEF Carries, Going!Free, DayOps
  <2>3. CASE b # a
    <3>1. doing'[b] = doing[b]
      BY <1>5, <2>3
    <3> QED  BY <1>1, <1>3, <1>4, <1>7, <2>1, <3>1 DEF Carries, Checked, Recordable
  <2> QED  BY <2>2, <2>3
<1>10. Going!DecisionNeedsRepeat'
  <2> SUFFICES ASSUME NEW i \in 1..Len(week'), week'[i].status = "HUMAN_DECISION_REQUIRED"
               PROVE  \E j, k \in Going!Completed' : j < k /\ k < i /\ week'[j].day = week'[k].day
    BY DEF Going!DecisionNeedsRepeat
  <2>2. \E j, k \in Going!Completed : j < k /\ k < i /\ week[j].day = week[k].day
    <3>1. CASE i \in 1..n
      BY <1>3, <3>1 DEF Weekly, Going!DecisionNeedsRepeat
    <3>2. CASE i = n + 1
      <4>1. PICK j, k \in Going!Completed : j < k /\ week[j].day = week[k].day
        BY <1>3, <3>2 DEF Recordable, Repeated
      <4>2. k < i
        BY <1>1, <1>2, <3>2
      <4> QED  BY <4>1, <4>2
    <3> QED  BY <1>7, <3>1, <3>2
  <2> QED  BY <1>2, <1>3, <2>2
<1>11. Going!AttentionIsFinal'
  <2> SUFFICES ASSUME NEW i \in 1..Len(week'), NEW j \in 1..Len(week'),
                      i < j, week'[i].status \in Going!Attention
               PROVE  week'[j].seen < i
    BY DEF Going!AttentionIsFinal
  <2>1. i \in 1..n /\ week'[i] = week[i]
    BY <1>1, <1>3
  <2>2. CASE j \in 1..n
    BY <1>3, <2>1, <2>2 DEF Weekly, Going!AttentionIsFinal
  <2>3. CASE j = n + 1
    BY <1>3, <2>1, <2>3 DEF Checked
  <2> QED  BY <1>7, <2>2, <2>3
<1> QED  BY <1>6, <1>8, <1>9, <1>10, <1>11 DEF Weekly

(* Three COMPLETE records cannot be of two Days alone.                          *)
LEMMA ThreeRepeat ==
  ASSUME Weekly, ~(Going!Cardinality(Going!Completed) < 3)
  PROVE  Repeated
<1> DEFINE C == Going!Completed
           T == {4, 6}
           f == [i \in C |-> week[i].day]
<1>1. Len(week) \in Nat
  BY LenProperties DEF Weekly, WeekShaped
<1>2. C \subseteq 1..Len(week)
  BY DEF Going!Completed
<1>3. IsFiniteSet(C) /\ Cardinality(C) \in Nat
  <2>1. IsFiniteSet(1..Len(week))
    BY <1>1, FS_Interval
  <2>2. IsFiniteSet(C)
    BY <1>2, <2>1, FS_Subset
  <2> QED  BY <2>2, FS_CardinalityType
<1>4. Going!Cardinality(C) = Cardinality(C)
  BY Zenon DEF Going!Cardinality, Cardinality
<1>5. IsFiniteSet(T) /\ Cardinality(T) <= 3 - 1
  <2>1. 4 \in Int /\ 6 \in Int
    OBVIOUS
  <2>2. IsFiniteSet({4}) /\ Cardinality({4}) = 1
    BY FS_Singleton
  <2>3. IsFiniteSet({4} \cup {6})
        /\ Cardinality({4} \cup {6}) = IF 6 \in {4} THEN Cardinality({4}) ELSE Cardinality({4}) + 1
    BY <2>2, FS_AddElement
  <2>4. T = {4} \cup {6}
    OBVIOUS
  <2> QED  BY <2>2, <2>3, <2>4
<1>6. f \in [C -> T]
  BY <1>2 DEF Weekly, Completable, Going!Completed
<1>7. Cardinality(T) < Cardinality(C)
  <2>1. Cardinality(T) \in Nat
    BY <1>5, FS_CardinalityType
  <2> QED  BY <1>3, <1>4, <1>5, <2>1
<1> HIDE DEF C, T, f
<1>8. \E x, y \in C : x # y /\ f[x] = f[y]
  BY <1>3, <1>5, <1>6, <1>7, FS_PigeonHole
<1>9. PICK x, y \in C : x # y /\ f[x] = f[y]
  BY <1>8
<1>10. week[x].day = week[y].day
  BY <1>9 DEF f
<1>11. x < y \/ y < x
  BY <1>1, <1>2, <1>9
<1> QED  BY <1>9, <1>10, <1>11 DEF C, Repeated

LEMMA WeekUntouched ==
  ASSUME Weekly, UNCHANGED <<week, doing>>
  PROVE  Weekly'
  BY DEF Weekly, WeekShaped, Completable, Began, Carries, Checked, Recordable, Repeated,
         Going!DecisionNeedsRepeat, Going!AttentionIsFinal, Going!Completed

LEMMA FreeIsFormed == Form(Going!Free) /\ Going!Free.op = "free"
  BY DEF Form, Going!Free

(* The check of run_week1_day, for a request or for a continuation.             *)
LEMMA WeekDaySteps ==
  ASSUME Weekly, NEW a \in Actor, NEW day \in Going!Day, NEW zero, Going!BeginsWeek1Day(a, day, zero)
  PROVE  Weekly'
<1>1. UNCHANGED week
  BY DEF Going!BeginsWeek1Day, Going!records
<1>2. CASE UNCHANGED doing
  BY <1>1, <1>2, WeekUntouched
<1> DEFINE e == [day |-> day, status |-> "none", seen |-> Len(week)]
           next == Going!OnDay("program", zero, e)
<1>3. CASE ~Going!AttentionUnresolved /\ doing' = [doing EXCEPT ![a] = next]
  <2>1. Len(week) \in Nat
    BY LenProperties DEF Weekly, WeekShaped
  <2>2. \A i \in 1..Len(week) : week[i].status \notin Going!Attention
    BY <1>3 DEF Going!AttentionUnresolved
  <2>3. Checked(e)
    BY <2>1, <2>2 DEF Checked, Shape
  <2> HIDE DEF e
  <2>4. Form(next) /\ next.op = "program" /\ next.entry = e
    BY OnDayIs
  <2>5. doing' = [doing EXCEPT ![a] = next]
    BY <1>3
  <2> HIDE DEF next
  <2> QED  BY <1>1, <2>3, <2>4, <2>5, NothingRecorded
<1> QED  BY <1>2, <1>3, Zenon DEF Going!BeginsWeek1Day, Going!Does

(* The program of a Day; a decision about the next phase needs three COMPLETE   *)
(* records.                                                                     *)
LEMMA ProgramSteps ==
  ASSUME Weekly, NEW a \in Actor, Going!RunsProgram(a)
  PROVE  Weekly'
<1> DEFINE e == doing[a].entry
<1>1. doing[a].op = "program" /\ UNCHANGED week
  BY DEF Going!RunsProgram, Going!records
<1>2. Checked(e)
  BY <1>1 DEF Weekly, Began, Carries, DayOps
<1>3. PICK status \in Going!Week1Results(e.day) :
        Going!Does(a, Going!OnDay(IF e.day = 4 /\ status = "COMPLETE" THEN "day4" ELSE "record",
                                  doing[a].zero, [e EXCEPT !.status = status]))
  BY Zenon DEF Going!RunsProgram
<1> DEFINE o == IF e.day = 4 /\ status = "COMPLETE" THEN "day4" ELSE "record"
           new == [e EXCEPT !.status = status]
           next == Going!OnDay(o, doing[a].zero, new)
<1>4. /\ status \in Going!Attention \cup {"COMPLETE"}
      /\ status = "COMPLETE" => e.day \in {4, 6}
      /\ status = "HUMAN_DECISION_REQUIRED" => ~(Going!Cardinality(Going!Completed) < 3)
  BY <1>2 DEF Going!Week1Results, Going!Day, Going!Attention, Checked
<1>5. doing' = [doing EXCEPT ![a] = next]
  BY <1>3, Zenon DEF Going!Does
<1>6. o \in {"day4", "record"} /\ (o = "day4" => e.day = 4)
  OBVIOUS
<1> HIDE DEF e
<1>7. Shape(new) /\ new.day = e.day /\ new.status = status /\ new.seen = e.seen
  BY <1>2, StatusSet DEF Checked
<1> HIDE DEF new, o
<1>8. Form(next) /\ next.op = o /\ next.entry = new
  BY OnDayIs
<1> HIDE DEF next
<1>9. Checked(new)
  BY <1>2, <1>7 DEF Checked
<1>10. Recordable(new)
  BY <1>4, <1>7, ThreeRepeat DEF Recordable
<1> QED  BY <1>1, <1>5, <1>6, <1>7, <1>8, <1>9, <1>10, NothingRecorded

LEMMA Day4Steps ==
  ASSUME Weekly, NEW a \in Actor, Going!Day4Experiment(a)
  PROVE  Weekly'
<1> DEFINE e == doing[a].entry
<1>1. doing[a].op = "day4" /\ UNCHANGED week
  BY DEF Going!Day4Experiment
<1>2. Checked(e) /\ e.day = 4
  BY <1>1 DEF Weekly, Began, Carries, DayOps
<1>3. PICK status \in {"COMPLETE", "EXTERNAL_ACTION_REQUIRED"} :
        Going!Does(a, Going!OnDay("record", doing[a].zero, [e EXCEPT !.status = status]))
  BY Zenon DEF Going!Day4Experiment
<1> DEFINE new == [e EXCEPT !.status = status]
           next == Going!OnDay("record", doing[a].zero, new)
<1>4. doing' = [doing EXCEPT ![a] = next]
  BY <1>3, Zenon DEF Going!Does
<1> HIDE DEF e
<1>5. Shape(new) /\ new.day = e.day /\ new.status = status /\ new.seen = e.seen
  BY <1>2, StatusSet DEF Checked
<1> HIDE DEF new
<1>6. Form(next) /\ next.op = "record" /\ next.entry = new
  BY OnDayIs
<1> HIDE DEF next
<1>7. Checked(new) /\ Recordable(new)
  BY <1>2, <1>5 DEF Checked, Recordable, Going!Attention
<1> QED  BY <1>1, <1>4, <1>6, <1>7, NothingRecorded

LEMMA RecordSteps ==
  ASSUME Weekly, NEW a \in Actor, Going!RecordsDay(a)
  PROVE  Weekly'
<1>1. /\ doing[a].op = "record" /\ doing' = [doing EXCEPT ![a] = Going!Free]
      /\ week' = Append(week, doing[a].entry)
  BY DEF Going!RecordsDay, Going!Does
<1>2. Checked(doing[a].entry) /\ Recordable(doing[a].entry)
  BY <1>1 DEF Weekly, Began, Carries, DayOps
<1> QED  BY <1>1, <1>2, DayRecorded

(* A request goes on to its external command, which is not a Day of Week 1.     *)
LEMMA GoesOnSteps ==
  ASSUME Weekly, NEW a \in Actor,
         \/ Going!RunExperiment(a) \/ Going!Experiment(a) \/ Going!ExecuteGoal(a)
         \/ Going!StartZeroTouch(a) \/ Going!Readiness(a) \/ Going!GoalExperiment(a)
  PROVE  Weekly'
<1> DEFINE Calls(next) == /\ UNCHANGED week /\ Form(next) /\ next.op \notin DayOps
                          /\ doing' = [doing EXCEPT ![a] = next]
<1>1. ASSUME NEW next, Calls(next) PROVE Weekly'
  <2>1. next.op # "day4" /\ next.op # "record"
    BY <1>1 DEF DayOps
  <2> QED  BY <1>1, <2>1, NothingRecorded
<1>a. \A o \in {"experiment", "goal", "ready", "free"} : o \notin DayOps
  BY DEF DayOps
<1>2. CASE Going!RunExperiment(a)
  <2> DEFINE next == [Going!Free EXCEPT !.op = "experiment"]
  <2>1. Form(next) /\ next.op = "experiment"
    BY FreeIsFormed, FormKept
  <2>2. UNCHANGED week /\ doing' = [doing EXCEPT ![a] = next]
    BY <1>2 DEF Going!RunExperiment, Going!Does, Going!records
  <2> HIDE DEF next
  <2> QED  BY <1>1, <1>a, <2>1, <2>2
<1>3. CASE Going!Experiment(a) \/ Going!GoalExperiment(a)
  <2>1. UNCHANGED week /\ doing' = [doing EXCEPT ![a] = Going!Free]
    BY <1>3 DEF Going!Experiment, Going!GoalExperiment, Going!Does
  <2> QED  BY <1>1, <1>a, <2>1, FreeIsFormed
<1>4. CASE Going!ExecuteGoal(a)
  <2>1. PICK g \in Goal : UNCHANGED week /\ doing' = [doing EXCEPT ![a] = [Going!Free EXCEPT !.op = "goal", !.goal = g]]
    BY <1>4, Zenon DEF Going!ExecuteGoal, Going!Does, Going!records
  <2> DEFINE r1 == [Going!Free EXCEPT !.op = "goal"]
             r2 == [r1 EXCEPT !.goal = g]
  <2>2. Form(r1) /\ r1.op = "goal"
    BY FreeIsFormed, FormKept
  <2>3. doing' = [doing EXCEPT ![a] = r2]
    BY <2>1, Zenon
  <2> HIDE DEF r1
  <2>4. Form(r2) /\ r2.op = "goal"
    BY <2>2, FormKept
  <2> HIDE DEF r2
  <2> QED  BY <1>1, <1>a, <2>1, <2>3, <2>4
<1>5. CASE Going!StartZeroTouch(a)
  <2>1. UNCHANGED week
    BY <1>5 DEF Going!StartZeroTouch
  <2>2. CASE UNCHANGED doing
    BY <2>1, <2>2, WeekUntouched
  <2>3. ASSUME NEW g \in Goal,
               doing' = [doing EXCEPT ![a] = [Going!Free EXCEPT !.op = "ready", !.zero = TRUE, !.goal = g]]
        PROVE  Weekly'
    <3> DEFINE r1 == [Going!Free EXCEPT !.op = "ready"]
               r2 == [r1 EXCEPT !.zero = TRUE]
               r3 == [r2 EXCEPT !.goal = g]
    <3>1. Form(r1) /\ r1.op = "ready"
      BY FreeIsFormed, FormKept
    <3>2. doing' = [doing EXCEPT ![a] = r3]
      BY <2>3, Zenon
    <3> HIDE DEF r1
    <3>3. Form(r2) /\ r2.op = "ready"
      BY <3>1, FormKept
    <3> HIDE DEF r2
    <3>4. Form(r3) /\ r3.op = "ready"
      BY <3>3, FormKept
    <3> HIDE DEF r3
    <3> QED  BY <1>1, <1>a, <2>1, <3>2, <3>4
  <2> QED  BY <1>5, <2>2, <2>3, Zenon DEF Going!StartZeroTouch, Going!Does
<1>6. CASE Going!Readiness(a)
  <2>1. UNCHANGED week
    BY <1>6 DEF Going!Readiness
  <2>2. CASE doing' = [doing EXCEPT ![a] = Going!Free]
    BY <1>1, <1>a, <2>1, <2>2, FreeIsFormed
  <2>3. ASSUME NEW o \in {"experiment", "goal"}, doing' = [doing EXCEPT ![a] = [doing[a] EXCEPT !.op = o]]
        PROVE  Weekly'
    <3> DEFINE next == [doing[a] EXCEPT !.op = o]
    <3>1. Form(next) /\ next.op = o
      BY FormKept DEF Weekly, WeekShaped
    <3>2. doing' = [doing EXCEPT ![a] = next]
      BY <2>3
    <3> HIDE DEF next
    <3> QED  BY <1>1, <1>a, <2>1, <2>3, <3>1, <3>2
  <2>4. (IF doing[a].goal = "none" THEN "experiment" ELSE "goal") \in {"experiment", "goal"}
    OBVIOUS
  <2> QED  BY <1>6, <2>2, <2>3, <2>4, Zenon DEF Going!Readiness, Going!Does
<1> QED  BY <1>2, <1>3, <1>4, <1>5, <1>6

LEMMA NextDayIsADay ==
  Going!Week1NextDay # 0 => Going!Week1NextDay \in Going!Day
<1> DEFINE open == {d \in Going!Day : \A i \in Going!Completed : week[i].day # d}
<1>1. Going!Week1NextDay = IF open = {} THEN 0 ELSE CHOOSE d \in open : \A e \in open : d <= e
  BY DEF Going!Week1NextDay
<1>2. open # {} => \E d \in open : \A e \in open : d <= e
  <2>1. open \subseteq {4, 5, 6, 7}
    BY DEF Going!Day
  <2> HIDE DEF open
  <2>2. CASE 4 \in open
    BY <2>1, <2>2
  <2>3. CASE 4 \notin open /\ 5 \in open
    BY <2>1, <2>3
  <2>4. CASE 4 \notin open /\ 5 \notin open /\ 6 \in open
    BY <2>1, <2>4
  <2>5. CASE 4 \notin open /\ 5 \notin open /\ 6 \notin open
    <3>1. \A d \in open : d = 7
      BY <2>1, <2>5
    <3> QED  BY <3>1
  <2> QED  BY <2>2, <2>3, <2>4, <2>5
<1>3. open \subseteq Going!Day
  OBVIOUS
<1> HIDE DEF open
<1> QED  BY <1>1, <1>2, <1>3

LEMMA ContinueSteps ==
  ASSUME Weekly, NEW a \in Actor, Going!Continue(a)
  PROVE  Weekly'
<1>1. PICK zero \in BOOLEAN :
        CASE Going!NextAction(experiment) = "RUN_WEEK1_DAY" -> Going!BeginsWeek1Day(a, Going!Week1NextDay, zero)
         [] Going!NextAction(experiment) = "RUN_TRUSTED_EXPERIMENT" ->
              /\ Going!Does(a, [Going!Free EXCEPT !.op = "ready", !.zero = zero]) /\ UNCHANGED Going!records
         [] Going!NextAction(experiment) = "COMPLETE_VERIFIED_WORK" ->
              /\ candidate' \in IF candidate = "ready" THEN {"done", "stuck"} ELSE {"stuck"}
              /\ Going!Closes(zero, IF candidate' = "done" THEN "COMPLETE" ELSE "ATTENTION")
              /\ UNCHANGED <<week, experiment, goals, doing>>
         [] OTHER -> /\ Going!Closes(zero, "ATTENTION")
                     /\ UNCHANGED <<week, experiment, goals, candidate, doing>>
  BY Zenon DEF Going!Continue
<1>2. CASE Going!NextAction(experiment) = "RUN_WEEK1_DAY"
  <2>1. Going!BeginsWeek1Day(a, Going!Week1NextDay, zero)
    BY <1>1, <1>2
  <2>2. Going!Week1NextDay # 0
    <3>1. Going!Week1NeedsPerson => week[Len(week)].status # "RUN_WEEK1_DAY"
      BY DEF Going!Week1NeedsPerson, Going!Attention
    <3> QED  BY <1>2, <3>1 DEF Going!NextAction
  <2> QED  BY <2>1, <2>2, NextDayIsADay, WeekDaySteps
<1>3. CASE Going!NextAction(experiment) = "RUN_TRUSTED_EXPERIMENT"
  <2> DEFINE r1 == [Going!Free EXCEPT !.op = "ready"]
             r2 == [r1 EXCEPT !.zero = zero]
  <2>1. /\ Going!Does(a, [Going!Free EXCEPT !.op = "ready", !.zero = zero])
        /\ UNCHANGED Going!records
    <3> HIDE DEF Going!Does, Going!records
    <3> QED  BY <1>1, <1>3
  <2>2. UNCHANGED week
    BY <2>1 DEF Going!records
  <2>3. doing' = [doing EXCEPT ![a] = r2]
    BY <2>1, Zenon DEF Going!Does
  <2>4. Form(r1) /\ r1.op = "ready"
    BY FreeIsFormed, FormKept
  <2> HIDE DEF r1
  <2>5. Form(r2) /\ r2.op = "ready"
    BY <2>4, FormKept
  <2> HIDE DEF r2
  <2> QED  BY <2>2, <2>3, <2>5, NothingRecorded DEF DayOps
<1>4. CASE /\ Going!NextAction(experiment) # "RUN_WEEK1_DAY"
           /\ Going!NextAction(experiment) # "RUN_TRUSTED_EXPERIMENT"
  <2>1. UNCHANGED <<week, doing>>
    BY <1>1, <1>4
  <2> QED  BY <2>1, WeekUntouched
<1> QED  BY <1>2, <1>3, <1>4

LEMMA WeekSteps ==
  ASSUME Weekly, [Going!Next]_Going!continuationVars
  PROVE  Weekly'
<1>1. CASE \/ Going!WorkVerified \/ UNCHANGED Going!continuationVars
           \/ \E a \in Actor : Going!ProposeGoal(a)
  BY <1>1, WeekUntouched DEF Going!WorkVerified, Going!continuationVars, Going!ProposeGoal
<1>2. CASE Going!Restart
  <2>1. UNCHANGED week /\ doing' = [a \in Actor |-> Going!Free]
    BY <1>2 DEF Going!Restart, Going!records
  <2>2. WeekShaped' /\ Began'
    BY <2>1, FreeIsFormed DEF Weekly, WeekShaped, Began, Carries, Form, DayOps
  <2> QED
    BY <2>1, <2>2 DEF Weekly, Completable, Going!DecisionNeedsRepeat, Going!AttentionIsFinal,
                      Going!Completed
<1>3. ASSUME NEW a \in Actor, Going!RunWeek1Day(a) PROVE Weekly'
  <2>1. PICK day \in Going!Day : Going!BeginsWeek1Day(a, day, FALSE)
    BY <1>3 DEF Going!RunWeek1Day
  <2> QED  BY <2>1, WeekDaySteps
<1> QED
  BY <1>1, <1>2, <1>3, ProgramSteps, Day4Steps, RecordSteps, GoesOnSteps, ContinueSteps DEF Going!Next

(* The steps of the other components leave the continuation as it is.           *)
LEMMA GoingPart ==
  /\ Init => Going!Init
  /\ [Next]_allVars => [Going!Next]_Going!continuationVars
BY DEF Init, Next, allVars, goingAll, Going!continuationVars, RecoveryOnly, BusOnly, TaskOnly, GitOnly, GoingOnly,
       PlanOnly, ControlsOnly, PreflightOnly

LEMMA GoingInvariant == Spec => []Weekly
<1>1. Init => Weekly
  BY GoingPart, WeekBegins
<1>2. Weekly /\ [Next]_allVars => Weekly'
  BY GoingPart, WeekSteps
<1> QED  BY <1>1, <1>2, PTL DEF Spec

(* Day 7 asks for the decision of the next phase only when a Day was completed  *)
(* twice, however the requests of Week 1 and its continuations interleave.      *)
THEOREM DecisionOverRepeats ==
  Spec => []DecisionNeedsRepeat
<1>1. Weekly => DecisionNeedsRepeat
  BY DEF DecisionNeedsRepeat, Weekly
<1> QED  BY <1>1, GoingInvariant, PTL

(* A record that follows one that asks for a person is of a request that passed *)
(* its check before that one: the check and the record are apart, on threads    *)
(* without a lock, but no later request passes.                                 *)
THEOREM AttentionEndsTheWeek ==
  Spec => []AttentionIsFinal
<1>1. Weekly => AttentionIsFinal
  BY DEF AttentionIsFinal, Weekly
<1> QED  BY <1>1, GoingInvariant, PTL
-----------------------------------------------------------------------------
(* The types of the continuation.                                               *)
Ops == {"free", "program", "day4", "record", "experiment", "goal", "ready"}
Drafts == [day : Going!Day \cup {0}, status : Going!Attention \cup {"COMPLETE", "none"},
           seen : 0..MaxSteps]
Doings == [op : Ops, zero : BOOLEAN, goal : Goal \cup {"none"}, entry : Drafts]
Weeks == [day : Going!Day, status : Going!Attention \cup {"COMPLETE"}, seen : 0..MaxSteps]

(* The threads on a Day of Week 1: each will add a record.                      *)
OnDays == {a \in Actor : doing[a].op \in DayOps}

(* Every record has been asked for, and so has every Day under way.             *)
Enough == Len(week) + Cardinality(OnDays) <= asked

RecordsTyped ==
  /\ experiment \in Going!Outcome \cup {"none"}
  /\ goals \in [Goal -> {"absent", "PROPOSED", "REJECTED", "EXECUTED"}]
  /\ zeroTouch \in {"none", "COMPLETE", "ATTENTION"} /\ candidate \in {"none", "ready", "stuck", "done"}

GoingTyped ==
  /\ week1Enabled \in BOOLEAN /\ asked \in 0..MaxSteps /\ reboots \in 0..MaxReboots
  /\ week \in Seq(Weeks) /\ RecordsTyped
  /\ doing \in [Actor -> Doings]

GoingTypes == GoingTyped /\ Enough

LEMMA ActorsAreFinite == IsFiniteSet(Actor) /\ MaxSteps \in Nat
<1>1. Going!IsFiniteSet(Actor) /\ MaxSteps \in Nat
  BY ControlCenterAssumption DEF Going!ContinuationAssumption
<1>2. Going!IsFiniteSet(Actor) => IsFiniteSet(Actor)
  BY Zenon DEF Going!IsFiniteSet, IsFiniteSet
<1> QED  BY <1>1, <1>2

LEMMA DoingKept ==
  ASSUME NEW r \in Doings
  PROVE  /\ \A v \in Ops : [r EXCEPT !.op = v] \in Doings /\ [r EXCEPT !.op = v].op = v
         /\ \A v \in BOOLEAN : [r EXCEPT !.zero = v] \in Doings /\ [r EXCEPT !.zero = v].op = r.op
         /\ \A v \in Goal \cup {"none"} :
              [r EXCEPT !.goal = v] \in Doings /\ [r EXCEPT !.goal = v].op = r.op
<1>1. \A v \in Ops : [r EXCEPT !.op = v] \in Doings /\ [r EXCEPT !.op = v].op = v
  BY Zenon DEF Doings
<1>2. \A v \in BOOLEAN : [r EXCEPT !.zero = v] \in Doings /\ [r EXCEPT !.zero = v].op = r.op
  BY Zenon DEF Doings
<1>3. \A v \in Goal \cup {"none"} :
              [r EXCEPT !.goal = v] \in Doings /\ [r EXCEPT !.goal = v].op = r.op
  BY Zenon DEF Doings
<1> QED  BY <1>1, <1>2, <1>3

LEMMA FreeIsADoing == Going!Free \in Doings /\ Going!Free.op = "free"
<1>1. "free" \in Ops /\ FALSE \in BOOLEAN /\ Going!Blank \in Drafts
  BY ControlCenterAssumption DEF Ops, Drafts, Going!Blank, Going!ContinuationAssumption
<1>2. Going!Free.op = "free"
  BY Zenon DEF Going!Free
<1>3. Going!Free \in Doings
  BY <1>1, Zenon DEF Doings, Going!Free
<1> QED  BY <1>2, <1>3

(* A thread on a Day, by the record it carries.                                 *)
LEMMA OnDayTyped ==
  ASSUME NEW o \in DayOps, NEW zero \in BOOLEAN, NEW e \in Drafts
  PROVE  Going!OnDay(o, zero, e) \in Doings /\ Going!OnDay(o, zero, e).op = o
<1>1. o \in Ops
  BY DEF Ops, DayOps
<1>2. Going!OnDay(o, zero, e).op = o
  BY Zenon DEF Going!OnDay
<1> QED  BY <1>1, <1>2, Zenon DEF Doings, Going!OnDay

(* The threads on a Day when one of them goes elsewhere.                        *)
LEMMA DaysCounted ==
  ASSUME doing \in [Actor -> Doings], NEW a \in Actor, NEW r \in Doings,
         doing' = [doing EXCEPT ![a] = r]
  PROVE  /\ IsFiniteSet(OnDays) /\ Cardinality(OnDays) \in Nat /\ Cardinality(OnDays') \in Nat
         /\ Cardinality(OnDays') <= Cardinality(OnDays) + 1
         /\ r.op \notin DayOps \/ doing[a].op \in DayOps => Cardinality(OnDays') <= Cardinality(OnDays)
         /\ r.op \notin DayOps /\ doing[a].op \in DayOps => Cardinality(OnDays') = Cardinality(OnDays) - 1
<1>1. IsFiniteSet(OnDays) /\ IsFiniteSet(OnDays')
  <2>1. OnDays \subseteq Actor /\ OnDays' \subseteq Actor
    BY DEF OnDays
  <2> QED
    BY <2>1, FS_Subset, ActorsAreFinite
<1>2. Cardinality(OnDays) \in Nat /\ Cardinality(OnDays') \in Nat
  BY <1>1, FS_CardinalityType
<1>3. OnDays' = IF r.op \in DayOps THEN OnDays \cup {a} ELSE OnDays \ {a}
  BY DEF OnDays
<1>4. /\ Cardinality(OnDays \cup {a}) = IF a \in OnDays THEN Cardinality(OnDays) ELSE Cardinality(OnDays) + 1
      /\ Cardinality(OnDays \ {a}) = IF a \in OnDays THEN Cardinality(OnDays) - 1 ELSE Cardinality(OnDays)
  BY <1>1, FS_AddElement, FS_RemoveElement
<1>5. a \in OnDays <=> doing[a].op \in DayOps
  BY DEF OnDays
<1> QED
  BY <1>1, <1>2, <1>3, <1>4, <1>5

LEMMA GoingTypesBegin == Going!Init => GoingTypes
<1> SUFFICES ASSUME Going!Init PROVE GoingTypes
  OBVIOUS
<1>1. doing \in [Actor -> Doings] /\ OnDays = {}
  BY FreeIsADoing DEF Going!Init, OnDays, DayOps
<1>2. Cardinality(OnDays) = 0
  BY <1>1, FS_EmptySet
<1>3. week = <<>> /\ week \in Seq(Weeks) /\ Len(week) = 0 /\ asked = 0
  BY DEF Going!Init
<1>4. Enough
  BY <1>2, <1>3 DEF Enough
<1>5. week1Enabled \in BOOLEAN
  BY Zenon DEF Going!Init
<1>6. asked \in 0..MaxSteps /\ reboots \in 0..MaxReboots /\ RecordsTyped
  BY ControlCenterAssumption DEF Going!Init, Going!ContinuationAssumption, RecordsTyped
<1> QED
  BY <1>1, <1>3, <1>4, <1>5, <1>6, Zenon DEF GoingTypes, GoingTyped

(* A step of a thread that adds no record and begins no Day.                    *)
LEMMA GoesOnTyped ==
  ASSUME GoingTypes, NEW a \in Actor, NEW r \in Doings,
         r.op \notin DayOps \/ doing[a].op \in DayOps,
         doing' = [doing EXCEPT ![a] = r], UNCHANGED <<week1Enabled, week, reboots>>,
         asked' \in 0..MaxSteps, asked <= asked', RecordsTyped'
  PROVE  GoingTypes'
<1>2. doing \in [Actor -> Doings] /\ week \in Seq(Weeks) /\ asked \in 0..MaxSteps /\ reboots \in 0..MaxReboots
  BY DEF GoingTypes, GoingTyped
<1>3. week1Enabled \in BOOLEAN
  BY Zenon DEF GoingTypes, GoingTyped
<1>4. doing' \in [Actor -> Doings]
  BY <1>2
<1>5. Enough'
  <2>1. Len(week) + Cardinality(OnDays) <= asked /\ Len(week) \in Nat /\ asked \in Nat /\ asked' \in Nat
    BY <1>2, ActorsAreFinite DEF GoingTypes, Enough
  <2>2. Cardinality(OnDays) \in Nat /\ Cardinality(OnDays') \in Nat /\ Cardinality(OnDays') <= Cardinality(OnDays)
    BY <1>2, DaysCounted
  <2>3. Len(week') + Cardinality(OnDays') <= asked'
    BY <2>1, <2>2
  <2> QED  BY <2>3 DEF Enough
<1>6. week1Enabled' \in BOOLEAN
  BY <1>3
<1>7. /\ asked' \in 0..MaxSteps /\ reboots' \in 0..MaxReboots /\ week' \in Seq(Weeks)
  BY <1>2
<1>8. GoingTyped'
  BY <1>4, <1>6, <1>7, Zenon DEF GoingTyped
<1> QED
  BY <1>5, <1>8 DEF GoingTypes

LEMMA WeekIsAsked ==
  ASSUME GoingTypes
  PROVE  /\ doing \in [Actor -> Doings] /\ week \in Seq(Weeks) /\ RecordsTyped
         /\ reboots \in 0..MaxReboots /\ asked \in 0..MaxSteps /\ asked \in Nat
         /\ Len(week) \in Nat /\ Len(week) <= asked /\ Len(week) \in 0..MaxSteps
         /\ Len(week) + Cardinality(OnDays) <= asked
<1>1. /\ doing \in [Actor -> Doings] /\ week \in Seq(Weeks) /\ RecordsTyped
      /\ reboots \in 0..MaxReboots /\ asked \in 0..MaxSteps
  BY DEF GoingTypes, GoingTyped
<1>2. Len(week) \in Nat /\ asked \in Nat /\ asked <= MaxSteps /\ MaxSteps \in Nat
  BY <1>1, ActorsAreFinite
<1>3. IsFiniteSet(OnDays) /\ Cardinality(OnDays) \in Nat
  BY FS_Subset, FS_CardinalityType, ActorsAreFinite DEF OnDays
<1>4. Len(week) + Cardinality(OnDays) <= asked
  BY DEF GoingTypes, Enough
<1>5. Len(week) <= asked
  BY <1>2, <1>3, <1>4
<1> QED  BY <1>1, <1>2, <1>4, <1>5

LEMMA ClosesTyped ==
  ASSUME RecordsTyped, NEW zero, NEW status \in {"COMPLETE", "ATTENTION"}, Going!Closes(zero, status),
         UNCHANGED <<experiment, goals, candidate>>
  PROVE  RecordsTyped'
BY DEF RecordsTyped, Going!Closes

(* A Day of Week 1 that a request just made is checked for.                     *)
LEMMA WeekDayTyped ==
  ASSUME GoingTypes, NEW a \in Actor, NEW day \in Going!Day, NEW zero \in BOOLEAN,
         Going!Asks(a), Going!BeginsWeek1Day(a, day, zero)
  PROVE  GoingTypes'
<1>1. /\ doing[a].op = "free" /\ asked < MaxSteps /\ asked' = asked + 1
      /\ UNCHANGED <<week1Enabled, reboots>>
  BY DEF Going!Asks
<1>2. asked' \in 0..MaxSteps /\ asked <= asked'
  BY <1>1, WeekIsAsked, ActorsAreFinite
<1>3. UNCHANGED week /\ RecordsTyped'
  BY WeekIsAsked DEF Going!BeginsWeek1Day, RecordsTyped, Going!records
<1>4. CASE UNCHANGED doing
  <2>1. doing' = [doing EXCEPT ![a] = doing[a]] /\ doing[a] \in Doings /\ doing[a].op \notin DayOps
    BY <1>1, <1>4, WeekIsAsked DEF DayOps
  <2> QED  BY <1>1, <1>2, <1>3, <2>1, GoesOnTyped
<1> DEFINE e == [day |-> day, status |-> "none", seen |-> Len(week)]
           next == Going!OnDay("program", zero, e)
<1>5. CASE doing' = [doing EXCEPT ![a] = next]
  <2>1. e \in Drafts
    BY WeekIsAsked DEF Drafts
  <2> HIDE DEF e
  <2>2. next \in Doings
    BY <2>1, OnDayTyped DEF DayOps
  <2>3. doing' = [doing EXCEPT ![a] = next]
    BY <1>5
  <2> HIDE DEF next
  <2>4. doing' \in [Actor -> Doings]
    BY <2>2, <2>3, WeekIsAsked
  <2>5. Enough'
    <3>1. Cardinality(OnDays) \in Nat /\ Cardinality(OnDays') \in Nat /\ Cardinality(OnDays') <= Cardinality(OnDays) + 1
      BY <2>2, <2>3, WeekIsAsked, DaysCounted
    <3>2. Len(week') + Cardinality(OnDays') <= asked'
      BY <1>1, <1>3, <3>1, WeekIsAsked
    <3> QED  BY <3>2 DEF Enough
  <2>6. week' \in Seq(Weeks) /\ reboots' \in 0..MaxReboots
    BY <1>1, <1>3, WeekIsAsked
  <2>7. week1Enabled \in BOOLEAN
    BY Zenon DEF GoingTypes, GoingTyped
  <2>8. week1Enabled' \in BOOLEAN
    BY <1>1, <2>7
  <2> QED  BY <1>2, <1>3, <2>4, <2>5, <2>6, <2>8, Zenon DEF GoingTypes, GoingTyped
<1> QED  BY <1>4, <1>5, Zenon DEF Going!BeginsWeek1Day, Going!Does

(* A Day that goes on: its program, or its experiment.                          *)
LEMMA DayGoesOnTyped ==
  ASSUME GoingTypes, NEW a \in Actor, doing[a].op \in DayOps, NEW o \in DayOps,
         NEW status \in Going!Attention \cup {"COMPLETE"},
         Going!Does(a, Going!OnDay(o, doing[a].zero, [doing[a].entry EXCEPT !.status = status])),
         Going!Answers, UNCHANGED week, RecordsTyped'
  PROVE  GoingTypes'
<1> DEFINE e == doing[a].entry
           new == [e EXCEPT !.status = status]
           next == Going!OnDay(o, doing[a].zero, new)
<1>1. e \in Drafts /\ doing[a].zero \in BOOLEAN
  <2>1. doing[a] \in Doings
    BY WeekIsAsked
  <2> QED  BY <2>1, Zenon DEF Doings
<1>2. new \in Drafts
  <2>1. status \in Going!Attention \cup {"COMPLETE", "none"}
    OBVIOUS
  <2> HIDE DEF e
  <2> QED  BY <1>1, <2>1, Zenon DEF Drafts
<1>3. doing' = [doing EXCEPT ![a] = next]
  BY Zenon DEF Going!Does
<1> HIDE DEF e, new
<1>4. next \in Doings
  BY <1>1, <1>2, OnDayTyped
<1> HIDE DEF next
<1>5. UNCHANGED <<week1Enabled, asked, reboots>>
  BY DEF Going!Answers
<1>6. asked' \in 0..MaxSteps /\ asked <= asked'
  BY <1>5, WeekIsAsked
<1> QED  BY <1>3, <1>4, <1>5, <1>6, GoesOnTyped

LEMMA DaysTyped ==
  ASSUME GoingTypes, NEW a \in Actor,
         \/ Going!RunsProgram(a) /\ Checked(doing[a].entry)
         \/ Going!Day4Experiment(a)
  PROVE  GoingTypes'
<1>1. CASE Going!RunsProgram(a) /\ Checked(doing[a].entry)
  <2>1. doing[a].op \in DayOps /\ Going!Answers /\ UNCHANGED week /\ RecordsTyped'
    BY <1>1, WeekIsAsked DEF Going!RunsProgram, DayOps, RecordsTyped, Going!records
  <2>2. PICK status \in Going!Week1Results(doing[a].entry.day) :
          Going!Does(a, Going!OnDay(IF doing[a].entry.day = 4 /\ status = "COMPLETE" THEN "day4" ELSE "record",
                                    doing[a].zero, [doing[a].entry EXCEPT !.status = status]))
    BY <1>1, Zenon DEF Going!RunsProgram
  <2>3. status \in Going!Attention \cup {"COMPLETE"}
    BY <1>1 DEF Going!Week1Results, Going!Attention, Going!Day, Checked
  <2>4. (IF doing[a].entry.day = 4 /\ status = "COMPLETE" THEN "day4" ELSE "record") \in DayOps
    BY DEF DayOps
  <2> HIDE DEF Going!Does
  <2> QED  BY <2>1, <2>2, <2>3, <2>4, DayGoesOnTyped
<1>2. CASE Going!Day4Experiment(a)
  <2>1. /\ doing[a].op \in DayOps /\ Going!Answers
        /\ UNCHANGED <<week, goals, zeroTouch, candidate>>
        /\ experiment' \in Going!Outcome \cup {experiment}
    BY <1>2 DEF Going!Day4Experiment, DayOps
  <2>2. RecordsTyped'
    BY <2>1, WeekIsAsked DEF RecordsTyped
  <2>3. PICK status \in {"COMPLETE", "EXTERNAL_ACTION_REQUIRED"} :
          Going!Does(a, Going!OnDay("record", doing[a].zero, [doing[a].entry EXCEPT !.status = status]))
    BY <1>2, Zenon DEF Going!Day4Experiment
  <2>4. status \in Going!Attention \cup {"COMPLETE"} /\ "record" \in DayOps
    BY DEF Going!Attention, DayOps
  <2> HIDE DEF Going!Does
  <2> QED  BY <2>1, <2>2, <2>3, <2>4, DayGoesOnTyped
<1> QED  BY <1>1, <1>2

(* The record of a Day that was under way.                                      *)
LEMMA RecordTyped ==
  ASSUME GoingTypes, NEW a \in Actor, Going!RecordsDay(a),
         Checked(doing[a].entry), Recordable(doing[a].entry)
  PROVE  GoingTypes'
<1> DEFINE w == doing[a].entry
<1>1. /\ doing[a].op \in DayOps /\ doing' = [doing EXCEPT ![a] = Going!Free]
      /\ week' = Append(week, w) /\ UNCHANGED <<week1Enabled, asked, reboots>>
  BY DEF Going!RecordsDay, Going!Does, Going!Answers, DayOps
<1>2. w \in Weeks
  <2>1. doing[a] \in Doings
    BY WeekIsAsked
  <2>2. w.seen \in 0..MaxSteps
    BY <2>1, Zenon DEF Doings, Drafts
  <2> QED  BY <2>2 DEF Checked, Recordable, Shape, Weeks
<1>3. RecordsTyped'
  <2>1. PICK status \in {"COMPLETE", "ATTENTION"} : Going!Closes(doing[a].zero, status)
    BY Zenon DEF Going!RecordsDay
  <2>2. UNCHANGED <<experiment, goals, candidate>>
    BY DEF Going!RecordsDay
  <2> QED  BY <2>1, <2>2, WeekIsAsked, ClosesTyped
<1> HIDE DEF w
<1>4. week' \in Seq(Weeks) /\ Len(week') = Len(week) + 1
  BY <1>1, <1>2, WeekIsAsked
<1>5. doing' \in [Actor -> Doings]
  BY <1>1, WeekIsAsked, FreeIsADoing
<1>6. Enough'
  <2>1. /\ Cardinality(OnDays) \in Nat /\ Cardinality(OnDays') \in Nat
        /\ Cardinality(OnDays') = Cardinality(OnDays) - 1
    BY <1>1, WeekIsAsked, FreeIsADoing, DaysCounted DEF DayOps
  <2>2. Len(week') + Cardinality(OnDays') <= asked'
    BY <1>1, <1>4, <2>1, WeekIsAsked
  <2> QED  BY <2>2 DEF Enough
<1>7. week1Enabled \in BOOLEAN
  BY Zenon DEF GoingTypes, GoingTyped
<1>8. week1Enabled' \in BOOLEAN /\ reboots' \in 0..MaxReboots /\ asked' \in 0..MaxSteps
  BY <1>1, <1>7, WeekIsAsked
<1> QED
  BY <1>3, <1>4, <1>5, <1>6, <1>8, Zenon DEF GoingTypes, GoingTyped

(* A request just made, and one that comes back from its command.               *)
LEMMA AsksTyped ==
  ASSUME GoingTypes, NEW a \in Actor, Going!Asks(a) \/ Going!Answers
  PROVE  asked' \in 0..MaxSteps /\ asked <= asked' /\ UNCHANGED <<week1Enabled, reboots>>
<1>1. CASE Going!Asks(a)
  BY <1>1, WeekIsAsked, ActorsAreFinite DEF Going!Asks
<1>2. CASE Going!Answers
  BY <1>2, WeekIsAsked DEF Going!Answers
<1> QED  BY <1>1, <1>2

(* A thread that stays where it is, and one that goes on to a command that is   *)
(* not a Day of Week 1.                                                         *)
LEMMA GoesTyped ==
  ASSUME GoingTypes, NEW a \in Actor, Going!Asks(a) \/ Going!Answers, UNCHANGED week, RecordsTyped',
         NEW r \in Doings, r.op \notin DayOps, Going!Does(a, r)
  PROVE  GoingTypes'
<1>1. doing' = [doing EXCEPT ![a] = r]
  BY DEF Going!Does
<1> QED  BY <1>1, AsksTyped, GoesOnTyped

LEMMA StaysTyped ==
  ASSUME GoingTypes, NEW a \in Actor, Going!Asks(a), UNCHANGED <<week, doing>>, RecordsTyped'
  PROVE  GoingTypes'
<1>1. doing' = [doing EXCEPT ![a] = doing[a]] /\ doing[a] \in Doings /\ doing[a].op \notin DayOps
  BY WeekIsAsked DEF Going!Asks, DayOps
<1> QED  BY <1>1, AsksTyped, GoesOnTyped

(* What a thread goes on to, written as the records of the code.                *)
LEMMA NextDoings ==
  ASSUME NEW zero \in BOOLEAN, NEW g \in Goal
  PROVE  /\ [Going!Free EXCEPT !.op = "experiment"] \in Doings
         /\ [Going!Free EXCEPT !.op = "experiment"].op = "experiment"
         /\ [Going!Free EXCEPT !.op = "goal", !.goal = g] \in Doings
         /\ [Going!Free EXCEPT !.op = "goal", !.goal = g].op = "goal"
         /\ [Going!Free EXCEPT !.op = "ready", !.zero = zero] \in Doings
         /\ [Going!Free EXCEPT !.op = "ready", !.zero = zero].op = "ready"
         /\ [Going!Free EXCEPT !.op = "ready", !.zero = TRUE, !.goal = g] \in Doings
         /\ [Going!Free EXCEPT !.op = "ready", !.zero = TRUE, !.goal = g].op = "ready"
<1>1. \A o \in {"experiment", "goal", "ready"} :
        [Going!Free EXCEPT !.op = o] \in Doings /\ [Going!Free EXCEPT !.op = o].op = o
  <2>1. \A o \in {"experiment", "goal", "ready"} : o \in Ops
    BY DEF Ops
  <2> QED  BY <2>1, FreeIsADoing, DoingKept, Zenon
<1>2. ASSUME NEW z \in BOOLEAN
      PROVE  /\ [Going!Free EXCEPT !.op = "ready", !.zero = z] \in Doings
             /\ [Going!Free EXCEPT !.op = "ready", !.zero = z].op = "ready"
  <2> DEFINE r1 == [Going!Free EXCEPT !.op = "ready"]
             r2 == [r1 EXCEPT !.zero = z]
  <2>1. r1 \in Doings /\ r1.op = "ready"
    BY <1>1
  <2> HIDE DEF r1
  <2>2. r2 \in Doings /\ r2.op = "ready"
    BY <2>1, DoingKept, Zenon
  <2> QED  BY <2>2, Zenon DEF r1
<1>3. /\ [Going!Free EXCEPT !.op = "goal", !.goal = g] \in Doings
      /\ [Going!Free EXCEPT !.op = "goal", !.goal = g].op = "goal"
  <2> DEFINE r1 == [Going!Free EXCEPT !.op = "goal"]
             r2 == [r1 EXCEPT !.goal = g]
  <2>1. r1 \in Doings /\ r1.op = "goal"
    BY <1>1
  <2> HIDE DEF r1
  <2>2. r2 \in Doings /\ r2.op = "goal"
    BY <2>1, DoingKept
  <2> QED  BY <2>2, Zenon DEF r1
<1>4. /\ [Going!Free EXCEPT !.op = "ready", !.zero = TRUE, !.goal = g] \in Doings
      /\ [Going!Free EXCEPT !.op = "ready", !.zero = TRUE, !.goal = g].op = "ready"
  <2> DEFINE r2 == [Going!Free EXCEPT !.op = "ready", !.zero = TRUE]
             r3 == [r2 EXCEPT !.goal = g]
  <2>0. TRUE \in BOOLEAN
    BY Zenon
  <2>1. r2 \in Doings /\ r2.op = "ready"
    BY <1>2, <2>0, Zenon
  <2> HIDE DEF r2
  <2>2. r3 \in Doings /\ r3.op = "ready"
    BY <2>1, DoingKept
  <2> QED  BY <2>2, Zenon DEF r2
<1> QED  BY <1>1, <1>2, <1>3, <1>4

LEMMA ThreadsTyped ==
  ASSUME GoingTypes, NEW a \in Actor,
         \/ Going!RunExperiment(a) \/ Going!Experiment(a) \/ Going!ProposeGoal(a) \/ Going!ExecuteGoal(a)
         \/ Going!StartZeroTouch(a) \/ Going!Readiness(a) \/ Going!GoalExperiment(a)
  PROVE  GoingTypes'
<1>1. CASE Going!RunExperiment(a)
  <2>1. RecordsTyped' /\ UNCHANGED week /\ Going!Asks(a)
    BY <1>1, WeekIsAsked DEF Going!RunExperiment, RecordsTyped, Going!records
  <2>2. /\ [Going!Free EXCEPT !.op = "experiment"] \in Doings
        /\ [Going!Free EXCEPT !.op = "experiment"].op \notin DayOps
        /\ Going!Does(a, [Going!Free EXCEPT !.op = "experiment"])
    BY <1>1, FreeIsADoing, DoingKept DEF Going!RunExperiment, Ops, DayOps
  <2> QED  BY <2>1, <2>2, GoesTyped DEF DayOps
<1>2. CASE Going!Experiment(a)
  <2>1. RecordsTyped'
    BY <1>2, WeekIsAsked DEF Going!Experiment, Going!Closes, RecordsTyped
  <2>2. UNCHANGED week /\ Going!Answers /\ Going!Does(a, Going!Free)
    BY <1>2 DEF Going!Experiment
  <2> QED  BY <2>1, <2>2, FreeIsADoing, GoesTyped DEF DayOps
<1>3. CASE Going!ProposeGoal(a)
  <2>1. RecordsTyped' /\ UNCHANGED <<week, doing>> /\ Going!Asks(a)
    BY <1>3, WeekIsAsked DEF Going!ProposeGoal, RecordsTyped
  <2> QED  BY <2>1, StaysTyped
<1>4. CASE Going!ExecuteGoal(a)
  <2>1. RecordsTyped' /\ UNCHANGED week /\ Going!Asks(a)
    BY <1>4, WeekIsAsked DEF Going!ExecuteGoal, RecordsTyped, Going!records
  <2>2. PICK g \in Goal : Going!Does(a, [Going!Free EXCEPT !.op = "goal", !.goal = g])
    BY <1>4, Zenon DEF Going!ExecuteGoal
  <2>3. FALSE \in BOOLEAN
    BY Zenon
  <2>4. /\ [Going!Free EXCEPT !.op = "goal", !.goal = g] \in Doings
        /\ [Going!Free EXCEPT !.op = "goal", !.goal = g].op = "goal"
    BY <2>3, NextDoings, Zenon
  <2> HIDE DEF Going!Does
  <2> QED  BY <2>1, <2>2, <2>4, GoesTyped DEF DayOps
<1>5. CASE Going!StartZeroTouch(a)
  <2>1. RecordsTyped' /\ UNCHANGED week /\ Going!Asks(a)
    BY <1>5, WeekIsAsked DEF Going!StartZeroTouch, RecordsTyped
  <2>2. CASE UNCHANGED doing
    BY <2>1, <2>2, StaysTyped
  <2>3. ASSUME NEW g \in Goal, Going!Does(a, [Going!Free EXCEPT !.op = "ready", !.zero = TRUE, !.goal = g])
        PROVE  GoingTypes'
    <3>1. /\ [Going!Free EXCEPT !.op = "ready", !.zero = TRUE, !.goal = g] \in Doings
          /\ [Going!Free EXCEPT !.op = "ready", !.zero = TRUE, !.goal = g].op = "ready"
      BY NextDoings, Zenon
    <3> HIDE DEF Going!Does
    <3> QED  BY <2>1, <2>3, <3>1, GoesTyped DEF DayOps
  <2> QED  BY <1>5, <2>2, <2>3, Zenon DEF Going!StartZeroTouch
<1>6. CASE Going!Readiness(a)
  <2>1. RecordsTyped' /\ UNCHANGED week /\ Going!Answers
    BY <1>6, WeekIsAsked DEF Going!Readiness, RecordsTyped, Going!Closes
  <2>2. CASE Going!Does(a, Going!Free)
    BY <2>1, <2>2, FreeIsADoing, GoesTyped DEF DayOps
  <2>3. ASSUME NEW o \in {"experiment", "goal"}, Going!Does(a, [doing[a] EXCEPT !.op = o])
        PROVE  GoingTypes'
    <3>0. doing[a] \in Doings /\ o \in Ops
      BY WeekIsAsked DEF Ops
    <3>1. [doing[a] EXCEPT !.op = o] \in Doings /\ [doing[a] EXCEPT !.op = o].op = o
      BY <3>0, DoingKept, Zenon
    <3> HIDE DEF Going!Does
    <3> QED  BY <2>1, <2>3, <3>1, GoesTyped DEF DayOps
  <2>4. (IF doing[a].goal = "none" THEN "experiment" ELSE "goal") \in {"experiment", "goal"}
    OBVIOUS
  <2> QED  BY <1>6, <2>2, <2>3, <2>4, Zenon DEF Going!Readiness
<1>7. CASE Going!GoalExperiment(a)
  <2>1. goals' \in [Goal -> {"absent", "PROPOSED", "REJECTED", "EXECUTED"}]
    BY <1>7, WeekIsAsked DEF Going!GoalExperiment, RecordsTyped
  <2>2. RecordsTyped'
    BY <1>7, <2>1, WeekIsAsked DEF Going!GoalExperiment, Going!Closes, RecordsTyped
  <2>3. UNCHANGED week /\ Going!Answers /\ Going!Does(a, Going!Free)
    BY <1>7 DEF Going!GoalExperiment
  <2> QED  BY <2>2, <2>3, FreeIsADoing, GoesTyped DEF DayOps
<1> QED  BY <1>1, <1>2, <1>3, <1>4, <1>5, <1>6, <1>7

LEMMA ContinueTyped ==
  ASSUME GoingTypes, NEW a \in Actor, Going!Continue(a)
  PROVE  GoingTypes'
<1>0. Going!Asks(a)
  BY DEF Going!Continue
<1>1. PICK zero \in BOOLEAN :
        CASE Going!NextAction(experiment) = "RUN_WEEK1_DAY" -> Going!BeginsWeek1Day(a, Going!Week1NextDay, zero)
         [] Going!NextAction(experiment) = "RUN_TRUSTED_EXPERIMENT" ->
              /\ Going!Does(a, [Going!Free EXCEPT !.op = "ready", !.zero = zero]) /\ UNCHANGED Going!records
         [] Going!NextAction(experiment) = "COMPLETE_VERIFIED_WORK" ->
              /\ candidate' \in IF candidate = "ready" THEN {"done", "stuck"} ELSE {"stuck"}
              /\ Going!Closes(zero, IF candidate' = "done" THEN "COMPLETE" ELSE "ATTENTION")
              /\ UNCHANGED <<week, experiment, goals, doing>>
         [] OTHER -> /\ Going!Closes(zero, "ATTENTION")
                     /\ UNCHANGED <<week, experiment, goals, candidate, doing>>
  BY Zenon DEF Going!Continue
<1>2. CASE Going!NextAction(experiment) = "RUN_WEEK1_DAY"
  <2>1. Going!BeginsWeek1Day(a, Going!Week1NextDay, zero)
    BY <1>1, <1>2
  <2>2. Going!Week1NextDay # 0
    <3>1. Going!Week1NeedsPerson => week[Len(week)].status # "RUN_WEEK1_DAY"
      <4>1. Going!Week1NeedsPerson => week[Len(week)].status \in Going!Attention
        BY DEF Going!Week1NeedsPerson
      <4> QED  BY <4>1 DEF Going!Attention
    <3> QED  BY <1>2, <3>1 DEF Going!NextAction
  <2> QED  BY <1>0, <2>1, <2>2, NextDayIsADay, WeekDayTyped
<1>3. CASE Going!NextAction(experiment) = "RUN_TRUSTED_EXPERIMENT"
  <2>1. /\ Going!Does(a, [Going!Free EXCEPT !.op = "ready", !.zero = zero])
        /\ UNCHANGED Going!records
    <3> HIDE DEF Going!Does, Going!records
    <3> QED  BY <1>1, <1>3
  <2>2. UNCHANGED week /\ RecordsTyped'
    BY <2>1, WeekIsAsked DEF Going!records, RecordsTyped
  <2> DEFINE r1 == [Going!Free EXCEPT !.op = "ready"]
             r2 == [r1 EXCEPT !.zero = zero]
  <2>3. r1 \in Doings /\ r1.op = "ready"
    BY FreeIsADoing, DoingKept DEF Ops
  <2>4. Going!Does(a, r2)
    BY <2>1, Zenon
  <2> HIDE DEF r1
  <2>5. r2 \in Doings /\ r2.op = "ready"
    BY <2>3, DoingKept, Zenon
  <2> HIDE DEF r2, Going!Does
  <2> QED  BY <1>0, <2>2, <2>4, <2>5, GoesTyped DEF DayOps
<1>4. CASE /\ Going!NextAction(experiment) # "RUN_WEEK1_DAY"
           /\ Going!NextAction(experiment) # "RUN_TRUSTED_EXPERIMENT"
  <2>1. UNCHANGED <<week, experiment, goals, doing>>
    BY <1>1, <1>4
  <2>2. candidate' \in {"done", "stuck", candidate}
    BY <1>1, <1>4
  <2>3. zeroTouch' \in {"COMPLETE", "ATTENTION", zeroTouch}
    <3>1. Going!Closes(zero, "COMPLETE") \/ Going!Closes(zero, "ATTENTION")
      <4> HIDE DEF Going!Closes
      <4> QED  BY <1>1, <1>4
    <3> QED  BY <3>1 DEF Going!Closes
  <2>4. RecordsTyped'
    BY <2>1, <2>2, <2>3, WeekIsAsked DEF RecordsTyped
  <2> QED  BY <1>0, <2>1, <2>4, StaysTyped
<1> QED  BY <1>2, <1>3, <1>4

LEMMA GoingTypesStep ==
  ASSUME GoingTypes, Began, [Going!Next]_Going!continuationVars
  PROVE  GoingTypes'
<1>1. CASE UNCHANGED Going!continuationVars
  <2>1. UNCHANGED <<week1Enabled, week, experiment, goals, zeroTouch, candidate, doing, asked, reboots>>
    BY <1>1 DEF Going!continuationVars
  <2> QED  BY <2>1, Zenon DEF GoingTypes, GoingTyped, RecordsTyped, Enough, OnDays
<1>2. CASE Going!WorkVerified
  <2>1. RecordsTyped' /\ UNCHANGED <<week1Enabled, week, doing, reboots>>
    BY <1>2, WeekIsAsked DEF Going!WorkVerified, RecordsTyped
  <2>2. asked' \in 0..MaxSteps /\ asked < asked'
    BY <1>2, WeekIsAsked, ActorsAreFinite DEF Going!WorkVerified
  <2>3. OnDays' = OnDays
    BY <2>1, Zenon DEF OnDays
  <2>4. Enough'
    <3>1. Cardinality(OnDays) \in Nat
      BY FS_Subset, FS_CardinalityType, ActorsAreFinite DEF OnDays
    <3> QED  BY <2>1, <2>2, <2>3, <3>1, WeekIsAsked DEF Enough
  <2> QED  BY <2>1, <2>2, <2>4, Zenon DEF GoingTypes, GoingTyped
<1>3. CASE Going!Restart
  <2>1. /\ UNCHANGED <<week, asked, experiment, goals, zeroTouch, candidate>> /\ reboots' = reboots + 1
        /\ reboots < MaxReboots /\ doing' = [a \in Actor |-> Going!Free]
    BY <1>3 DEF Going!Restart, Going!records
  <2>2. doing' \in [Actor -> Doings] /\ OnDays' = {}
    BY <2>1, FreeIsADoing DEF OnDays, DayOps
  <2>3. Cardinality(OnDays') = 0
    BY <2>2, FS_EmptySet
  <2>4. Enough'
    BY <2>1, <2>3, WeekIsAsked DEF Enough
  <2>5. reboots' \in 0..MaxReboots
    BY <2>1, WeekIsAsked, ControlCenterAssumption DEF Going!ContinuationAssumption
  <2>6. week1Enabled' \in BOOLEAN
    BY <1>3, Zenon DEF Going!Restart
  <2>7. RecordsTyped' /\ week' \in Seq(Weeks) /\ asked' \in 0..MaxSteps
    BY <2>1, WeekIsAsked DEF RecordsTyped
  <2> QED  BY <2>2, <2>4, <2>5, <2>6, <2>7, Zenon DEF GoingTypes, GoingTyped
<1>4. ASSUME NEW a \in Actor, Going!RunWeek1Day(a) PROVE GoingTypes'
  <2>1. PICK day \in Going!Day : Going!Asks(a) /\ Going!BeginsWeek1Day(a, day, FALSE)
    BY <1>4, Zenon DEF Going!RunWeek1Day
  <2>2. FALSE \in BOOLEAN
    BY Zenon
  <2> QED  BY <2>1, <2>2, WeekDayTyped, Zenon
<1>5. ASSUME NEW a \in Actor, Going!RunsProgram(a) \/ Going!RecordsDay(a) PROVE GoingTypes'
  <2>1. /\ doing[a].op = "program" \/ doing[a].op = "record"
        /\ doing[a].op \in DayOps => Checked(doing[a].entry)
        /\ doing[a].op = "record" => Recordable(doing[a].entry)
    BY <1>5 DEF Began, Carries, Going!RunsProgram, Going!RecordsDay
  <2>2. CASE Going!RunsProgram(a)
    BY <2>1, <2>2, DaysTyped DEF DayOps
  <2>3. CASE Going!RecordsDay(a)
    <3>1. doing[a].op = "record"
      BY <2>3 DEF Going!RecordsDay
    <3> QED  BY <2>1, <2>3, <3>1, RecordTyped DEF DayOps
  <2> QED  BY <1>5, <2>2, <2>3
<1> QED
  BY <1>1, <1>2, <1>3, <1>4, <1>5, DaysTyped, ThreadsTyped, ContinueTyped DEF Going!Next

(* Every variable of the continuation keeps its type: there are at most as many *)
(* Week 1 records as there were requests, the Days under way counted, because   *)
(* one request adds one record at most.                                         *)
THEOREM ContinuationTypes == Spec => []Going!TypeOK
<1>1. Init => GoingTypes
  BY GoingPart, GoingTypesBegin
<1>2. GoingTypes /\ Weekly /\ [Next]_allVars => GoingTypes'
  BY GoingPart, GoingTypesStep DEF Weekly
<1>3. GoingTypes => Going!TypeOK
  BY Zenon DEF GoingTypes, GoingTyped, RecordsTyped, Going!TypeOK, Doings, Drafts, Ops, Weeks
<1> QED  BY <1>1, <1>2, <1>3, GoingInvariant, PTL DEF Spec
-----------------------------------------------------------------------------
(* The completion of verified work.                                             *)
Stages == {"idle", "validate", "stage", "commit", "head", "push", "base"}
Completings == [at : Stages, base : Nat, sha : Nat]
Entries == [status : Git!Statuses, sha : Nat, fixture : {TRUE, FALSE}]

Stored ==
  /\ branch \in Seq(Git!Content) /\ remote \in Nat /\ index \in Git!Content
  /\ worktree \in Git!Content /\ base \in Nat /\ touches \in Nat
  /\ completing \in [Requester -> Completings] /\ results \in Seq(Entries)

(* What a request that has committed knows of the branch and of origin.         *)
OnBranch ==
  /\ remote <= Len(branch)
  /\ \A c \in Requester :
       /\ completing[c].at = "head" => Len(branch) >= 1
       /\ completing[c].at \in {"push", "base"} => completing[c].sha \in 1..Len(branch)
       /\ completing[c].at = "base" => completing[c].sha <= remote

OnOrigin ==
  \A r \in 1..Len(results) :
    results[r].fixture = FALSE /\ results[r].status \in {"PUSHED", "PR_READY"} =>
      results[r].sha \in 1..remote

(* While nobody else touches it the verified work is either all in the worktree *)
(* or all in the one commit.                                                    *)
InOnePlace ==
  touches = 0 =>
    \/ branch = <<>> /\ worktree = "verified" /\ index \in {"none", "verified"}
    \/ Len(branch) = 1 /\ worktree = "none" /\ index = "none"

Past(c) == completing[c].at \in {"head", "push", "base"}

Reported ==
  {r \in 1..Len(results) : results[r].fixture = FALSE /\ results[r].status # "BLOCKED"}

(* The commit is the claim of one request: it holds it until it reports it.     *)
OneClaim ==
  touches = 0 =>
    /\ branch = <<>> => Reported = {} /\ \A c \in Requester : ~Past(c)
    /\ \A c, d \in Requester : Past(c) /\ Past(d) => c = d
    /\ Reported # {} => \A c \in Requester : ~Past(c)
    /\ \A r, s \in Reported : r = s

GitInv == Stored /\ OnBranch /\ OnOrigin /\ InOnePlace /\ OneClaim

LEMMA GitBegins == Git!Init => GitInv
<1> SUFFICES ASSUME Git!Init PROVE GitInv
  OBVIOUS
<1>1. /\ branch = <<>> /\ remote = 0 /\ index = "none" /\ worktree = "verified" /\ base = 0
      /\ completing = [c \in Requester |-> Git!Resting] /\ results = <<>> /\ touches = 0
  BY DEF Git!Init
<1>2. Len(branch) = 0 /\ Len(results) = 0
  BY <1>1
<1>3. Git!Resting \in Completings /\ Git!Resting.at = "idle"
  BY DEF Git!Resting, Completings, Stages
<1>4. Stored
  BY <1>1, <1>3 DEF Stored, Git!Content
<1>5. \A c \in Requester : completing[c].at = "idle"
  BY <1>1, <1>3
<1> QED
  BY <1>1, <1>2, <1>4, <1>5 DEF GitInv, OnBranch, OnOrigin, InOnePlace, OneClaim, Past, Reported

(* A result that is appended: what was reported before, and perhaps this one.   *)
LEMMA ResultAdded ==
  ASSUME Stored, NEW new \in Entries, results' = Append(results, new)
  PROVE  /\ results' \in Seq(Entries) /\ Len(results') = Len(results) + 1
         /\ results'[Len(results) + 1] = new
         /\ \A r \in 1..Len(results) : results'[r] = results[r]
         /\ \A r \in 1..Len(results') : r \in 1..Len(results) \/ r = Len(results) + 1
         /\ Reported' = IF new.fixture = FALSE /\ new.status # "BLOCKED"
                        THEN Reported \cup {Len(results) + 1} ELSE Reported
<1>1. Len(results) \in Nat /\ results \in Seq(Entries)
  BY LenProperties DEF Stored
<1>2. /\ results' \in Seq(Entries) /\ Len(results') = Len(results) + 1
      /\ results'[Len(results) + 1] = new
      /\ \A r \in 1..Len(results) : results'[r] = results[r]
  BY <1>1, AppendProperties
<1>3. \A r \in 1..Len(results') : r \in 1..Len(results) \/ r = Len(results) + 1
  BY <1>1, <1>2
<1>4. ASSUME NEW r
      PROVE  r \in Reported' <=> \/ r \in Reported
                                 \/ /\ new.fixture = FALSE /\ new.status # "BLOCKED"
                                    /\ r = Len(results) + 1
  BY <1>1, <1>2, <1>3 DEF Reported
<1> QED  BY <1>2, <1>3, <1>4

LEMMA ThreadIs ==
  ASSUME Stored, NEW c \in Requester, NEW next \in Completings,
         completing' = [completing EXCEPT ![c] = next]
  PROVE  /\ completing' \in [Requester -> Completings] /\ completing'[c] = next
         /\ \A d \in Requester \ {c} : completing'[d] = completing[d]
  BY DEF Stored

LEMMA RestingIs == Git!Resting \in Completings /\ Git!Resting.at = "idle"
  BY DEF Git!Resting, Completings, Stages

(* The end of a request: its result is appended, its thread rests.              *)
LEMMA RecordIs ==
  ASSUME Stored, NEW c \in Requester, NEW status \in Git!Statuses, Git!Record(c, status)
  PROVE  /\ completing' \in [Requester -> Completings] /\ completing'[c].at = "idle"
         /\ \A d \in Requester \ {c} : completing'[d] = completing[d]
         /\ results' \in Seq(Entries)
         /\ Reported' = IF status # "BLOCKED" THEN Reported \cup {Len(results) + 1} ELSE Reported
         /\ (/\ OnOrigin /\ remote' \in Nat /\ remote <= remote'
             /\ status \in {"PUSHED", "PR_READY"} => completing[c].sha \in 1..remote')
              => OnOrigin'
<1> DEFINE new == [status |-> status, sha |-> completing[c].sha, fixture |-> FALSE]
<1>1. completing' = [completing EXCEPT ![c] = Git!Resting] /\ results' = Append(results, new)
  BY DEF Git!Record
<1>2. completing[c].sha \in Nat
  BY DEF Stored, Completings
<1>3. new \in Entries /\ new.status = status /\ new.sha = completing[c].sha /\ new.fixture = FALSE
  BY <1>2 DEF Entries
<1> HIDE DEF new
<1>4. /\ completing' \in [Requester -> Completings] /\ completing'[c].at = "idle"
      /\ \A d \in Requester \ {c} : completing'[d] = completing[d]
  BY <1>1, RestingIs, ThreadIs
<1>5. /\ results' \in Seq(Entries) /\ Len(results') = Len(results) + 1
      /\ results'[Len(results) + 1] = new
      /\ \A r \in 1..Len(results) : results'[r] = results[r]
      /\ \A r \in 1..Len(results') : r \in 1..Len(results) \/ r = Len(results) + 1
  BY <1>1, <1>3, ResultAdded
<1>6. Reported' = IF status # "BLOCKED" THEN Reported \cup {Len(results) + 1} ELSE Reported
  BY <1>1, <1>3, ResultAdded
<1>7. ASSUME OnOrigin, remote' \in Nat, remote <= remote',
             status \in {"PUSHED", "PR_READY"} => completing[c].sha \in 1..remote'
      PROVE  OnOrigin'
  <2> SUFFICES ASSUME NEW r \in 1..Len(results'), results'[r].fixture = FALSE,
                      results'[r].status \in {"PUSHED", "PR_READY"}
               PROVE  results'[r].sha \in 1..remote'
    BY DEF OnOrigin
  <2>1. CASE r \in 1..Len(results)
    <3>1. results[r].sha \in 1..remote
      BY <1>5, <1>7, <2>1 DEF OnOrigin
    <3> QED  BY <1>5, <1>7, <2>1, <3>1 DEF Stored
  <2>2. CASE r = Len(results) + 1
    BY <1>3, <1>5, <1>7, <2>2
  <2> QED  BY <1>5, <2>1, <2>2
<1> QED  BY <1>4, <1>5, <1>6, <1>7

(* The claim, over a step of a thread that does not get it or give it up.       *)
LEMMA ClaimKept ==
  ASSUME GitInv, NEW c \in Requester, UNCHANGED <<branch, touches>>, Reported' = Reported,
         \A d \in Requester \ {c} : completing'[d] = completing[d],
         completing'[c].at \in {"head", "push", "base"} => Past(c)
  PROVE  OneClaim'
<1>1. \A d \in Requester : Past(d)' => Past(d)
  BY DEF Past
<1> QED  BY <1>1 DEF GitInv, OneClaim

(* The claim is reported.                                                       *)
LEMMA ClaimReported ==
  ASSUME GitInv, NEW c \in Requester, UNCHANGED <<branch, touches>>, Past(c),
         Reported' = Reported \cup {Len(results) + 1},
         \A d \in Requester \ {c} : completing'[d] = completing[d],
         completing'[c].at = "idle"
  PROVE  OneClaim'
<1>1. \A d \in Requester : Past(d)' => Past(d) /\ d # c
  BY DEF Past
<1> QED  BY <1>1 DEF GitInv, OneClaim

(* What is stored, over a step of a thread that leaves the repository alone.    *)
LEMMA RepositoryKept ==
  ASSUME GitInv, UNCHANGED <<branch, remote, index, worktree, base, touches>>,
         completing' \in [Requester -> Completings], results' \in Seq(Entries)
  PROVE  Stored' /\ InOnePlace'
  BY DEF GitInv, Stored, InOnePlace

(* A request that ends without a claim.                                         *)
LEMMA Blocked ==
  ASSUME GitInv, NEW c \in Requester, Git!Record(c, "BLOCKED"),
         UNCHANGED <<branch, remote, index, worktree, base, touches>>
  PROVE  GitInv'
<1>1. "BLOCKED" \in Git!Statuses /\ Stored /\ OnOrigin /\ remote \in Nat /\ remote <= remote
  BY DEF Git!Statuses, GitInv, Stored
<1>2. /\ completing' \in [Requester -> Completings] /\ completing'[c].at = "idle"
      /\ \A d \in Requester \ {c} : completing'[d] = completing[d]
      /\ results' \in Seq(Entries) /\ Reported' = Reported
  BY <1>1, RecordIs
<1>3. OnOrigin'
  <2>1. remote' \in Nat /\ remote <= remote' /\ "BLOCKED" \notin {"PUSHED", "PR_READY"}
    BY <1>1
  <2> QED  BY <1>1, <2>1, RecordIs
<1>4. Stored' /\ InOnePlace'
  BY <1>2, RepositoryKept
<1>5. OnBranch'
  BY <1>2 DEF GitInv, OnBranch
<1>6. OneClaim'
  BY <1>2, ClaimKept
<1> QED  BY <1>3, <1>4, <1>5, <1>6 DEF GitInv

(* A request that reports its claim.                                            *)
LEMMA Reports ==
  ASSUME GitInv, NEW c \in Requester, Past(c), NEW status \in Git!Statuses \ {"BLOCKED"},
         Git!Record(c, status), UNCHANGED <<branch, remote, index, worktree, base, touches>>,
         status \in {"PUSHED", "PR_READY"} => completing[c].sha \in 1..remote
  PROVE  GitInv'
<1>1. Stored /\ OnOrigin /\ remote \in Nat /\ remote <= remote
  BY DEF GitInv, Stored
<1>2. /\ completing' \in [Requester -> Completings] /\ completing'[c].at = "idle"
      /\ \A d \in Requester \ {c} : completing'[d] = completing[d]
      /\ results' \in Seq(Entries) /\ Reported' = Reported \cup {Len(results) + 1}
  BY <1>1, RecordIs
<1>3. OnOrigin'
  <2>1. /\ remote' \in Nat /\ remote <= remote'
        /\ status \in {"PUSHED", "PR_READY"} => completing[c].sha \in 1..remote'
    BY <1>1
  <2> QED  BY <1>1, <2>1, RecordIs
<1>4. Stored' /\ InOnePlace'
  BY <1>2, RepositoryKept
<1>5. OnBranch'
  BY <1>2 DEF GitInv, OnBranch
<1>6. OneClaim'
  BY <1>2, ClaimReported
<1> QED  BY <1>3, <1>4, <1>5, <1>6 DEF GitInv

(* A request that goes on without having changed anything.                      *)
LEMMA MovesOn ==
  ASSUME GitInv, NEW c \in Requester, NEW next \in Completings,
         completing' = [completing EXCEPT ![c] = next],
         UNCHANGED <<branch, remote, index, worktree, base, touches, results>>,
         next.at \in {"push", "base"} => Past(c) /\ next.sha \in 1..Len(branch),
         next.at # "head", next.at # "base"
  PROVE  GitInv'
<1>1. /\ completing' \in [Requester -> Completings] /\ completing'[c] = next
      /\ \A d \in Requester \ {c} : completing'[d] = completing[d]
  BY ThreadIs DEF GitInv
<1>2. Reported' = Reported /\ OnOrigin'
  BY DEF GitInv, Reported, OnOrigin
<1>3. results' \in Seq(Entries)
  BY DEF GitInv, Stored
<1>4. Stored' /\ InOnePlace'
  BY <1>1, <1>3, RepositoryKept
<1>5. OnBranch'
  BY <1>1 DEF GitInv, OnBranch
<1>6. completing'[c].at \in {"head", "push", "base"} => Past(c)
  BY <1>1
<1>7. OneClaim'
  BY <1>1, <1>2, <1>6, ClaimKept
<1> QED  BY <1>2, <1>4, <1>5, <1>7 DEF GitInv

LEMMA RequestSteps ==
  ASSUME GitInv, NEW c \in Requester, Git!Request(c)
  PROVE  GitInv'
<1> DEFINE next == [Git!Resting EXCEPT !.at = "validate"]
<1>1. next \in Completings /\ next.at = "validate"
  BY DEF Git!Resting, Completings, Stages
<1>2. /\ completing' = [completing EXCEPT ![c] = next]
      /\ UNCHANGED <<branch, remote, index, worktree, base, touches, results>>
  BY DEF Git!Request, Git!Continues, Git!repository
<1> HIDE DEF next
<1> QED  BY <1>1, <1>2, MovesOn

LEMMA ValidatesSteps ==
  ASSUME GitInv, NEW c \in Requester, Git!Validates(c)
  PROVE  GitInv'
<1>1. UNCHANGED <<branch, remote, index, worktree, base, touches>>
  BY DEF Git!Validates, Git!repository, Git!bounds
<1>2. CASE Git!Record(c, "BLOCKED")
  BY <1>1, <1>2, Blocked
<1>3. CASE Git!Continues(c, [completing[c] EXCEPT !.at = "stage", !.base = base])
  <2> DEFINE next == [completing[c] EXCEPT !.at = "stage", !.base = base]
  <2>1. next \in Completings /\ next.at = "stage"
    BY DEF GitInv, Stored, Completings, Stages
  <2>2. completing' = [completing EXCEPT ![c] = next] /\ UNCHANGED results
    BY <1>3 DEF Git!Continues
  <2> HIDE DEF next
  <2> QED  BY <1>1, <2>1, <2>2, MovesOn
<1> QED  BY <1>2, <1>3 DEF Git!Validates

LEMMA ReadsHeadSteps ==
  ASSUME GitInv, NEW c \in Requester, Git!ReadsHead(c)
  PROVE  GitInv'
<1>1. completing[c].at = "head" /\ UNCHANGED <<branch, remote, index, worktree, base, touches>>
  BY DEF Git!ReadsHead, Git!repository, Git!bounds
<1>2. CASE Git!Record(c, "BLOCKED")
  BY <1>1, <1>2, Blocked
<1>3. CASE Git!Continues(c, [completing[c] EXCEPT !.at = "push", !.sha = Len(branch)])
  <2> DEFINE next == [completing[c] EXCEPT !.at = "push", !.sha = Len(branch)]
  <2>1. Len(branch) \in Nat /\ Len(branch) >= 1 /\ Past(c)
    BY <1>1, LenProperties DEF GitInv, Stored, OnBranch, Past
  <2>2. next \in Completings /\ next.at = "push" /\ next.sha = Len(branch)
    BY <2>1 DEF GitInv, Stored, Completings, Stages
  <2>3. completing' = [completing EXCEPT ![c] = next] /\ UNCHANGED results
    BY <1>3 DEF Git!Continues
  <2> HIDE DEF next
  <2>4. next.sha \in 1..Len(branch)
    BY <2>1, <2>2
  <2> QED  BY <1>1, <2>1, <2>2, <2>3, <2>4, MovesOn
<1> QED  BY <1>2, <1>3 DEF Git!ReadsHead

LEMMA PreparesSteps ==
  ASSUME GitInv, NEW c \in Requester, Git!Prepares(c)
  PROVE  GitInv'
<1>1. completing[c].at = "base" /\ UNCHANGED <<branch, remote, index, worktree, base, touches>>
  BY DEF Git!Prepares, Git!repository, Git!bounds
<1>2. PICK status \in {"PR_READY", "PUSHED"} : Git!Record(c, status)
  BY DEF Git!Prepares
<1>3. completing[c].sha \in 1..remote /\ Past(c)
  <2>1. completing[c].sha \in 1..Len(branch) /\ completing[c].sha <= remote /\ remote \in Nat
    BY <1>1 DEF GitInv, Stored, OnBranch
  <2>2. Len(branch) \in Nat
    BY LenProperties DEF GitInv, Stored
  <2> QED  BY <1>1, <2>1, <2>2 DEF Past
<1> QED  BY <1>1, <1>2, <1>3, Reports DEF Git!Statuses

(* The branch grew, or origin: what a request knew of them still holds.         *)
LEMMA BranchGrows ==
  ASSUME GitInv, NEW c \in Requester, Len(branch') \in Nat, Len(branch) <= Len(branch'),
         remote' \in Nat, remote <= remote', remote' <= Len(branch'),
         \A d \in Requester \ {c} : completing'[d] = completing[d],
         completing'[c].at = "head" => Len(branch') >= 1,
         completing'[c].at \in {"push", "base"} => completing'[c].sha \in 1..Len(branch'),
         completing'[c].at = "base" => completing'[c].sha <= remote',
         completing' \in [Requester -> Completings]
  PROVE  OnBranch'
<1>1. Len(branch) \in Nat /\ remote \in Nat
  BY LenProperties DEF GitInv, Stored
<1>2. \A d \in Requester : completing[d].sha \in Nat
  BY DEF GitInv, Stored, Completings
<1>3. ASSUME NEW d \in Requester
      PROVE  /\ completing'[d].at = "head" => Len(branch') >= 1
             /\ completing'[d].at \in {"push", "base"} => completing'[d].sha \in 1..Len(branch')
             /\ completing'[d].at = "base" => completing'[d].sha <= remote'
  <2>1. CASE d = c
    BY <2>1
  <2>2. CASE d # c
    <3>1. completing'[d] = completing[d]
      BY <2>2
    <3>2. /\ completing[d].at = "head" => Len(branch) >= 1
          /\ completing[d].at \in {"push", "base"} => completing[d].sha \in 1..Len(branch)
          /\ completing[d].at = "base" => completing[d].sha <= remote
      BY DEF GitInv, OnBranch
    <3> QED  BY <1>1, <1>2, <3>1, <3>2
  <2> QED  BY <2>1, <2>2
<1> QED  BY <1>3 DEF OnBranch

LEMMA StagesSteps ==
  ASSUME GitInv, NEW c \in Requester, Git!Stages(c)
  PROVE  GitInv'
<1>1. completing[c].at = "stage" /\ UNCHANGED <<branch, remote, worktree, base, touches>>
  BY DEF Git!Stages, Git!bounds
<1>2. CASE Git!Record(c, "BLOCKED") /\ UNCHANGED index
  BY <1>1, <1>2, Blocked
<1>3. CASE /\ index' = IF worktree \in {"verified", "edited"} THEN worktree ELSE index
           /\ \/ Git!Record(c, "BLOCKED")
              \/ Git!Continues(c, [completing[c] EXCEPT !.at = "commit"])
  <2>1. Stored /\ index' \in Git!Content /\ "BLOCKED" \in Git!Statuses
    BY <1>3 DEF GitInv, Stored, Git!Statuses
  <2>2. InOnePlace'
    BY <1>1, <1>3 DEF GitInv, InOnePlace
  <2>3. /\ completing' \in [Requester -> Completings] /\ completing'[c].at \in {"idle", "commit"}
        /\ \A d \in Requester \ {c} : completing'[d] = completing[d]
        /\ results' \in Seq(Entries) /\ Reported' = Reported /\ OnOrigin'
    <3>1. CASE Git!Record(c, "BLOCKED")
      <4>1. OnOrigin /\ remote' \in Nat /\ remote <= remote' /\ "BLOCKED" \notin {"PUSHED", "PR_READY"}
        BY <1>1 DEF GitInv, Stored
      <4> QED  BY <2>1, <3>1, <4>1, RecordIs
    <3>2. CASE Git!Continues(c, [completing[c] EXCEPT !.at = "commit"])
      <4> DEFINE next == [completing[c] EXCEPT !.at = "commit"]
      <4>1. next \in Completings /\ next.at = "commit"
        BY <2>1 DEF Stored, Completings, Stages
      <4>2. completing' = [completing EXCEPT ![c] = next] /\ UNCHANGED results
        BY <3>2 DEF Git!Continues
      <4>3. results' \in Seq(Entries) /\ Reported' = Reported /\ OnOrigin'
        BY <1>1, <2>1, <4>2 DEF GitInv, Stored, OnOrigin, Reported
      <4> HIDE DEF next
      <4> QED  BY <2>1, <4>1, <4>2, <4>3, ThreadIs
    <3> QED  BY <1>3, <3>1, <3>2
  <2>4. Stored'
    BY <1>1, <2>1, <2>3 DEF Stored
  <2>5. OnBranch'
    <3>1. Len(branch) \in Nat
      BY LenProperties DEF GitInv, Stored
    <3> QED  BY <1>1, <2>3, <3>1 DEF GitInv, OnBranch
  <2>6. completing'[c].at \notin {"head", "push", "base"}
    BY <2>3
  <2>7. OneClaim'
    BY <1>1, <2>3, <2>6, ClaimKept
  <2> QED  BY <2>2, <2>3, <2>4, <2>5, <2>7 DEF GitInv
<1> QED  BY <1>2, <1>3 DEF Git!Stages

LEMMA CommitsSteps ==
  ASSUME GitInv, NEW c \in Requester, Git!Commits(c)
  PROVE  GitInv'
<1>1. completing[c].at = "commit" /\ UNCHANGED <<remote, base, touches>>
  BY DEF Git!Commits, Git!bounds
<1>2. CASE Git!Record(c, "BLOCKED") /\ UNCHANGED <<branch, index, worktree>>
  BY <1>1, <1>2, Blocked
<1>3. CASE /\ index # "none" /\ branch' = Append(branch, index) /\ index' = "none"
           /\ worktree' = IF worktree = index THEN "none" ELSE worktree
           /\ \/ Git!Continues(c, [completing[c] EXCEPT !.at = "head"])
              \/ Git!Record(c, "BLOCKED")
  <2>1. Stored /\ "BLOCKED" \in Git!Statuses /\ Len(branch) \in Nat
    BY LenProperties DEF GitInv, Stored, Git!Statuses
  <2>2. branch' \in Seq(Git!Content) /\ Len(branch') = Len(branch) + 1
    BY <1>3, <2>1, AppendProperties DEF Stored
  <2>3. /\ completing' \in [Requester -> Completings] /\ completing'[c].at \in {"idle", "head"}
        /\ \A d \in Requester \ {c} : completing'[d] = completing[d]
        /\ results' \in Seq(Entries) /\ Reported' = Reported /\ OnOrigin'
    <3>1. CASE Git!Record(c, "BLOCKED")
      <4>1. OnOrigin /\ remote' \in Nat /\ remote <= remote' /\ "BLOCKED" \notin {"PUSHED", "PR_READY"}
        BY <1>1 DEF GitInv, Stored
      <4> QED  BY <2>1, <3>1, <4>1, RecordIs
    <3>2. CASE Git!Continues(c, [completing[c] EXCEPT !.at = "head"])
      <4> DEFINE next == [completing[c] EXCEPT !.at = "head"]
      <4>1. next \in Completings /\ next.at = "head"
        BY <2>1 DEF Stored, Completings, Stages
      <4>2. completing' = [completing EXCEPT ![c] = next] /\ UNCHANGED results
        BY <3>2 DEF Git!Continues
      <4>3. results' \in Seq(Entries) /\ Reported' = Reported /\ OnOrigin'
        BY <1>1, <2>1, <4>2 DEF GitInv, Stored, OnOrigin, Reported
      <4> HIDE DEF next
      <4> QED  BY <2>1, <4>1, <4>2, <4>3, ThreadIs
    <3> QED  BY <1>3, <3>1, <3>2
  <2>4. Stored'
    <3>1. index' \in Git!Content /\ worktree' \in Git!Content
      BY <1>3, <2>1 DEF Stored, Git!Content
    <3> QED  BY <1>1, <2>1, <2>2, <2>3, <3>1 DEF Stored
  <2>5. OnBranch'
    <3>1. remote \in Nat /\ remote <= Len(branch)
      BY DEF GitInv, Stored, OnBranch
    <3>2. /\ Len(branch') \in Nat /\ Len(branch) <= Len(branch') /\ Len(branch') >= 1
          /\ remote' \in Nat /\ remote <= remote' /\ remote' <= Len(branch')
      BY <1>1, <2>1, <2>2, <3>1
    <3> QED  BY <2>3, <3>2, BranchGrows
  <2>6. touches = 0 => branch = <<>> /\ worktree = index
    BY <1>3 DEF GitInv, InOnePlace
  <2>7. InOnePlace'
    <3>1. touches = 0 => Len(branch') = 1 /\ worktree' = "none" /\ index' = "none"
      <4>1. touches = 0 => Len(branch) = 0
        BY <2>6
      <4> QED  BY <1>3, <2>2, <2>6, <4>1
    <3> QED  BY <1>1, <3>1 DEF InOnePlace
  <2>8. OneClaim'
    <3> SUFFICES ASSUME touches = 0
                 PROVE  /\ branch' # <<>> /\ Reported' = {}
                        /\ \A d, e \in Requester : Past(d)' /\ Past(e)' => d = e
      BY <1>1 DEF OneClaim
    <3>1. Reported = {} /\ \A d \in Requester : ~Past(d)
      BY <2>6 DEF GitInv, OneClaim
    <3>2. \A d \in Requester : Past(d)' => d = c
      BY <2>3, <3>1 DEF Past
    <3>3. branch' # <<>>
      BY <2>1, <2>2
    <3> QED  BY <2>3, <3>1, <3>2, <3>3
  <2> QED  BY <2>3, <2>4, <2>5, <2>7, <2>8 DEF GitInv
<1> QED  BY <1>2, <1>3 DEF Git!Commits

LEMMA PushesSteps ==
  ASSUME GitInv, NEW c \in Requester, Git!Pushes(c)
  PROVE  GitInv'
<1>1. completing[c].at = "push" /\ UNCHANGED <<branch, index, worktree, base, touches>>
  BY DEF Git!Pushes, Git!bounds
<1>2. Stored /\ Past(c) /\ "COMMITTED" \in Git!Statuses \ {"BLOCKED"}
  BY <1>1 DEF GitInv, Past, Git!Statuses
<1>3. CASE Git!Record(c, "COMMITTED") /\ UNCHANGED remote
  BY <1>1, <1>2, <1>3, Reports
<1>4. CASE /\ remote' = Git!Later(remote, Len(branch))
           /\ \/ Git!Continues(c, [completing[c] EXCEPT !.at = "base"])
              \/ Git!Record(c, "COMMITTED")
  <2>1. Len(branch) \in Nat /\ remote \in Nat /\ remote <= Len(branch) /\ completing[c].sha \in 1..Len(branch)
    BY <1>1, LenProperties DEF GitInv, Stored, OnBranch
  <2>2. remote' = Len(branch) /\ remote' \in Nat /\ remote <= remote'
    BY <1>4, <2>1 DEF Git!Later
  <2>3. CASE Git!Continues(c, [completing[c] EXCEPT !.at = "base"])
    <3> DEFINE next == [completing[c] EXCEPT !.at = "base"]
    <3>1. next \in Completings /\ next.at = "base" /\ next.sha = completing[c].sha
      BY <1>2 DEF Stored, Completings, Stages
    <3>2. completing' = [completing EXCEPT ![c] = next] /\ UNCHANGED results
      BY <2>3 DEF Git!Continues
    <3> HIDE DEF next
    <3>3. /\ completing' \in [Requester -> Completings] /\ completing'[c] = next
          /\ \A d \in Requester \ {c} : completing'[d] = completing[d]
      BY <1>2, <3>1, <3>2, ThreadIs
    <3>4. Stored'
      BY <1>1, <1>2, <2>2, <3>2, <3>3 DEF Stored
    <3>5. InOnePlace'
      BY <1>1 DEF GitInv, InOnePlace
    <3>6. OnBranch'
      BY <1>1, <2>1, <2>2, <3>1, <3>3, BranchGrows
    <3>7. OnOrigin'
      <4> SUFFICES ASSUME NEW r \in 1..Len(results), results[r].fixture = FALSE,
                          results[r].status \in {"PUSHED", "PR_READY"}
                   PROVE  results[r].sha \in 1..remote'
        BY <3>2 DEF OnOrigin
      <4>1. results[r].sha \in 1..remote
        BY DEF GitInv, OnOrigin
      <4> QED  BY <2>1, <2>2, <4>1
    <3>8. OneClaim'
      <4>1. Reported' = Reported
        BY <3>2 DEF Reported
      <4> QED  BY <1>1, <1>2, <3>3, <4>1, ClaimKept
    <3> QED  BY <3>4, <3>5, <3>6, <3>7, <3>8 DEF GitInv
  <2>4. CASE Git!Record(c, "COMMITTED")
    <3>1. OnOrigin /\ "COMMITTED" \notin {"PUSHED", "PR_READY"} /\ "COMMITTED" \in Git!Statuses
      BY DEF GitInv, Git!Statuses
    <3>2. /\ completing' \in [Requester -> Completings] /\ completing'[c].at = "idle"
          /\ \A d \in Requester \ {c} : completing'[d] = completing[d]
          /\ results' \in Seq(Entries) /\ Reported' = Reported \cup {Len(results) + 1}
      BY <1>2, <2>4, <3>1, RecordIs
    <3>3. OnOrigin'
      BY <1>2, <2>2, <2>4, <3>1, RecordIs
    <3>4. Stored'
      BY <1>1, <1>2, <2>2, <3>2 DEF Stored
    <3>5. InOnePlace'
      BY <1>1 DEF GitInv, InOnePlace
    <3>6. OnBranch'
      BY <1>1, <2>1, <2>2, <3>2, BranchGrows
    <3>7. OneClaim'
      BY <1>1, <1>2, <3>2, ClaimReported
    <3> QED  BY <3>3, <3>4, <3>5, <3>6, <3>7 DEF GitInv
  <2> QED  BY <1>4, <2>3, <2>4
<1> QED  BY <1>3, <1>4 DEF Git!Pushes

LEMMA ValidationSteps == GitInv /\ Git!ValidationRun => GitInv'
<1> SUFFICES ASSUME GitInv, Git!ValidationRun PROVE GitInv'
  OBVIOUS
<1>1. UNCHANGED <<branch, remote, index, worktree, base, completing, touches>>
  BY DEF Git!ValidationRun, Git!repository
<1>2. PICK status \in {"BLOCKED", "COMMITTED", "PR_READY"} :
        results' = Append(results, [status |-> status, sha |-> 0, fixture |-> TRUE])
  BY DEF Git!ValidationRun
<1> DEFINE new == [status |-> status, sha |-> 0, fixture |-> TRUE]
<1>3. new \in Entries /\ new.fixture = TRUE /\ results' = Append(results, new)
  BY <1>2 DEF Entries, Git!Statuses
<1> HIDE DEF new
<1>4. Stored
  BY DEF GitInv
<1>5. /\ results' \in Seq(Entries) /\ results'[Len(results) + 1] = new
      /\ \A r \in 1..Len(results) : results'[r] = results[r]
      /\ \A r \in 1..Len(results') : r \in 1..Len(results) \/ r = Len(results) + 1
  BY <1>3, <1>4, ResultAdded
<1>6. Reported' = Reported
  <2>1. ~(new.fixture = FALSE)
    BY <1>3
  <2> QED  BY <1>3, <1>4, <2>1, ResultAdded
<1>7. Stored' /\ InOnePlace'
  BY <1>1, <1>4, <1>5, RepositoryKept DEF Stored
<1>8. OnOrigin'
  BY <1>1, <1>3, <1>5 DEF GitInv, OnOrigin
<1>9. OnBranch'
  BY <1>1 DEF GitInv, OnBranch
<1>10. OneClaim'
  BY <1>1, <1>6 DEF GitInv, OneClaim, Past
<1> QED  BY <1>7, <1>8, <1>9, <1>10 DEF GitInv

(* Somebody else's change ends what is said of the untouched work.              *)
LEMMA TouchedSteps == GitInv /\ Git!Touched => GitInv'
<1> SUFFICES ASSUME GitInv, Git!Touched PROVE GitInv'
  OBVIOUS
<1>1. /\ UNCHANGED <<branch, remote, index, completing, results>> /\ touches' = touches + 1
      /\ worktree' \in {"edited", "other", worktree} /\ base' \in {base, base + 1}
  BY DEF Git!Touched
<1>2. Stored' /\ touches' # 0
  BY <1>1 DEF GitInv, Stored, Git!Content
<1>3. InOnePlace' /\ OneClaim'
  BY <1>2 DEF InOnePlace, OneClaim
<1>4. OnBranch' /\ OnOrigin'
  BY <1>1 DEF GitInv, OnBranch, OnOrigin
<1> QED  BY <1>2, <1>3, <1>4 DEF GitInv

LEMMA GitRestartSteps == GitInv /\ Git!Restart => GitInv'
<1> SUFFICES ASSUME GitInv, Git!Restart PROVE GitInv'
  OBVIOUS
<1>1. /\ UNCHANGED <<branch, remote, index, worktree, base, results, touches>>
      /\ completing' = [c \in Requester |-> Git!Resting]
  BY DEF Git!Restart, Git!repository
<1>2. completing' \in [Requester -> Completings] /\ \A c \in Requester : completing'[c].at = "idle"
  BY <1>1, RestingIs
<1>3. Stored' /\ InOnePlace'
  BY <1>1, <1>2, RepositoryKept DEF GitInv, Stored
<1>4. OnBranch' /\ OnOrigin'
  BY <1>1, <1>2 DEF GitInv, OnBranch, OnOrigin
<1>5. OneClaim'
  BY <1>1, <1>2 DEF GitInv, OneClaim, Past, Reported
<1> QED  BY <1>3, <1>4, <1>5 DEF GitInv

LEMMA GitSteps ==
  ASSUME GitInv, [Git!Next]_Git!completionVars
  PROVE  GitInv'
<1>1. CASE UNCHANGED Git!completionVars
  <2>1. UNCHANGED <<branch, remote, index, worktree, base, results, touches, completing>>
    BY <1>1 DEF Git!completionVars
  <2> QED
    BY <2>1 DEF GitInv, Stored, OnBranch, OnOrigin, InOnePlace, OneClaim, Past, Reported
<1> QED
  BY <1>1, RequestSteps, ValidatesSteps, StagesSteps, CommitsSteps, ReadsHeadSteps, PushesSteps,
     PreparesSteps, ValidationSteps, TouchedSteps, GitRestartSteps DEF Git!Next

(* The steps of the other components leave the repository as it is.             *)
LEMMA GitPart ==
  /\ Init => Git!Init
  /\ [Next]_allVars => [Git!Next]_Git!completionVars
BY DEF Init, Next, allVars, gitAll, Git!completionVars, RecoveryOnly, BusOnly, TaskOnly, GitOnly, GoingOnly,
       PlanOnly, ControlsOnly, PreflightOnly

LEMMA GitInvariant == Spec => []GitInv
<1>1. Init => GitInv
  BY GitPart, GitBegins
<1>2. GitInv /\ [Next]_allVars => GitInv'
  BY GitPart, GitSteps
<1> QED  BY <1>1, <1>2, PTL DEF Spec

(* Over concurrent requests, commands that time out with their work done and    *)
(* restarts: work nobody else touches is committed at most once and reported    *)
(* by at most one request, and what is reported as pushed is on origin.         *)
THEOREM CommittedOnce ==
  Spec => []CompletedOnce
<1>1. ASSUME GitInv PROVE CompletedOnce
  <2>1. \A r \in 1..Len(results) : results[r].fixture \in {TRUE, FALSE}
    <3>1. \A r \in 1..Len(results) : results[r] \in Entries
      BY <1>1, ElementOfSeq DEF GitInv, Stored
    <3>2. \A e \in Entries : e.fixture \in {TRUE, FALSE}
      BY Zenon DEF Entries
    <3> QED  BY <3>1, <3>2, Zenon
  <2>2. Git!Own = {r \in 1..Len(results) : results[r].fixture = FALSE}
    BY <2>1 DEF Git!Own
  <2>3. {r \in Git!Own : results[r].status # "BLOCKED"} = Reported
    BY <2>2 DEF Reported
  <2>4. ASSUME touches = 0 PROVE Len(branch) <= 1 /\ Git!Cardinality(Reported) <= 1
    <3>1. Len(branch) <= 1
      <4>1. branch = <<>> \/ Len(branch) = 1
        BY <1>1, <2>4 DEF GitInv, InOnePlace
      <4>2. Len(<<>>) = 0
        OBVIOUS
      <4> QED  BY <4>1, <4>2
    <3>2. \A r, s \in Reported : r = s
      BY <1>1, <2>4 DEF GitInv, OneClaim
    <3>3. Reported = {} \/ \E r : Reported = {r}
      BY <3>2
    <3>4. Cardinality(Reported) = 0 \/ Cardinality(Reported) = 1
      BY <3>3, FS_EmptySet, FS_Singleton
    <3>5. Git!Cardinality(Reported) = Cardinality(Reported)
      BY Zenon DEF Git!Cardinality, Cardinality
    <3> QED  BY <3>1, <3>4, <3>5
  <2>5. \A r \in Git!Own : results[r].status \in {"PUSHED", "PR_READY"} => results[r].sha \in 1..remote
    BY <1>1, <2>2 DEF GitInv, OnOrigin
  <2> QED  BY <2>3, <2>4, <2>5 DEF CompletedOnce, Git!CompletedOnce
<1> QED  BY <1>1, GitInvariant, PTL
-----------------------------------------------------------------------------
(* The bounds of its counters: the base moves only when somebody touches it, a  *)
(* request has it from there, and a commit is read off the branch.              *)
GitBounded ==
  /\ base <= touches /\ touches \in 0..MaxTouches
  /\ \A c \in Requester : completing[c].base <= touches /\ completing[c].sha <= Len(branch)
  /\ requests \in 0..MaxRequests /\ stops \in 0..MaxStops

LEMMA GitLimits == MaxTouches \in Nat /\ MaxRequests \in Nat /\ MaxStops \in Nat
BY ControlCenterAssumption DEF Git!CompletionAssumption

(* What a step makes of a thread's base and commit.                             *)
Remembers(d) ==
  /\ completing'[d].base \in {0, base, completing[d].base}
  /\ completing'[d].sha \in {0, Len(branch), completing[d].sha}

LEMMA OneRemembers ==
  ASSUME Stored, NEW c \in Requester, NEW next, completing' = [completing EXCEPT ![c] = next],
         next.base \in {0, base, completing[c].base}, next.sha \in {0, Len(branch), completing[c].sha}
  PROVE  \A d \in Requester : Remembers(d)
BY DEF Stored, Remembers

LEMMA RestingRemembers ==
  ASSUME Stored, NEW c \in Requester, NEW status, Git!Record(c, status)
  PROVE  \A d \in Requester : Remembers(d)
<1>1. completing' = [completing EXCEPT ![c] = Git!Resting]
  BY DEF Git!Record
<1>2. Git!Resting.base = 0 /\ Git!Resting.sha = 0
  BY DEF Git!Resting
<1> QED  BY <1>1, <1>2, OneRemembers

LEMMA RequestsRemember ==
  ASSUME Stored, NEW c \in Requester,
         \/ Git!Request(c) \/ Git!Validates(c) \/ Git!Stages(c) \/ Git!Commits(c)
         \/ Git!ReadsHead(c) \/ Git!Pushes(c) \/ Git!Prepares(c)
  PROVE  \A d \in Requester : Remembers(d)
<1> DEFINE Goes(next) == /\ completing' = [completing EXCEPT ![c] = next]
                         /\ next.base \in {0, base, completing[c].base}
                         /\ next.sha \in {0, Len(branch), completing[c].sha}
<1>1. ASSUME NEW next, Goes(next) PROVE \A d \in Requester : Remembers(d)
  BY <1>1, OneRemembers
<1>2. ASSUME NEW status, Git!Record(c, status) PROVE \A d \in Requester : Remembers(d)
  BY <1>2, RestingRemembers
<1>3. completing[c] \in Completings
  BY DEF Stored
<1>4. ASSUME NEW at \in Stages, Git!Continues(c, [completing[c] EXCEPT !.at = at])
      PROVE  \A d \in Requester : Remembers(d)
  <2>1. Goes([completing[c] EXCEPT !.at = at])
    BY <1>3, <1>4 DEF Git!Continues, Completings
  <2> HIDE DEF Goes
  <2> QED  BY <1>1, <2>1
<1>5. CASE Git!Request(c)
  <2>1. Goes([Git!Resting EXCEPT !.at = "validate"])
    BY <1>5 DEF Git!Request, Git!Continues, Git!Resting
  <2> HIDE DEF Goes
  <2> QED  BY <1>1, <2>1
<1>6. CASE Git!Validates(c)
  <2>1. CASE Git!Record(c, "BLOCKED")
    BY <1>2, <2>1
  <2>2. CASE Git!Continues(c, [completing[c] EXCEPT !.at = "stage", !.base = base])
    <3>1. Goes([completing[c] EXCEPT !.at = "stage", !.base = base])
      BY <1>3, <2>2 DEF Git!Continues, Completings
    <3> HIDE DEF Goes
    <3> QED  BY <1>1, <3>1
  <2> QED  BY <1>6, <2>1, <2>2, Zenon DEF Git!Validates
<1>7. CASE Git!ReadsHead(c)
  <2>1. CASE Git!Record(c, "BLOCKED")
    BY <1>2, <2>1
  <2>2. CASE Git!Continues(c, [completing[c] EXCEPT !.at = "push", !.sha = Len(branch)])
    <3>1. Goes([completing[c] EXCEPT !.at = "push", !.sha = Len(branch)])
      BY <1>3, <2>2 DEF Git!Continues, Completings
    <3> HIDE DEF Goes
    <3> QED  BY <1>1, <3>1
  <2> QED  BY <1>7, <2>1, <2>2, Zenon DEF Git!ReadsHead
<1>8. CASE Git!Stages(c) \/ Git!Commits(c) \/ Git!Pushes(c) \/ Git!Prepares(c)
  <2>1. \/ \E status : Git!Record(c, status)
        \/ \E at \in Stages : Git!Continues(c, [completing[c] EXCEPT !.at = at])
    <3>1. CASE Git!Stages(c)
      BY <3>1, Zenon DEF Git!Stages, Stages
    <3>2. CASE Git!Commits(c)
      BY <3>2, Zenon DEF Git!Commits, Stages
    <3>3. CASE Git!Pushes(c)
      BY <3>3, Zenon DEF Git!Pushes, Stages
    <3>4. CASE Git!Prepares(c)
      BY <3>4, Zenon DEF Git!Prepares
    <3> QED  BY <1>8, <3>1, <3>2, <3>3, <3>4
  <2> QED  BY <1>2, <1>4, <2>1
<1> QED  BY <1>5, <1>6, <1>7, <1>8

LEMMA BranchOnlyGrows ==
  ASSUME Stored, [Git!Next]_Git!completionVars
  PROVE  Len(branch') \in Nat /\ Len(branch) \in Nat /\ Len(branch) <= Len(branch')
<1>1. branch' \in {branch, Append(branch, index)}
  <2>1. CASE \E c \in Requester : Git!Commits(c)
    BY <2>1 DEF Git!Commits
  <2>2. CASE UNCHANGED branch
    BY <2>2
  <2> QED
    BY <2>1, <2>2 DEF Git!Next, Git!completionVars, Git!Request, Git!Validates, Git!Stages, Git!ReadsHead,
         Git!Pushes, Git!Prepares, Git!ValidationRun, Git!Touched, Git!Restart, Git!repository
<1>2. branch \in Seq(Git!Content) /\ index \in Git!Content
  BY DEF Stored
<1> QED  BY <1>1, <1>2

LEMMA GitBoundedSteps ==
  ASSUME GitInv, GitBounded, [Git!Next]_Git!completionVars
  PROVE  GitBounded'
<1>0. Stored /\ base \in Nat /\ touches \in Nat /\ \A c \in Requester : completing[c].base \in Nat /\ completing[c].sha \in Nat
  BY DEF GitInv, Stored, Completings
<1>1. Len(branch') \in Nat /\ Len(branch) \in Nat /\ Len(branch) <= Len(branch')
  BY <1>0, BranchOnlyGrows
<1>2. (\A d \in Requester : Remembers(d)) /\ touches' \in Nat /\ touches <= touches' =>
        \A d \in Requester : completing'[d].base <= touches' /\ completing'[d].sha <= Len(branch')
  <2> SUFFICES ASSUME \A d \in Requester : Remembers(d), touches' \in Nat, touches <= touches', NEW d \in Requester
               PROVE  completing'[d].base <= touches' /\ completing'[d].sha <= Len(branch')
    OBVIOUS
  <2>1. base <= touches /\ completing[d].base <= touches /\ completing[d].sha <= Len(branch)
    BY DEF GitBounded
  <2> QED  BY <1>0, <1>1, <2>1 DEF Remembers
<1>3. ASSUME NEW c \in Requester,
             \/ Git!Request(c) \/ Git!Validates(c) \/ Git!Stages(c) \/ Git!Commits(c)
             \/ Git!ReadsHead(c) \/ Git!Pushes(c) \/ Git!Prepares(c)
      PROVE  GitBounded'
  <2>1. /\ UNCHANGED <<base, touches, stops>>
        /\ UNCHANGED requests \/ (requests < MaxRequests /\ requests' = requests + 1)
    <3>1. CASE Git!Request(c)
      BY <3>1 DEF Git!Request, Git!repository
    <3>2. CASE Git!Stages(c)
      BY <3>2 DEF Git!Stages, Git!bounds
    <3>3. CASE Git!Commits(c)
      BY <3>3 DEF Git!Commits, Git!bounds
    <3>4. CASE Git!Pushes(c)
      BY <3>4 DEF Git!Pushes, Git!bounds
    <3>5. CASE Git!Validates(c) \/ Git!ReadsHead(c) \/ Git!Prepares(c)
      BY <3>5 DEF Git!Validates, Git!ReadsHead, Git!Prepares, Git!repository, Git!bounds
    <3> QED  BY <1>3, <3>1, <3>2, <3>3, <3>4, <3>5
  <2>2. \A d \in Requester : Remembers(d)
    BY <1>0, <1>3, RequestsRemember
  <2> QED  BY <1>0, <1>2, <2>1, <2>2, GitLimits DEF GitBounded
<1>4. ASSUME UNCHANGED completing PROVE \A d \in Requester : Remembers(d)
  BY <1>4 DEF Remembers
<1>5. CASE UNCHANGED Git!completionVars
  BY <1>0, <1>2, <1>4, <1>5 DEF GitBounded, Git!completionVars
<1>6. CASE Git!ValidationRun
  BY <1>0, <1>2, <1>4, <1>6, GitLimits DEF GitBounded, Git!ValidationRun, Git!repository
<1>7. CASE Git!Touched
  BY <1>0, <1>2, <1>4, <1>7, GitLimits DEF GitBounded, Git!Touched
<1>8. CASE Git!Restart
  <2>1. \A d \in Requester : completing'[d].base = 0 /\ completing'[d].sha = 0
    BY <1>8 DEF Git!Restart, Git!Resting
  <2>2. UNCHANGED <<base, touches, requests>> /\ stops < MaxStops /\ stops' = stops + 1
    BY <1>8 DEF Git!Restart, Git!repository
  <2> QED  BY <1>0, <1>1, <2>1, <2>2, GitLimits DEF GitBounded
<1> QED
  BY <1>3, <1>5, <1>6, <1>7, <1>8 DEF Git!Next

(* Every variable of the completion keeps its type: a request knows no base     *)
(* that was not there and no commit beyond the branch, and origin holds no more *)
(* than the branch, whatever fails, times out or is restarted.                  *)
THEOREM CompletionTypes == Spec => []Git!TypeOK
<1>1. Init => GitBounded
  <2>1. Git!Init => GitBounded
    BY GitLimits DEF Git!Init, Git!Resting, GitBounded
  <2> QED  BY <2>1, GitPart
<1>2. GitInv /\ GitBounded /\ [Next]_allVars => GitBounded'
  BY GitPart, GitBoundedSteps
<1>3. ASSUME GitInv, GitBounded PROVE Git!TypeOK
  <2>1. /\ branch \in Seq(Git!Content) /\ index \in Git!Content /\ worktree \in Git!Content
        /\ remote \in 0..Len(branch) /\ base \in 0..MaxTouches
        /\ touches \in 0..MaxTouches /\ requests \in 0..MaxRequests /\ stops \in 0..MaxStops
    BY <1>3, GitLimits DEF GitInv, Stored, OnBranch, GitBounded
  <2>2. \A i \in 1..Len(results) : results[i].status \in Git!Statuses
    <3>1. \A i \in 1..Len(results) : results[i] \in Entries
      BY <1>3 DEF GitInv, Stored
    <3> QED  BY <3>1, Zenon DEF Entries
  <2>3. completing \in [Requester -> [base : 0..MaxTouches, sha : 0..Len(branch), at : Stages]]
    <3>1. \A c \in Requester : completing[c] \in [base : 0..MaxTouches, sha : 0..Len(branch), at : Stages]
      <4> TAKE c \in Requester
      <4>1. completing[c] \in Completings /\ completing[c].base <= touches /\ touches \in 0..MaxTouches
            /\ completing[c].sha <= Len(branch)
        BY <1>3 DEF GitInv, Stored, GitBounded
      <4>2. completing[c].base \in 0..MaxTouches /\ completing[c].sha \in 0..Len(branch)
        BY <1>3, <4>1, GitLimits DEF Completings, GitInv, Stored
      <4> QED  BY <4>1, <4>2 DEF Completings
    <3> QED  BY <1>3, <3>1 DEF GitInv, Stored
  <2> QED  BY <2>1, <2>2, <2>3 DEF Git!TypeOK, Stages
<1>4. Spec => []GitBounded
  BY <1>1, <1>2, GitInvariant, PTL DEF Spec
<1> QED  BY <1>3, <1>4, GitInvariant, PTL
-----------------------------------------------------------------------------
(* A sequence of transitions that is legal from s and ends in t.                *)
Reaches(s, path, t) ==
  /\ path \in Seq(Task!Workflow) /\ Task!Legal(s, path)
  /\ (<<s>> \o path)[Len(path) + 1] = t

LEMMA Stays ==
  ASSUME NEW s
  PROVE  Reaches(s, <<>>, s)
BY DEF Reaches, Task!Legal

LEMMA Moves ==
  ASSUME NEW s, NEW t \in Task!Workflow, t \in Task!Transitions[s]
  PROVE  Reaches(s, <<t>>, t)
BY DEF Reaches, Task!Legal

LEMMA MovesAhead ==
  ASSUME NEW s, NEW u \in Task!Workflow, u \in Task!Transitions[s],
         NEW path, NEW t, Reaches(u, path, t)
  PROVE  Reaches(s, <<u>> \o path, t)
<1> DEFINE far == <<u>> \o path
<1>1. path \in Seq(Task!Workflow) /\ Task!Legal(u, path) /\ (<<u>> \o path)[Len(path) + 1] = t
  BY DEF Reaches
<1>2. far \in Seq(Task!Workflow) /\ Len(far) = Len(path) + 1
  BY <1>1
<1>3. \A i \in 1..Len(path) : far[i + 1] = path[i] /\ far[1] = u
  BY <1>1
<1>4. \A i \in 1..Len(far) : (<<s>> \o far)[i + 1] = far[i] /\ (<<s>> \o far)[1] = s
  BY <1>2
<1>5. \A i \in 1..Len(far) : far[i] \in Task!Transitions[(<<s>> \o far)[i]]
  <2> SUFFICES ASSUME NEW i \in 1..Len(far) PROVE far[i] \in Task!Transitions[(<<s>> \o far)[i]]
    OBVIOUS
  <2>1. CASE i = 1
    <3>1. far[1] = u
      BY <1>1
    <3>2. (<<s>> \o far)[1] = s
      BY <1>2
    <3> QED  BY <2>1, <3>1, <3>2
  <2>2. CASE i > 1
    <3>1. i - 1 \in 1..Len(path) /\ i - 1 \in 1..Len(far) /\ (i - 1) + 1 = i
      BY <2>2, <1>2, <1>1
    <3>2. far[i] = path[i - 1] /\ (<<s>> \o far)[i] = far[i - 1]
      BY <3>1, <1>3, <1>4
    <3>3. path[i - 1] \in Task!Transitions[(<<u>> \o path)[i - 1]]
      BY <3>1, <1>1 DEF Task!Legal
    <3> QED  BY <3>2, <3>3
  <2> QED  BY <2>1, <2>2, <1>2, <1>1
<1>6. Task!Legal(s, far)
  BY <1>5 DEF Task!Legal
<1>7. (<<s>> \o far)[Len(far) + 1] = t
  <2>1. Len(far) \in 1..Len(far) /\ far[Len(far)] = t
    BY <1>1, <1>2
  <2> QED  BY <2>1, <1>4
<1> QED  BY <1>2, <1>6, <1>7 DEF Reaches

(* Every beginning of a legal sequence is legal, so the furthest state is the   *)
(* last one.                                                                    *)
LEMMA Arrives ==
  ASSUME NEW s, NEW path, NEW t, Reaches(s, path, t)
  PROVE  Task!Legal(s, path) /\ Task!Furthest(s, path) = t
<1> DEFINE Stop(n) == /\ Task!Legal(s, SubSeq(path, 1, n))
                      /\ n = Len(path) \/ ~Task!Legal(s, SubSeq(path, 1, n + 1))
<1>1. path \in Seq(Task!Workflow) /\ Task!Legal(s, path) /\ (<<s>> \o path)[Len(path) + 1] = t
  BY DEF Reaches
<1>2. ASSUME NEW n \in 0..Len(path) PROVE Task!Legal(s, SubSeq(path, 1, n))
  <2>1. SubSeq(path, 1, n) \in Seq(Task!Workflow) /\ Len(SubSeq(path, 1, n)) = n
    BY <1>1
  <2>2. \A i \in 1..n : SubSeq(path, 1, n)[i] = path[i]
    BY <1>1
  <2>3. \A i \in 1..n : (<<s>> \o SubSeq(path, 1, n))[i] = (<<s>> \o path)[i]
    BY <1>1, <2>1, <2>2
  <2> QED  BY <1>1, <2>1, <2>2, <2>3 DEF Task!Legal
<1>3. Stop(Len(path)) /\ Len(path) \in 0..Len(path)
  BY <1>1, <1>2
<1>4. ASSUME NEW n \in 0..Len(path), Stop(n) PROVE n = Len(path)
  <2>1. n = Len(path) \/ n + 1 \in 0..Len(path)
    BY <1>1
  <2> QED  BY <2>1, <1>2, <1>4
<1>5. (CHOOSE n \in 0..Len(path) : Stop(n)) = Len(path)
  <2> HIDE DEF Stop
  <2> QED  BY <1>3, <1>4
<1> QED  BY <1>1, <1>5 DEF Task!Furthest
-----------------------------------------------------------------------------
(* The paths of the handlers.                                                   *)
LEMMA Row ==
  /\ Task!Transitions["IDLE"] = {"PLANNING", "STOPPED"}
  /\ Task!Transitions["PLANNING"] = {"PRECHECK", "HUMAN_REVIEW", "STOPPED"}
  /\ Task!Transitions["PRECHECK"] = {"RUNNING_TEST", "HUMAN_REVIEW", "FAILED", "STOPPED"}
  /\ Task!Transitions["RUNNING_TEST"] = {"COMPLETE", "TRIAGE", "EVALUATING", "FAILED", "STOPPED"}
  /\ Task!Transitions["TRIAGE"] = {"CODEX_FIX", "HUMAN_REVIEW", "FAILED", "STOPPED"}
  /\ Task!Transitions["CODEX_FIX"] = {"RUNNING_TEST", "HUMAN_REVIEW", "FAILED", "STOPPED"}
  /\ Task!Transitions["EVALUATING"] = {"COMPLETE", "CODEX_FIX", "HUMAN_REVIEW", "FAILED", "STOPPED"}
  /\ \A s \in Task!Startable : s # "IDLE" => "IDLE" \in Task!Transitions[s]
BY DEF Task!Transitions, Task!Startable

LEMMA OneMove ==
  ASSUME NEW s, NEW a \in Task!Workflow, a \in Task!Transitions[s]
  PROVE  Reaches(s, <<a>>, a)
BY Moves

LEMMA Front ==
  ASSUME NEW S, NEW a \in S, NEW b \in S, NEW d \in S
  PROVE  <<a>> \o <<b>> = <<a, b>> /\ <<a>> \o <<b, d>> = <<a, b, d>>
<1>1. <<a>> \in Seq(S) /\ <<b>> \in Seq(S) /\ <<b, d>> \in Seq(S)
      /\ <<a, b>> \in Seq(S) /\ <<a, b, d>> \in Seq(S)
  OBVIOUS
<1>2. <<a>> \o <<b>> = <<a, b>>
  <2> DEFINE f == <<a>> \o <<b>>
  <2>1. f \in Seq(S) /\ Len(f) = 2 /\ f[1] = a /\ f[2] = b
    BY <1>1
  <2> HIDE DEF f
  <2>2. \A i \in 1..Len(f) : f[i] = <<a, b>>[i]
    BY <2>1
  <2> QED  BY <1>1, <2>1, <2>2, SeqEqual DEF f
<1>3. <<a>> \o <<b, d>> = <<a, b, d>>
  <2> DEFINE f == <<a>> \o <<b, d>>
  <2>1. f \in Seq(S) /\ Len(f) = 3 /\ f[1] = a /\ f[2] = b /\ f[3] = d
    BY <1>1
  <2> HIDE DEF f
  <2>2. \A i \in 1..Len(f) : f[i] = <<a, b, d>>[i]
    BY <2>1
  <2> QED  BY <1>1, <2>1, <2>2, SeqEqual DEF f
<1> QED  BY <1>2, <1>3

LEMMA TwoMoves ==
  ASSUME NEW s, NEW a \in Task!Workflow, NEW b \in Task!Workflow,
         a \in Task!Transitions[s], b \in Task!Transitions[a]
  PROVE  Reaches(s, <<a, b>>, b)
<1>1. Reaches(a, <<b>>, b)
  BY Moves
<1>2. Reaches(s, <<a>> \o <<b>>, b)
  BY <1>1, MovesAhead
<1>3. <<a>> \o <<b>> = <<a, b>>
  BY Front
<1> QED  BY <1>2, <1>3

LEMMA ThreeMoves ==
  ASSUME NEW s, NEW a \in Task!Workflow, NEW b \in Task!Workflow, NEW d \in Task!Workflow,
         a \in Task!Transitions[s], b \in Task!Transitions[a], d \in Task!Transitions[b]
  PROVE  Reaches(s, <<a, b, d>>, d)
<1>1. Reaches(a, <<b, d>>, d)
  BY TwoMoves
<1>2. Reaches(s, <<a>> \o <<b, d>>, d)
  BY <1>1, MovesAhead
<1>3. <<a>> \o <<b, d>> = <<a, b, d>>
  BY Front
<1> QED  BY <1>2, <1>3

(* A request starts with a reset, unless the workflow is idle.                  *)
LEMMA ResetFirst ==
  ASSUME NEW path, NEW t, Reaches("IDLE", path, t), workflow \in Task!Startable
  PROVE  Reaches(workflow, Task!Reset \o path, t)
<1>1. path \in Seq(Task!Workflow)
  BY DEF Reaches
<1>2. CASE workflow = "IDLE"
  <2>1. Task!Reset \o path = path
    BY <1>1, <1>2 DEF Task!Reset
  <2> QED  BY <1>2, <2>1
<1>3. CASE workflow # "IDLE"
  <2>1. Task!Reset = <<"IDLE">>
    BY <1>3 DEF Task!Reset
  <2>2. "IDLE" \in Task!Workflow /\ "IDLE" \in Task!Transitions[workflow]
    BY <1>3, Row DEF Task!Workflow
  <2>3. Reaches(workflow, <<"IDLE">> \o path, t)
    BY <2>2, MovesAhead
  <2> QED  BY <2>1, <2>3
<1> QED  BY <1>2, <1>3

(* The whole of run_mock, over its budget or not.                               *)
MockPath(over) ==
  <<"PLANNING", "PRECHECK", "RUNNING_TEST", "TRIAGE", "CODEX_FIX">>
  \o IF over THEN <<"HUMAN_REVIEW">> ELSE <<"RUNNING_TEST", "EVALUATING", "COMPLETE">>

LEMMA MockReaches ==
  ASSUME NEW over
  PROVE  \E t \in Task!Startable : Reaches("IDLE", MockPath(over), t)
<1> DEFINE tail == IF over THEN <<"HUMAN_REVIEW">> ELSE <<"RUNNING_TEST", "EVALUATING", "COMPLETE">>
<1>1. \A x \in {"PLANNING", "PRECHECK", "RUNNING_TEST", "TRIAGE", "CODEX_FIX", "EVALUATING",
                "COMPLETE", "HUMAN_REVIEW"} : x \in Task!Workflow
  BY DEF Task!Workflow
<1>2. \E t \in Task!Startable : Reaches("CODEX_FIX", tail, t)
  <2>1. Reaches("CODEX_FIX", <<"HUMAN_REVIEW">>, "HUMAN_REVIEW")
    BY <1>1, Row, OneMove
  <2>2. Reaches("CODEX_FIX", <<"RUNNING_TEST", "EVALUATING", "COMPLETE">>, "COMPLETE")
    BY <1>1, Row, ThreeMoves
  <2>3. "HUMAN_REVIEW" \in Task!Startable /\ "COMPLETE" \in Task!Startable
    BY DEF Task!Startable
  <2> QED  BY <2>1, <2>2, <2>3
<1>3. PICK t \in Task!Startable : Reaches("CODEX_FIX", tail, t)
  BY <1>2
<1> HIDE DEF tail
<1>4. tail \in Seq(Task!Workflow)
  BY <1>3 DEF Reaches
<1>5. Reaches("TRIAGE", <<"CODEX_FIX">> \o tail, t)
  BY <1>1, <1>3, Row, MovesAhead
<1>6. Reaches("RUNNING_TEST", <<"TRIAGE">> \o (<<"CODEX_FIX">> \o tail), t)
  BY <1>1, <1>5, Row, MovesAhead
<1>7. Reaches("PRECHECK", <<"RUNNING_TEST">> \o (<<"TRIAGE">> \o (<<"CODEX_FIX">> \o tail)), t)
  BY <1>1, <1>6, Row, MovesAhead
<1>8. Reaches("PLANNING",
        <<"PRECHECK">> \o (<<"RUNNING_TEST">> \o (<<"TRIAGE">> \o (<<"CODEX_FIX">> \o tail))), t)
  BY <1>1, <1>7, Row, MovesAhead
<1>9. Reaches("IDLE", <<"PLANNING">> \o (<<"PRECHECK">> \o (<<"RUNNING_TEST">> \o
                        (<<"TRIAGE">> \o (<<"CODEX_FIX">> \o tail)))), t)
  BY <1>1, <1>8, Row, MovesAhead
<1>10. <<"PLANNING">> \o (<<"PRECHECK">> \o (<<"RUNNING_TEST">> \o
                        (<<"TRIAGE">> \o (<<"CODEX_FIX">> \o tail)))) = MockPath(over)
  <2>1. <<"TRIAGE">> \o (<<"CODEX_FIX">> \o tail) = <<"TRIAGE", "CODEX_FIX">> \o tail
    BY <1>1, <1>4
  <2>2. <<"RUNNING_TEST">> \o (<<"TRIAGE", "CODEX_FIX">> \o tail)
          = <<"RUNNING_TEST", "TRIAGE", "CODEX_FIX">> \o tail
    BY <1>1, <1>4
  <2>3. <<"PRECHECK">> \o (<<"RUNNING_TEST", "TRIAGE", "CODEX_FIX">> \o tail)
          = <<"PRECHECK", "RUNNING_TEST", "TRIAGE", "CODEX_FIX">> \o tail
    BY <1>1, <1>4
  <2>4. <<"PLANNING">> \o (<<"PRECHECK", "RUNNING_TEST", "TRIAGE", "CODEX_FIX">> \o tail)
          = <<"PLANNING", "PRECHECK", "RUNNING_TEST", "TRIAGE", "CODEX_FIX">> \o tail
    BY <1>1, <1>4
  <2> QED  BY <2>1, <2>2, <2>3, <2>4 DEF tail, MockPath
<1> QED  BY <1>9, <1>10
-----------------------------------------------------------------------------
(* What a thread does is a record of these fields.                              *)
Calling(r) ==
  /\ r = [at |-> r.at, kind |-> r.kind, retry |-> r.retry, tree |-> r.tree, fixed |-> r.fixed]
  /\ r.retry \in Nat

(* Where the workflow is when a call is at its place: a task is still in        *)
(* RUNNING_TEST when it asks for a retry.                                       *)
Fits(r, s) ==
  \/ r.at = "worktree" /\ s = "PLANNING"
  \/ r.at \in {"baseline", "precheck"} /\ s = "PRECHECK"
  \/ r.at = "authorize" /\ s = "TRIAGE"
  \/ r.at = "authorize" /\ r.kind = "task" /\ r.retry > 0 /\ s = "RUNNING_TEST"
  \/ r.at = "codex" /\ s = "CODEX_FIX"
  \/ r.at = "postcheck" /\ s = "RUNNING_TEST"

Idles(c) == call[c].at = "idle"

(* The engine as long as nothing has kept a call from its regular end: one call *)
(* at a time, at its place; without a call a task can start, after a restart    *)
(* too.                                                                         *)
Orderly ==
  /\ call = [c \in Caller |-> call[c]] /\ \A c \in Caller : Calling(call[c])
  /\ \A c, d \in Caller : Idles(c) \/ Idles(d) \/ c = d
  /\ \A c \in Caller : Idles(c) \/ Fits(call[c], workflow)
  /\ (\A c \in Caller : Idles(c)) => workflow \in Task!Startable /\ saved.state \in Task!Startable

TaskInv == cause = {} => Orderly

LEMMA CallingKept ==
  ASSUME NEW r, Calling(r), NEW v
  PROVE  /\ Calling([r EXCEPT !.at = v]) /\ [r EXCEPT !.at = v].at = v
         /\ [r EXCEPT !.at = v].kind = r.kind /\ [r EXCEPT !.at = v].retry = r.retry
         /\ Calling([r EXCEPT !.kind = v])
         /\ Calling([r EXCEPT !.tree = v]) /\ [r EXCEPT !.tree = v].at = r.at
         /\ Calling([r EXCEPT !.fixed = v]) /\ [r EXCEPT !.fixed = v].at = r.at
  BY DEF Calling

LEMMA IdleIs ==
  Calling(Task!Idle) /\ Task!Idle.at = "idle"
BY DEF Calling, Task!Idle

(* The call of c goes on to its next place, and the workflow with it.           *)
LEMMA Proceeds ==
  ASSUME Orderly, NEW c \in Caller, \A d \in Caller : d # c => Idles(d),
         NEW next, Calling(next), next.at # "idle", Fits(next, workflow'),
         call' = [call EXCEPT ![c] = next]
  PROVE  Orderly'
<1>1. call' = [d \in Caller |-> IF d = c THEN next ELSE call[d]]
  BY DEF Orderly
<1>2. call'[c] = next /\ \A d \in Caller : d # c => call'[d] = call[d]
  BY <1>1
<1>3. call' = [d \in Caller |-> call'[d]]
  BY <1>1
<1>4. \A d \in Caller : Calling(call'[d])
  BY <1>2 DEF Orderly
<1>5. \A d \in Caller : d # c => Idles(d)'
  BY <1>2 DEF Idles
<1>6. ~Idles(c)'
  BY <1>2 DEF Idles
<1>7. \A d \in Caller : Idles(d)' \/ Fits(call'[d], workflow')
  BY <1>2, <1>5
<1> QED  BY <1>3, <1>4, <1>5, <1>6, <1>7 DEF Orderly

LEMMA PathSteps ==
  ASSUME Orderly, NEW c \in Caller, \A d \in Caller : d # c => Idles(d),
         NEW path, NEW t, Reaches(workflow, path, t),
         NEW next, Calling(next), next.at # "idle", Fits(next, t), Task!GoesOn(c, path, next)
  PROVE  Orderly'
<1>1. Task!Legal(workflow, path) /\ Task!Furthest(workflow, path) = t
  BY Arrives
<1>2. workflow' = t /\ call' = [call EXCEPT ![c] = next]
  BY <1>1 DEF Task!GoesOn
<1>3. Fits(next, workflow')
  BY <1>2
<1> QED  BY <1>2, <1>3, Proceeds

LEMMA StartsCodexSteps ==
  ASSUME Orderly, NEW c \in Caller, ~Idles(c), NEW path,
         Reaches(workflow, path, "CODEX_FIX"), Task!StartsCodex(c, path)
  PROVE  Orderly'
<1> DEFINE next == [call[c] EXCEPT !.at = "codex"]
<1>1. Task!Legal(workflow, path) /\ Task!Furthest(workflow, path) = "CODEX_FIX"
  BY Arrives
<1>2. workflow' = "CODEX_FIX" /\ call' = [call EXCEPT ![c] = next]
  BY <1>1 DEF Task!StartsCodex, Orderly
<1>3. Calling(call[c])
  BY DEF Orderly
<1>4. Calling(next) /\ next.at = "codex"
  BY <1>3 DEF Calling
<1>5. \A d \in Caller : d # c => Idles(d)
  BY DEF Orderly
<1> HIDE DEF next
<1>6. Fits(next, workflow')
  BY <1>2, <1>4 DEF Fits
<1> QED  BY <1>2, <1>4, <1>5, <1>6, Proceeds

(* A call that ends saves a state from which a task can start.                  *)
LEMMA EndsSteps ==
  ASSUME Orderly, NEW c \in Caller, ~Idles(c), NEW path, NEW t \in Task!Startable,
         Reaches(workflow, path, t), NEW result, Task!Ends(c, path, result)
  PROVE  Orderly'
<1>1. Task!Legal(workflow, path) /\ Task!Furthest(workflow, path) = t
  BY Arrives
<1>2. workflow' = t /\ call' = [call EXCEPT ![c] = Task!Idle]
      /\ saved' = [state |-> workflow', spent |-> spent']
  BY <1>1 DEF Task!Ends
<1>3. call' = [d \in Caller |-> IF d = c THEN Task!Idle ELSE call[d]]
  BY <1>2 DEF Orderly
<1>4. \A d \in Caller : call'[d] = Task!Idle \/ (call'[d] = call[d] /\ Idles(d))
  BY <1>3 DEF Orderly
<1>5. \A d \in Caller : Idles(d)'
  BY <1>4, IdleIs DEF Idles
<1>6. \A d \in Caller : Calling(call'[d])
  BY <1>4, IdleIs DEF Orderly
<1>7. call' = [d \in Caller |-> call'[d]]
  BY <1>3
<1>8. workflow' \in Task!Startable /\ saved'.state \in Task!Startable
  BY <1>2
<1> QED  BY <1>5, <1>6, <1>7, <1>8 DEF Orderly
-----------------------------------------------------------------------------
(* What a step makes of the record of its call.                                 *)
LEMMA Retried ==
  ASSUME NEW r, Calling(r), NEW v \in Nat
  PROVE  LET n == [r EXCEPT !.retry = v]
         IN  Calling(n) /\ n.at = r.at /\ n.kind = r.kind /\ n.retry = v
BY DEF Calling

(* The call of c is the only one, and the workflow is where it put it.          *)
LEMMA Alone ==
  ASSUME Orderly, NEW c \in Caller, ~Idles(c)
  PROVE  /\ \A d \in Caller : d # c => Idles(d)
         /\ Calling(call[c]) /\ Fits(call[c], workflow)
BY DEF Orderly

LEMMA StateNames ==
  /\ \A x \in {"IDLE", "PLANNING", "PRECHECK", "RUNNING_TEST", "TRIAGE", "CODEX_FIX", "EVALUATING",
               "COMPLETE", "HUMAN_REVIEW", "FAILED", "STOPPED"} : x \in Task!Workflow
  /\ \A x \in {"IDLE", "COMPLETE", "HUMAN_REVIEW", "FAILED", "STOPPED"} : x \in Task!Startable
BY DEF Task!Workflow, Task!Startable

(* A request that cannot run saves, and starts nothing.                         *)
LEMMA NotConfiguredSteps ==
  ASSUME Orderly, NEW c \in Caller, NEW some, Task!NotConfigured(c, some)
  PROVE  Orderly'
<1>1. UNCHANGED <<workflow, call>> /\ saved' = [state |-> workflow, spent |-> spent]
  BY DEF Task!NotConfigured
<1>2. saved'.state = workflow
  BY <1>1
<1> QED  BY <1>1, <1>2 DEF Orderly, Idles

LEMMA BeginsSteps ==
  ASSUME Orderly, NEW c \in Caller, NEW path, NEW t, Reaches("IDLE", path, t),
         NEW next, Calling(next), next.at # "idle", Fits(next, t),
         Task!Begins(c, path, next), cause' = {}
  PROVE  Orderly'
<1>1. ~Task!Busy
  BY DEF Task!Begins
<1>2. \A d \in Caller : Idles(d)
  BY <1>1 DEF Task!Busy, Idles
<1>3. workflow \in Task!Startable
  BY <1>2 DEF Orderly
<1>4. Reaches(workflow, Task!Reset \o path, t)
  BY <1>3, ResetFirst
<1>5. Task!GoesOn(c, Task!Reset \o path, next)
  BY DEF Task!Begins
<1> QED  BY <1>2, <1>4, <1>5, PathSteps

LEMMA StartSteps ==
  ASSUME Orderly, NEW c \in Caller, Task!StartTask(c) \/ Task!StartFault(c) \/ Task!StartSmoke(c),
         cause' = {}
  PROVE  Orderly'
<1>1. Reaches("IDLE", <<"PLANNING">>, "PLANNING")
      /\ Reaches("IDLE", <<"PLANNING", "PRECHECK">>, "PRECHECK")
  BY Row, StateNames, OneMove, TwoMoves
<1>2. CASE \E some : Task!NotConfigured(c, some)
  BY <1>2, NotConfiguredSteps
<1>3. ASSUME Task!Begins(c, <<"PLANNING">>, [Task!Idle EXCEPT !.at = "worktree"]) PROVE Orderly'
  <2> DEFINE next == [Task!Idle EXCEPT !.at = "worktree"]
  <2>1. Calling(next) /\ next.at = "worktree"
    BY IdleIs, CallingKept
  <2> HIDE DEF next
  <2>2. Fits(next, "PLANNING")
    BY <2>1 DEF Fits
  <2> QED  BY <1>1, <1>3, <2>1, <2>2, BeginsSteps DEF next
<1>4. ASSUME Task!Begins(c, <<"PLANNING">>, [Task!Idle EXCEPT !.kind = "fault", !.at = "worktree"])
      PROVE  Orderly'
  <2> DEFINE r == [Task!Idle EXCEPT !.kind = "fault"]
             next == [r EXCEPT !.at = "worktree"]
  <2>1. Calling(next) /\ next.at = "worktree"
    BY IdleIs, CallingKept
  <2> HIDE DEF next
  <2>2. Fits(next, "PLANNING")
    BY <2>1 DEF Fits
  <2> QED  BY <1>1, <1>4, <2>1, <2>2, BeginsSteps DEF next
<1>5. ASSUME Task!Begins(c, <<"PLANNING", "PRECHECK">>,
                         [Task!Idle EXCEPT !.kind = "smoke", !.at = "precheck"])
      PROVE  Orderly'
  <2> DEFINE r == [Task!Idle EXCEPT !.kind = "smoke"]
             next == [r EXCEPT !.at = "precheck"]
  <2>1. Calling(next) /\ next.at = "precheck"
    BY IdleIs, CallingKept
  <2> HIDE DEF next
  <2>2. Fits(next, "PRECHECK")
    BY <2>1 DEF Fits
  <2> QED  BY <1>1, <1>5, <2>1, <2>2, BeginsSteps DEF next
<1> QED
  BY <1>2, <1>3, <1>4, <1>5 DEF Task!StartTask, Task!StartFault, Task!StartSmoke
-----------------------------------------------------------------------------
(* The worktree, and the check of the clean one.                                *)
LEMMA WorktreeSteps ==
  ASSUME Orderly, NEW c \in Caller,
         Task!TaskWorktree(c) \/ Task!FaultWorktree(c) \/ Task!Baseline(c)
  PROVE  Orderly'
<1>1. call[c].at \in {"worktree", "baseline"}
  BY DEF Task!TaskWorktree, Task!FaultWorktree, Task!Baseline, Task!At
<1>2. ~Idles(c)
  BY <1>1 DEF Idles
<1>3. (\A d \in Caller : d # c => Idles(d)) /\ Calling(call[c]) /\ Fits(call[c], workflow)
  BY <1>2, Alone
<1>4. workflow = IF call[c].at = "worktree" THEN "PLANNING" ELSE "PRECHECK"
  BY <1>1, <1>3 DEF Fits
<1>5. Reaches(workflow, <<"HUMAN_REVIEW">>, "HUMAN_REVIEW") /\ "HUMAN_REVIEW" \in Task!Startable
  BY <1>1, <1>4, Row, StateNames, OneMove
<1>6. CASE \E result : Task!Ends(c, <<"HUMAN_REVIEW">>, result)
  BY <1>2, <1>5, <1>6, EndsSteps
<1>7. ASSUME call[c].at = "worktree", NEW z, NEW p \in {"precheck", "baseline"},
             Task!GoesOn(c, <<"PRECHECK">>, [call[c] EXCEPT !.fixed = z, !.at = p])
      PROVE  Orderly'
  <2> DEFINE fixes == [call[c] EXCEPT !.fixed = z]
             next == [fixes EXCEPT !.at = p]
  <2>4. Task!GoesOn(c, <<"PRECHECK">>, next)
    BY <1>7, Zenon
  <2>5. Calling(fixes)
    BY <1>3, CallingKept
  <2> HIDE DEF fixes
  <2>1. Calling(next) /\ next.at = p
    BY <2>5, CallingKept
  <2> HIDE DEF next
  <2>2. Fits(next, "PRECHECK") /\ next.at # "idle"
    BY <2>1 DEF Fits
  <2>3. Reaches(workflow, <<"PRECHECK">>, "PRECHECK")
    BY <1>4, <1>7, Row, StateNames, OneMove
  <2> QED  BY <1>3, <2>1, <2>2, <2>3, <2>4, PathSteps
<1>8. ASSUME call[c].at = "baseline", NEW z,
             Task!GoesOn(c, <<>>, [call[c] EXCEPT !.at = "precheck", !.fixed = z])
      PROVE  Orderly'
  <2> DEFINE steps == [call[c] EXCEPT !.at = "precheck"]
             next == [steps EXCEPT !.fixed = z]
  <2>4. Task!GoesOn(c, <<>>, next)
    BY <1>8, Zenon
  <2>5. Calling(steps) /\ steps.at = "precheck"
    BY <1>3, CallingKept
  <2> HIDE DEF steps
  <2>1. Calling(next) /\ next.at = "precheck"
    BY <2>5, CallingKept
  <2> HIDE DEF next
  <2>2. Fits(next, "PRECHECK") /\ next.at # "idle"
    BY <2>1 DEF Fits
  <2>3. Reaches(workflow, <<>>, "PRECHECK")
    BY <1>4, <1>8, Stays
  <2> QED  BY <1>3, <2>1, <2>2, <2>3, <2>4, PathSteps
<1>9. CASE Task!TaskWorktree(c)
  BY <1>6, <1>7, <1>9 DEF Task!TaskWorktree, Task!At
<1>10. CASE Task!FaultWorktree(c)
  BY <1>6, <1>7, <1>10 DEF Task!FaultWorktree, Task!At
<1>11. CASE Task!Baseline(c)
  BY <1>6, <1>8, <1>11 DEF Task!Baseline, Task!At
<1> QED  BY <1>9, <1>10, <1>11

(* The check before the repair.                                                 *)
LEMMA PrecheckSteps ==
  ASSUME Orderly, NEW c \in Caller,
         Task!TaskPrecheck(c) \/ Task!FaultPrecheck(c) \/ Task!SmokePrecheck(c)
  PROVE  Orderly'
<1>1. call[c].at = "precheck"
  BY DEF Task!TaskPrecheck, Task!FaultPrecheck, Task!SmokePrecheck, Task!At
<1>2. ~Idles(c)
  BY <1>1 DEF Idles
<1>3. (\A d \in Caller : d # c => Idles(d)) /\ Calling(call[c]) /\ Fits(call[c], workflow)
  BY <1>2, Alone
<1>4. workflow = "PRECHECK"
  BY <1>1, <1>3 DEF Fits
<1>5. /\ Reaches(workflow, <<"RUNNING_TEST", "COMPLETE">>, "COMPLETE")
      /\ Reaches(workflow, <<"RUNNING_TEST", "FAILED">>, "FAILED")
      /\ Reaches(workflow, <<"FAILED">>, "FAILED")
      /\ Reaches(workflow, <<"RUNNING_TEST", "TRIAGE">>, "TRIAGE")
  BY <1>4, Row, StateNames, OneMove, TwoMoves
<1>6. /\ Reaches(workflow, <<"RUNNING_TEST", "TRIAGE", "HUMAN_REVIEW">>, "HUMAN_REVIEW")
      /\ Reaches(workflow, <<"RUNNING_TEST", "TRIAGE", "FAILED">>, "FAILED")
      /\ Reaches(workflow, <<"RUNNING_TEST", "TRIAGE", "CODEX_FIX">>, "CODEX_FIX")
  BY <1>4, Row, StateNames, ThreeMoves
<1>7. ASSUME NEW path, NEW t \in {"COMPLETE", "FAILED", "HUMAN_REVIEW"}, Reaches(workflow, path, t),
             NEW result, Task!Ends(c, path, result)
      PROVE  Orderly'
  BY <1>2, <1>7, StateNames, EndsSteps
<1>8. ASSUME Task!GoesOn(c, <<"RUNNING_TEST", "TRIAGE">>, [call[c] EXCEPT !.at = "authorize"])
      PROVE  Orderly'
  <2> DEFINE next == [call[c] EXCEPT !.at = "authorize"]
  <2>1. Calling(next) /\ next.at = "authorize"
    BY <1>3, CallingKept
  <2> HIDE DEF next
  <2>2. Fits(next, "TRIAGE") /\ next.at # "idle"
    BY <2>1 DEF Fits
  <2>3. Task!GoesOn(c, <<"RUNNING_TEST", "TRIAGE">>, next)
    BY <1>8 DEF next
  <2> QED  BY <1>3, <1>5, <2>1, <2>2, <2>3, PathSteps
<1>9. CASE Task!TaskPrecheck(c)
  BY <1>5, <1>6, <1>7, <1>8, <1>9 DEF Task!TaskPrecheck
<1>10. CASE Task!FaultPrecheck(c)
  BY <1>5, <1>6, <1>7, <1>8, <1>10 DEF Task!FaultPrecheck
<1>11. CASE Task!SmokePrecheck(c)
  <2>1. CASE Task!Ends(c, <<"FAILED">>, "FAILED")
    BY <1>5, <1>7, <2>1
  <2>2. CASE Task!StartsCodex(c, <<"RUNNING_TEST", "TRIAGE", "CODEX_FIX">>)
    BY <1>2, <1>6, <2>2, StartsCodexSteps
  <2> QED  BY <1>11, <2>1, <2>2 DEF Task!SmokePrecheck
<1> QED  BY <1>9, <1>10, <1>11

(* The guards before Codex; the retry of a task that they block is a cause.     *)
LEMMA AuthorizeSteps ==
  ASSUME Orderly, NEW c \in Caller, Task!AuthorizeTask(c) \/ Task!AuthorizeFault(c), cause' = {}
  PROVE  Orderly'
<1>1. call[c].at = "authorize"
  BY DEF Task!AuthorizeTask, Task!AuthorizeFault, Task!At
<1>2. ~Idles(c)
  BY <1>1 DEF Idles
<1>3. Calling(call[c]) /\ Fits(call[c], workflow)
  BY <1>2, Alone
<1>4. \/ workflow = "TRIAGE"
      \/ workflow = "RUNNING_TEST" /\ call[c].kind = "task" /\ call[c].retry > 0
  BY <1>1, <1>3 DEF Fits
<1>5. ASSUME workflow = "TRIAGE", Task!Ends(c, <<"HUMAN_REVIEW">>, "HUMAN_REVIEW")
      PROVE  Orderly'
  <2>1. Reaches(workflow, <<"HUMAN_REVIEW">>, "HUMAN_REVIEW") /\ "HUMAN_REVIEW" \in Task!Startable
    BY <1>5, Row, StateNames, OneMove
  <2> QED  BY <1>2, <1>5, <2>1, EndsSteps
<1>6. ASSUME NEW path, Reaches(workflow, path, "CODEX_FIX"), Task!StartsCodex(c, path)
      PROVE  Orderly'
  BY <1>2, <1>6, StartsCodexSteps
<1>7. workflow = "TRIAGE" => Reaches(workflow, <<"CODEX_FIX">>, "CODEX_FIX")
  BY Row, StateNames, OneMove
<1>8. workflow = "RUNNING_TEST" => Reaches(workflow, <<"TRIAGE", "CODEX_FIX">>, "CODEX_FIX")
  BY Row, StateNames, TwoMoves
<1>9. CASE Task!AuthorizeTask(c)
  <2>1. CASE /\ Task!Ends(c, <<"HUMAN_REVIEW">>, "HUMAN_REVIEW")
             /\ cause' = IF call[c].retry > 0 THEN cause \cup {"blocked_retry"} ELSE cause
    <3>1. ~(call[c].retry > 0)
      BY <2>1
    <3> QED  BY <1>4, <1>5, <2>1, <3>1
  <2>2. CASE Task!StartsCodex(c, IF workflow = "RUNNING_TEST" THEN <<"TRIAGE", "CODEX_FIX">>
                                 ELSE <<"CODEX_FIX">>)
    <3>1. CASE workflow = "TRIAGE"
      <4>1. Task!StartsCodex(c, <<"CODEX_FIX">>)
        BY <2>2, <3>1
      <4> QED  BY <1>6, <1>7, <3>1, <4>1
    <3>2. CASE workflow = "RUNNING_TEST"
      <4>1. Task!StartsCodex(c, <<"TRIAGE", "CODEX_FIX">>)
        BY <2>2, <3>2
      <4> QED  BY <1>6, <1>8, <3>2, <4>1
    <3> QED  BY <1>4, <3>1, <3>2
  <2> QED  BY <1>9, <2>1, <2>2 DEF Task!AuthorizeTask
<1>10. CASE Task!AuthorizeFault(c)
  <2>1. workflow = "TRIAGE"
    BY <1>4, <1>10 DEF Task!AuthorizeFault, Task!At
  <2> QED  BY <1>5, <1>6, <1>7, <1>10, <2>1 DEF Task!AuthorizeFault
<1> QED  BY <1>9, <1>10
-----------------------------------------------------------------------------
(* Codex: it ends the call, or its work is checked.                             *)
LEMMA CodexSteps ==
  ASSUME Orderly, NEW c \in Caller,
         Task!RunTaskCodex(c) \/ Task!RunFaultCodex(c) \/ Task!RunSmokeCodex(c)
  PROVE  Orderly'
<1>1. call[c].at = "codex" /\ \E trees : Task!Codex(c, trees)
  BY DEF Task!RunTaskCodex, Task!RunFaultCodex, Task!RunSmokeCodex, Task!At
<1>2. ~Idles(c)
  BY <1>1 DEF Idles
<1>3. (\A d \in Caller : d # c => Idles(d)) /\ Calling(call[c]) /\ Fits(call[c], workflow)
  BY <1>2, Alone
<1>4. workflow = "CODEX_FIX"
  BY <1>1, <1>3 DEF Fits
<1>5. /\ Reaches(workflow, <<"FAILED">>, "FAILED")
      /\ Reaches(workflow, <<"HUMAN_REVIEW">>, "HUMAN_REVIEW")
      /\ Reaches(workflow, <<"RUNNING_TEST">>, "RUNNING_TEST")
  BY <1>4, Row, StateNames, OneMove
<1>6. CASE Task!Ends(c, <<"FAILED">>, "FAILED") \/ Task!Ends(c, <<"HUMAN_REVIEW">>, "HUMAN_REVIEW")
  BY <1>2, <1>5, <1>6, StateNames, EndsSteps
<1>7. ASSUME NEW tree, NEW fixed,
             Task!GoesOn(c, <<"RUNNING_TEST">>,
                         [call[c] EXCEPT !.at = "postcheck", !.tree = tree, !.fixed = fixed])
      PROVE  Orderly'
  <2> DEFINE steps == [call[c] EXCEPT !.at = "postcheck"]
             leaves == [steps EXCEPT !.tree = tree]
             next == [leaves EXCEPT !.fixed = fixed]
  <2>3. Task!GoesOn(c, <<"RUNNING_TEST">>, next)
    BY <1>7, Zenon
  <2>4. Calling(steps) /\ steps.at = "postcheck"
    BY <1>3, CallingKept
  <2> HIDE DEF steps
  <2>5. Calling(leaves) /\ leaves.at = "postcheck"
    BY <2>4, CallingKept
  <2> HIDE DEF leaves
  <2>1. Calling(next) /\ next.at = "postcheck"
    BY <2>5, CallingKept
  <2> HIDE DEF next
  <2>2. Fits(next, "RUNNING_TEST") /\ next.at # "idle"
    BY <2>1 DEF Fits
  <2> QED  BY <1>3, <1>5, <2>1, <2>2, <2>3, PathSteps
<1> QED  BY <1>1, <1>6, <1>7 DEF Task!Codex

(* The check after the repair: a task keeps its state for the retry, a fault    *)
(* returns to TRIAGE.                                                           *)
LEMMA PostcheckSteps ==
  ASSUME Orderly, NEW c \in Caller,
         Task!TaskPostcheck(c) \/ Task!FaultPostcheck(c) \/ Task!SmokePostcheck(c)
  PROVE  Orderly'
<1>1. call[c].at = "postcheck"
  BY DEF Task!TaskPostcheck, Task!FaultPostcheck, Task!SmokePostcheck, Task!At
<1>2. ~Idles(c)
  BY <1>1 DEF Idles
<1>3. (\A d \in Caller : d # c => Idles(d)) /\ Calling(call[c]) /\ Fits(call[c], workflow)
  BY <1>2, Alone
<1>4. workflow = "RUNNING_TEST"
  BY <1>1, <1>3 DEF Fits
<1>5. /\ Reaches(workflow, <<"COMPLETE">>, "COMPLETE")
      /\ Reaches(workflow, <<"FAILED">>, "FAILED")
      /\ Reaches(workflow, <<"TRIAGE">>, "TRIAGE")
      /\ Reaches(workflow, <<>>, "RUNNING_TEST")
  BY <1>4, Row, StateNames, OneMove, Stays
<1>6. Reaches(workflow, <<"TRIAGE", "HUMAN_REVIEW">>, "HUMAN_REVIEW")
  BY <1>4, Row, StateNames, TwoMoves
<1>7. Reaches(workflow, <<"EVALUATING", "COMPLETE">>, "COMPLETE")
  BY <1>4, Row, StateNames, TwoMoves
<1>8. Task!Ends(c, <<"EVALUATING", "HUMAN_REVIEW">>, "HUMAN_REVIEW") => Orderly'
  <2>1. Reaches(workflow, <<"EVALUATING", "HUMAN_REVIEW">>, "HUMAN_REVIEW")
    BY <1>4, Row, StateNames, TwoMoves
  <2> QED  BY <1>2, <2>1, StateNames, EndsSteps
<1>9. ASSUME NEW path, NEW t \in {"COMPLETE", "FAILED", "HUMAN_REVIEW"}, Reaches(workflow, path, t),
             NEW result, Task!Ends(c, path, result)
      PROVE  Orderly'
  BY <1>2, <1>9, StateNames, EndsSteps
<1>10. ASSUME NEW path, NEW t, Reaches(workflow, path, t),
              t = "TRIAGE" \/ (t = "RUNNING_TEST" /\ call[c].kind = "task"),
              Task!GoesOn(c, path, [call[c] EXCEPT !.at = "authorize", !.retry = @ + 1])
       PROVE  Orderly'
  <2> DEFINE steps == [call[c] EXCEPT !.at = "authorize"]
             next == [steps EXCEPT !.retry = call[c].retry + 1]
  <2>3. Task!GoesOn(c, path, next)
    BY <1>10, Zenon
  <2>4. Calling(steps) /\ steps.at = "authorize" /\ steps.kind = call[c].kind
    BY <1>3, CallingKept
  <2>5. call[c].retry + 1 \in Nat /\ call[c].retry + 1 > 0
    BY <1>3 DEF Calling
  <2> HIDE DEF steps
  <2>1. Calling(next) /\ next.at = "authorize" /\ next.kind = call[c].kind /\ next.retry > 0
    BY <2>4, <2>5, Retried
  <2> HIDE DEF next
  <2>2. Fits(next, t) /\ next.at # "idle"
    BY <1>10, <2>1 DEF Fits
  <2> QED  BY <1>3, <1>10, <2>1, <2>2, <2>3, PathSteps
<1>11. CASE Task!TaskPostcheck(c)
  <2>1. call[c].kind = "task"
    BY <1>11 DEF Task!TaskPostcheck, Task!At
  <2> QED  BY <1>5, <1>6, <1>9, <1>10, <1>11, <2>1 DEF Task!TaskPostcheck
<1>12. CASE Task!FaultPostcheck(c)
  BY <1>5, <1>6, <1>7, <1>8, <1>9, <1>10, <1>12 DEF Task!FaultPostcheck, Task!FaultRetryPath
<1>13. CASE Task!SmokePostcheck(c)
  BY <1>5, <1>9, <1>13 DEF Task!SmokePostcheck
<1> QED  BY <1>11, <1>12, <1>13

(* What saves the state without a call.                                         *)
LEMMA SavingSteps ==
  ASSUME Orderly, Task!CodexSmoke \/ Task!Discover
  PROVE  Orderly'
<1>1. UNCHANGED <<workflow, call>> /\ saved'.state = workflow
  BY DEF Task!CodexSmoke, Task!Discover
<1> QED  BY <1>1 DEF Orderly, Idles

LEMMA MockSteps ==
  ASSUME Orderly, Task!RunMock, cause' = {}
  PROVE  Orderly'
<1> DEFINE over == spent > DailyLimit
           path == Task!Reset \o <<"PLANNING", "PRECHECK", "RUNNING_TEST", "TRIAGE", "CODEX_FIX">>
                   \o IF over THEN <<"HUMAN_REVIEW">>
                      ELSE <<"RUNNING_TEST", "EVALUATING", "COMPLETE">>
<1>1. /\ workflow' = Task!Furthest(workflow, path) /\ UNCHANGED call
      /\ saved' = IF Task!Legal(workflow, path) THEN [state |-> workflow', spent |-> spent] ELSE saved
      /\ cause' = IF Task!Busy THEN cause \cup {"overlap"} ELSE cause
  BY DEF Task!RunMock
<1>2. \A c \in Caller : Idles(c)
  BY <1>1 DEF Task!Busy, Idles
<1>3. workflow \in Task!Startable
  BY <1>2 DEF Orderly
<1>4. path = Task!Reset \o MockPath(over)
  <2>1. Task!Reset \in Seq(Task!Workflow)
    BY StateNames DEF Task!Reset
  <2> HIDE DEF over
  <2>2. <<"PLANNING", "PRECHECK", "RUNNING_TEST", "TRIAGE", "CODEX_FIX">> \in Seq(Task!Workflow)
        /\ (IF over THEN <<"HUMAN_REVIEW">> ELSE <<"RUNNING_TEST", "EVALUATING", "COMPLETE">>)
              \in Seq(Task!Workflow)
    BY StateNames
  <2>3. \A x, y, z \in Seq(Task!Workflow) : (x \o y) \o z = x \o (y \o z)
    BY ConcatAssociative
  <2> QED  BY <2>1, <2>2, <2>3 DEF MockPath
<1>5. PICK t \in Task!Startable : Reaches("IDLE", MockPath(over), t)
  BY MockReaches
<1> HIDE DEF over, path
<1>6. Reaches(workflow, path, t)
  BY <1>3, <1>4, <1>5, ResetFirst
<1>7. Task!Legal(workflow, path) /\ Task!Furthest(workflow, path) = t
  BY <1>6, Arrives
<1>8. workflow' = t /\ saved'.state = t
  BY <1>1, <1>7
<1> QED  BY <1>1, <1>2, <1>8 DEF Orderly, Idles

(* A restart outside a call finds a state from which a task can start.          *)
LEMMA TaskRestartSteps ==
  ASSUME Orderly, Task!Restart, cause' = {}
  PROVE  Orderly'
<1>1. workflow' = saved.state /\ UNCHANGED saved /\ call' = [c \in Caller |-> Task!Idle] /\ ~Task!Busy
  BY DEF Task!Restart
<1>2. \A c \in Caller : Idles(c)
  BY <1>1 DEF Task!Busy, Idles
<1>3. saved.state \in Task!Startable
  BY <1>2 DEF Orderly
<1>4. \A c \in Caller : Idles(c)' /\ Calling(call'[c])
  BY <1>1, IdleIs DEF Idles
<1>5. call' = [c \in Caller |-> call'[c]]
  BY <1>1
<1> QED  BY <1>1, <1>3, <1>4, <1>5 DEF Orderly
-----------------------------------------------------------------------------
LEMMA TaskBegins == Task!Init => TaskInv
<1> SUFFICES ASSUME Task!Init PROVE Orderly
  BY DEF TaskInv
<1>1. workflow = "IDLE" /\ saved = [state |-> "IDLE", spent |-> 0]
      /\ call = [c \in Caller |-> Task!Idle]
  BY DEF Task!Init
<1>2. workflow \in Task!Startable /\ saved.state \in Task!Startable
  BY <1>1, StateNames
<1>3. call = [c \in Caller |-> call[c]]
  BY <1>1
<1>4. \A c \in Caller : Idles(c) /\ Calling(call[c])
  BY <1>1, IdleIs DEF Idles
<1> QED  BY <1>2, <1>3, <1>4 DEF Orderly

(* What has kept a call from its regular end is never forgotten.                *)
LEMMA CausesStay ==
  ASSUME [Task!Next]_Task!taskVars, cause' = {}
  PROVE  cause = {}
<1>1. CASE UNCHANGED Task!taskVars
  BY <1>1 DEF Task!taskVars
<1>2. CASE \E c \in Caller : Task!StartTask(c) \/ Task!StartFault(c) \/ Task!StartSmoke(c)
  BY <1>2 DEF Task!StartTask, Task!StartFault, Task!StartSmoke, Task!NotConfigured, Task!Begins
<1>3. CASE \E c \in Caller : Task!TaskWorktree(c) \/ Task!FaultWorktree(c) \/ Task!Baseline(c)
  BY <1>3 DEF Task!TaskWorktree, Task!FaultWorktree, Task!Baseline, Task!others
<1>4. CASE \E c \in Caller : Task!TaskPrecheck(c) \/ Task!FaultPrecheck(c) \/ Task!SmokePrecheck(c)
  BY <1>4 DEF Task!TaskPrecheck, Task!FaultPrecheck, Task!SmokePrecheck, Task!others
<1>5. CASE \E c \in Caller : Task!AuthorizeTask(c) \/ Task!AuthorizeFault(c)
  BY <1>5 DEF Task!AuthorizeTask, Task!AuthorizeFault, Task!others
<1>6. CASE \E c \in Caller : Task!RunTaskCodex(c) \/ Task!RunFaultCodex(c) \/ Task!RunSmokeCodex(c)
  BY <1>6 DEF Task!RunTaskCodex, Task!RunFaultCodex, Task!RunSmokeCodex, Task!Codex, Task!others
<1>7. CASE \E c \in Caller : Task!TaskPostcheck(c) \/ Task!FaultPostcheck(c) \/ Task!SmokePostcheck(c)
  BY <1>7 DEF Task!TaskPostcheck, Task!FaultPostcheck, Task!SmokePostcheck, Task!others
<1>8. CASE \E c \in Caller : Task!Raises(c)
  BY <1>8 DEF Task!Raises
<1>9. CASE Task!CodexSmoke \/ Task!RunMock \/ Task!Discover \/ Task!Restart
  BY <1>9 DEF Task!CodexSmoke, Task!RunMock, Task!Discover, Task!Restart, Task!others
<1> QED
  BY <1>1, <1>2, <1>3, <1>4, <1>5, <1>6, <1>7, <1>8, <1>9 DEF Task!Next

LEMMA TaskSteps ==
  ASSUME TaskInv, [Task!Next]_Task!taskVars
  PROVE  TaskInv'
<1> SUFFICES ASSUME cause' = {} PROVE Orderly'
  BY DEF TaskInv
<1>1. Orderly
  BY CausesStay DEF TaskInv
<1>2. CASE UNCHANGED Task!taskVars
  <2>1. UNCHANGED <<workflow, saved, call>>
    BY <1>2 DEF Task!taskVars
  <2> QED  BY <1>1, <2>1 DEF Orderly, Idles
<1>3. \A c \in Caller : ~Task!Raises(c)
  BY DEF Task!Raises
<1> QED
  BY <1>1, <1>2, <1>3, StartSteps, WorktreeSteps, PrecheckSteps, AuthorizeSteps, CodexSteps,
     PostcheckSteps, SavingSteps, MockSteps, TaskRestartSteps DEF Task!Next

(* The steps of the other components leave the workflow as it is.               *)
LEMMA TaskPart ==
  /\ Init => Task!Init
  /\ [Next]_allVars => [Task!Next]_Task!taskVars
BY DEF Init, Next, allVars, taskAll, Task!taskVars, RecoveryOnly, BusOnly, TaskOnly, GitOnly, GoingOnly,
       PlanOnly, ControlsOnly, PreflightOnly

LEMMA TaskInvariant == Spec => []TaskInv
<1>1. Init => TaskInv
  BY TaskPart, TaskBegins
<1>2. TaskInv /\ [Next]_allVars => TaskInv'
  BY TaskPart, TaskSteps
<1> QED  BY <1>1, <1>2, PTL DEF Spec

(* Over tasks, faults, smokes and the mock task on the one workflow: where no   *)
(* call overlapped another, no restart met one, no retry of a task was blocked  *)
(* and nothing was left uncaught, every call leaves a state from which the next *)
(* task can start.                                                              *)
THEOREM WorkflowIsLeftStartable ==
  Spec => []NextTaskCanStart
<1>1. TaskInv => NextTaskCanStart
  BY DEF NextTaskCanStart, TaskInv, Orderly, Idles, Task!NextTaskCanStart, Task!Busy
<1> QED  BY <1>1, TaskInvariant, PTL
-----------------------------------------------------------------------------
(* The types of the shared workflow and of the calls.                           *)
CallPlaces == {"idle", "worktree", "baseline", "precheck", "authorize", "codex", "postcheck"}
Calls == [kind : Task!Kind, retry : 0..BudgetRetry, tree : Task!Tree, fixed : BOOLEAN, at : CallPlaces]
Saves == [state : Task!Workflow, spent : 0..MaxSpent]
TaskRecords == [result : Task!Results, tree : Task!Tree, fixed : BOOLEAN]

(* The budget allows a repair that a task or a fault has under way, so that the *)
(* next retry is within it.                                                     *)
Repairs(r) == r \in Calls /\ (r.at \in {"codex", "postcheck"} /\ r.kind # "smoke" => r.retry < BudgetRetry)

(* What a step of a call changes.                                               *)
Held ==
  /\ workflow \in Task!Workflow /\ saved \in Saves /\ record \in TaskRecords
  /\ call = [c \in Caller |-> call[c]] /\ \A c \in Caller : Repairs(call[c])

TaskCounts ==
  /\ spent \in 0..MaxSpent /\ mockDone \in BOOLEAN
  /\ calls \in 0..MaxCalls /\ recoveries \in 0..MaxRestart
  /\ cause \subseteq {"overlap", "restart", "blocked_retry", "raised"}

TaskTypes == Held /\ TaskCounts

LEMMA TaskLimits ==
  BudgetRetry \in Nat /\ MaxCalls \in Nat /\ MaxSpent \in Nat /\ MaxRestart \in Nat
BY ControlCenterAssumption DEF Task!TaskAssumption

(* A sequence has a longest legal beginning, and its last state is a state of   *)
(* the workflow.                                                                *)
LEMMA FurthestIsAState ==
  ASSUME NEW s \in Task!Workflow, NEW path \in Seq(Task!Workflow)
  PROVE  Task!Furthest(s, path) \in Task!Workflow
<1> DEFINE Stop(n) == /\ Task!Legal(s, SubSeq(path, 1, n))
                      /\ n = Len(path) \/ ~Task!Legal(s, SubSeq(path, 1, n + 1))
           Illegal(i) == path[i] \notin Task!Transitions[(<<s>> \o path)[i]]
           Wrong == {i \in 1..Len(path) : Illegal(i)}
<1>0. Len(path) \in Nat
  OBVIOUS
<1>1. ASSUME NEW n \in 0..Len(path)
      PROVE  Task!Legal(s, SubSeq(path, 1, n)) <=> \A i \in 1..n : ~Illegal(i)
  <2>1. SubSeq(path, 1, n) \in Seq(Task!Workflow) /\ Len(SubSeq(path, 1, n)) = n
    BY <1>0
  <2>2. \A i \in 1..n : SubSeq(path, 1, n)[i] = path[i]
    BY <1>0
  <2>3. \A i \in 1..n : (<<s>> \o SubSeq(path, 1, n))[i] = (<<s>> \o path)[i]
    BY <1>0, <2>1, <2>2
  <2> QED  BY <2>1, <2>2, <2>3 DEF Task!Legal
<1> HIDE DEF Illegal
<1>2. \E n \in 0..Len(path) : Stop(n)
  <2>1. CASE Wrong = {}
    <3>1. Stop(Len(path)) /\ Len(path) \in 0..Len(path)
      BY <1>0, <1>1, <2>1
    <3> QED  BY <3>1
  <2>2. CASE Wrong # {}
    <3>1. Wrong \in SUBSET Nat
      BY <1>0
    <3>2. PICK i \in Wrong : \A m \in Wrong : i <= m
      <4> HIDE DEF Wrong
      <4> QED  BY <2>2, <3>1, LeastNat
    <3>3. i \in 1..Len(path) /\ Illegal(i) /\ i - 1 \in 0..Len(path) /\ i \in 0..Len(path) /\ (i - 1) + 1 = i
      BY <1>0, <3>2
    <3>4. \A j \in 1..(i - 1) : ~Illegal(j)
      <4> TAKE j \in 1..(i - 1)
      <4>1. j \in 1..Len(path) /\ j < i
        BY <1>0, <3>3
      <4>2. j \notin Wrong
        <5>1. \A m \in Wrong : m \in Nat
          BY <3>1
        <5> HIDE DEF Wrong
        <5> QED  BY <3>2, <4>1, <5>1
      <4> QED  BY <4>1, <4>2
    <3>5. Task!Legal(s, SubSeq(path, 1, i - 1)) /\ ~Task!Legal(s, SubSeq(path, 1, i))
      BY <1>1, <3>3, <3>4
    <3>6. Stop(i - 1)
      BY <3>3, <3>5
    <3> HIDE DEF Stop
    <3> QED  BY <3>3, <3>6
  <2> QED  BY <2>1, <2>2
<1>3. Task!Furthest(s, path) = (<<s>> \o path)[(CHOOSE n \in 0..Len(path) : Stop(n)) + 1]
  BY DEF Task!Furthest
<1>4. PICK n \in 0..Len(path) : n = (CHOOSE m \in 0..Len(path) : Stop(m))
  <2> HIDE DEF Stop
  <2> QED  BY <1>2
<1>5. (<<s>> \o path)[n + 1] \in Task!Workflow
  <2>1. <<s>> \o path \in Seq(Task!Workflow) /\ Len(<<s>> \o path) = Len(path) + 1
    BY <1>0
  <2> QED  BY <1>0, <2>1
<1> HIDE DEF Stop
<1> QED  BY <1>3, <1>4, <1>5

(* The ends of a step: the call goes on, ends with a record, or starts Codex.   *)
LEMMA OneCall ==
  ASSUME Held, NEW c \in Caller, NEW next, Repairs(next), call' = [call EXCEPT ![c] = next]
  PROVE  call' = [d \in Caller |-> call'[d]] /\ \A d \in Caller : Repairs(call'[d])
BY DEF Held

LEMMA IdleCall == Repairs(Task!Idle)
<1>1. Task!Idle \in Calls
  <2>1. "task" \in Task!Kind /\ 0 \in 0..BudgetRetry /\ "clean" \in Task!Tree /\ "idle" \in CallPlaces
    BY TaskLimits DEF Task!Kind, Task!Tree, CallPlaces
  <2>2. FALSE \in BOOLEAN
    BY Zenon
  <2> QED  BY <2>1, <2>2, Zenon DEF Task!Idle, Calls
<1>2. Task!Idle.at = "idle"
  BY Zenon DEF Task!Idle
<1> QED  BY <1>1, <1>2 DEF Repairs

LEMMA HeldGoesOn ==
  ASSUME Held, NEW c \in Caller, NEW path \in Seq(Task!Workflow), NEW next, Repairs(next),
         Task!GoesOn(c, path, next)
  PROVE  Held'
<1>1. workflow' \in Task!Workflow
  BY FurthestIsAState DEF Held, Task!GoesOn
<1>2. call' = [call EXCEPT ![c] = next] \/ call' = [call EXCEPT ![c] = Task!Idle]
  BY DEF Task!GoesOn
<1>3. call' = [d \in Caller |-> call'[d]] /\ \A d \in Caller : Repairs(call'[d])
  BY <1>2, OneCall, IdleCall
<1>4. UNCHANGED <<saved, record>>
  BY DEF Task!GoesOn
<1> QED  BY <1>1, <1>3, <1>4 DEF Held

LEMMA HeldEnds ==
  ASSUME Held, NEW c \in Caller, NEW path \in Seq(Task!Workflow), NEW result \in Task!Results,
         spent' \in 0..MaxSpent, Task!Ends(c, path, result)
  PROVE  Held'
<1>1. workflow' \in Task!Workflow
  BY FurthestIsAState DEF Held, Task!Ends
<1>2. call' = [call EXCEPT ![c] = Task!Idle]
  BY DEF Task!Ends
<1>3. call' = [d \in Caller |-> call'[d]] /\ \A d \in Caller : Repairs(call'[d])
  BY <1>2, OneCall, IdleCall
<1>4. \/ /\ record' = [result |-> result, tree |-> call[c].tree, fixed |-> call[c].fixed]
         /\ saved' = [state |-> workflow', spent |-> spent']
      \/ UNCHANGED <<record, saved>>
  BY Zenon DEF Task!Ends
<1>5. [result |-> result, tree |-> call[c].tree, fixed |-> call[c].fixed] \in TaskRecords
  <2>1. call[c] \in Calls
    BY DEF Held, Repairs
  <2>2. call[c].tree \in Task!Tree /\ call[c].fixed \in BOOLEAN
    BY <2>1, Zenon DEF Calls
  <2> QED  BY <2>2, Zenon DEF TaskRecords
<1>6. [state |-> workflow', spent |-> spent'] \in Saves
  BY <1>1 DEF Saves
<1> QED  BY <1>1, <1>3, <1>4, <1>5, <1>6, Zenon DEF Held

LEMMA HeldStartsCodex ==
  ASSUME Held, NEW c \in Caller, NEW path \in Seq(Task!Workflow), spent \in 0..MaxSpent,
         call[c].kind = "smoke" \/ call[c].retry < BudgetRetry,
         Task!StartsCodex(c, path)
  PROVE  Held'
<1> DEFINE next == [call[c] EXCEPT !.at = "codex"]
<1>1. workflow' \in Task!Workflow
  BY FurthestIsAState DEF Held, Task!StartsCodex
<1>2. call' = [call EXCEPT ![c] = next] \/ call' = [call EXCEPT ![c] = Task!Idle]
  BY DEF Task!StartsCodex
<1>3. Repairs(next)
  <2>1. call[c] \in Calls /\ "codex" \in CallPlaces
    BY DEF Held, Repairs, CallPlaces
  <2>2. next \in Calls /\ next.kind = call[c].kind /\ next.retry = call[c].retry
    BY <2>1, Zenon DEF Calls
  <2> QED  BY <2>2 DEF Repairs
<1> HIDE DEF next
<1>4. call' = [d \in Caller |-> call'[d]] /\ \A d \in Caller : Repairs(call'[d])
  BY <1>2, <1>3, OneCall, IdleCall
<1>5. saved' = [state |-> workflow', spent |-> spent] \/ UNCHANGED saved
  BY DEF Task!StartsCodex
<1>6. [state |-> workflow', spent |-> spent] \in Saves
  BY <1>1 DEF Saves
<1>7. UNCHANGED record
  BY DEF Task!StartsCodex
<1> QED  BY <1>1, <1>4, <1>5, <1>6, <1>7 DEF Held

LEMMA CountsKept ==
  ASSUME TaskCounts, UNCHANGED Task!others, spent' \in 0..MaxSpent
  PROVE  TaskCounts'
<1>1. mockDone \in BOOLEAN
  BY Zenon DEF TaskCounts
<1>2. UNCHANGED <<mockDone, calls, recoveries, cause>>
  BY DEF Task!others
<1>3. mockDone' \in BOOLEAN
  BY <1>1, <1>2, Zenon
<1>4. /\ calls' \in 0..MaxCalls /\ recoveries' \in 0..MaxRestart
      /\ cause' \subseteq {"overlap", "restart", "blocked_retry", "raised"}
  BY <1>2 DEF TaskCounts
<1> QED  BY <1>3, <1>4, Zenon DEF TaskCounts

LEMMA CallKept ==
  ASSUME NEW r \in Calls
  PROVE  /\ \A v \in CallPlaces : /\ [r EXCEPT !.at = v] \in Calls /\ [r EXCEPT !.at = v].at = v
                                 /\ [r EXCEPT !.at = v].kind = r.kind /\ [r EXCEPT !.at = v].retry = r.retry
         /\ \A v \in Task!Kind : [r EXCEPT !.kind = v] \in Calls /\ [r EXCEPT !.kind = v].at = r.at
         /\ \A v \in Task!Tree : /\ [r EXCEPT !.tree = v] \in Calls /\ [r EXCEPT !.tree = v].at = r.at
                                /\ [r EXCEPT !.tree = v].kind = r.kind /\ [r EXCEPT !.tree = v].retry = r.retry
         /\ \A v \in BOOLEAN : /\ [r EXCEPT !.fixed = v] \in Calls /\ [r EXCEPT !.fixed = v].at = r.at
                              /\ [r EXCEPT !.fixed = v].kind = r.kind /\ [r EXCEPT !.fixed = v].retry = r.retry
         /\ \A v \in 0..BudgetRetry : [r EXCEPT !.retry = v] \in Calls /\ [r EXCEPT !.retry = v].at = r.at
<1>1. \A v \in CallPlaces : /\ [r EXCEPT !.at = v] \in Calls /\ [r EXCEPT !.at = v].at = v
                            /\ [r EXCEPT !.at = v].kind = r.kind /\ [r EXCEPT !.at = v].retry = r.retry
  BY Zenon DEF Calls
<1>2. \A v \in Task!Kind : [r EXCEPT !.kind = v] \in Calls /\ [r EXCEPT !.kind = v].at = r.at
  BY Zenon DEF Calls
<1>3. \A v \in Task!Tree : /\ [r EXCEPT !.tree = v] \in Calls /\ [r EXCEPT !.tree = v].at = r.at
                           /\ [r EXCEPT !.tree = v].kind = r.kind /\ [r EXCEPT !.tree = v].retry = r.retry
  BY Zenon DEF Calls
<1>4. \A v \in BOOLEAN : /\ [r EXCEPT !.fixed = v] \in Calls /\ [r EXCEPT !.fixed = v].at = r.at
                         /\ [r EXCEPT !.fixed = v].kind = r.kind /\ [r EXCEPT !.fixed = v].retry = r.retry
  BY Zenon DEF Calls
<1>5. \A v \in 0..BudgetRetry : [r EXCEPT !.retry = v] \in Calls /\ [r EXCEPT !.retry = v].at = r.at
  BY Zenon DEF Calls
<1> QED  BY <1>1, <1>2, <1>3, <1>4, <1>5

(* The paths of the handlers are made of states.                                *)
LEMMA PathsAreStates ==
  ASSUME NEW a \in Task!Workflow, NEW b \in Task!Workflow, NEW d \in Task!Workflow
  PROVE  /\ <<>> \in Seq(Task!Workflow) /\ <<a>> \in Seq(Task!Workflow)
         /\ <<a, b>> \in Seq(Task!Workflow) /\ <<a, b, d>> \in Seq(Task!Workflow)
         /\ Task!Reset \o <<a>> \in Seq(Task!Workflow) /\ Task!Reset \o <<a, b>> \in Seq(Task!Workflow)
<1>1. Task!Reset \in Seq(Task!Workflow)
  <2>1. "IDLE" \in Task!Workflow
    BY DEF Task!Workflow
  <2> QED  BY <2>1 DEF Task!Reset
<1>2. /\ <<>> \in Seq(Task!Workflow) /\ <<a>> \in Seq(Task!Workflow)
      /\ <<a, b>> \in Seq(Task!Workflow) /\ <<a, b, d>> \in Seq(Task!Workflow)
  OBVIOUS
<1> QED  BY <1>1, <1>2

LEMMA StartTyped ==
  ASSUME TaskTypes, NEW c \in Caller, Task!StartTask(c) \/ Task!StartFault(c) \/ Task!StartSmoke(c)
  PROVE  TaskTypes'
<1>1. ASSUME NEW results0 \in SUBSET Task!Results, Task!NotConfigured(c, results0) PROVE TaskTypes'
  <2>1. PICK result \in Task!Results : record' = [Task!NoRecord EXCEPT !.result = result]
    BY <1>1 DEF Task!NotConfigured
  <2>2. record' \in TaskRecords
    <3>1. Task!NoRecord = [result |-> "NONE", tree |-> "clean", fixed |-> FALSE]
      BY Zenon DEF Task!NoRecord
    <3>2. FALSE \in BOOLEAN /\ "clean" \in Task!Tree
      BY Zenon DEF Task!Tree
    <3>3. record' = [result |-> result, tree |-> "clean", fixed |-> FALSE]
      BY <2>1, <3>1, Zenon
    <3> QED  BY <3>2, <3>3, Zenon DEF TaskRecords
  <2>3. /\ saved' = [state |-> workflow, spent |-> spent] /\ calls' = calls + 1 /\ calls < MaxCalls
        /\ UNCHANGED <<workflow, call, spent, recoveries, cause>>
    BY <1>1 DEF Task!NotConfigured
  <2>4. UNCHANGED mockDone /\ mockDone \in BOOLEAN
    BY <1>1, Zenon DEF Task!NotConfigured, TaskTypes, TaskCounts
  <2>5. saved' \in Saves
    BY <2>3 DEF TaskTypes, Held, TaskCounts, Saves
  <2>6. Held'
    BY <2>2, <2>3, <2>5 DEF TaskTypes, Held
  <2>7. /\ spent' \in 0..MaxSpent /\ calls' \in 0..MaxCalls /\ recoveries' \in 0..MaxRestart
        /\ cause' \subseteq {"overlap", "restart", "blocked_retry", "raised"}
    BY <2>3, TaskLimits DEF TaskTypes, TaskCounts
  <2>8. mockDone' \in BOOLEAN
    BY <2>4, Zenon
  <2> QED  BY <2>6, <2>7, <2>8, Zenon DEF TaskTypes, TaskCounts
<1>2. ASSUME NEW path, Task!Reset \o path \in Seq(Task!Workflow), NEW next, Repairs(next),
             Task!Begins(c, path, next)
      PROVE  TaskTypes'
  <2>1. Task!GoesOn(c, Task!Reset \o path, next)
    BY <1>2 DEF Task!Begins
  <2>2. Held'
    BY <1>2, <2>1, HeldGoesOn DEF TaskTypes
  <2>3. /\ calls' = calls + 1 /\ calls < MaxCalls /\ UNCHANGED <<spent, recoveries>>
        /\ cause' \in {cause, cause \cup {"overlap"}}
    BY <1>2 DEF Task!Begins
  <2>4. UNCHANGED mockDone /\ mockDone \in BOOLEAN
    BY <1>2, Zenon DEF Task!Begins, TaskTypes, TaskCounts
  <2>5. /\ spent' \in 0..MaxSpent /\ calls' \in 0..MaxCalls /\ recoveries' \in 0..MaxRestart
        /\ cause' \subseteq {"overlap", "restart", "blocked_retry", "raised"}
    BY <2>3, TaskLimits DEF TaskTypes, TaskCounts
  <2>6. mockDone' \in BOOLEAN
    BY <2>4, Zenon
  <2> QED  BY <2>2, <2>5, <2>6, Zenon DEF TaskTypes, TaskCounts
<1>3. {"FAILED", "HUMAN_REVIEW"} \in SUBSET Task!Results /\ {"FAILED"} \in SUBSET Task!Results
  BY DEF Task!Results
<1>4. /\ Task!Reset \o <<"PLANNING">> \in Seq(Task!Workflow)
      /\ Task!Reset \o <<"PLANNING", "PRECHECK">> \in Seq(Task!Workflow)
  <2>1. "PLANNING" \in Task!Workflow /\ "PRECHECK" \in Task!Workflow
    BY StateNames
  <2> QED  BY <2>1, PathsAreStates
<1>5. /\ Task!Idle \in Calls /\ "worktree" \in CallPlaces /\ "precheck" \in CallPlaces
      /\ "fault" \in Task!Kind /\ "smoke" \in Task!Kind
  BY IdleCall DEF Repairs, CallPlaces, Task!Kind
<1>6. ASSUME NEW kind \in Task!Kind, NEW at \in {"worktree", "precheck"}
      PROVE  Repairs([Task!Idle EXCEPT !.at = at]) /\ Repairs([Task!Idle EXCEPT !.kind = kind, !.at = at])
  <2>0. at \in CallPlaces
    BY <1>5
  <2>1. Repairs([Task!Idle EXCEPT !.at = at])
    <3>1. [Task!Idle EXCEPT !.at = at] \in Calls /\ [Task!Idle EXCEPT !.at = at].at = at
      BY <1>5, <2>0, CallKept
    <3> QED  BY <3>1 DEF Repairs
  <2>2. Repairs([Task!Idle EXCEPT !.kind = kind, !.at = at])
    <3> DEFINE r1 == [Task!Idle EXCEPT !.kind = kind]
               r2 == [r1 EXCEPT !.at = at]
    <3>1. r1 \in Calls
      BY <1>5, CallKept
    <3> HIDE DEF r1
    <3>2. r2 \in Calls /\ r2.at = at
      BY <2>0, <3>1, CallKept
    <3>3. Repairs(r2)
      BY <3>2 DEF Repairs
    <3> QED  BY <3>3, Zenon DEF r1
  <2> QED  BY <2>1, <2>2
<1>7. CASE Task!StartTask(c)
  <2>1. \/ Task!NotConfigured(c, {"FAILED", "HUMAN_REVIEW"})
        \/ Task!Begins(c, <<"PLANNING">>, [Task!Idle EXCEPT !.at = "worktree"])
    BY <1>7, Zenon DEF Task!StartTask
  <2>2. Repairs([Task!Idle EXCEPT !.at = "worktree"])
    BY <1>5, <1>6
  <2> QED  BY <1>1, <1>2, <1>3, <1>4, <2>1, <2>2, Zenon
<1>8. CASE Task!StartFault(c)
  <2>1. \/ Task!NotConfigured(c, {"FAILED", "HUMAN_REVIEW"})
        \/ Task!Begins(c, <<"PLANNING">>, [Task!Idle EXCEPT !.kind = "fault", !.at = "worktree"])
    BY <1>8, Zenon DEF Task!StartFault
  <2>2. Repairs([Task!Idle EXCEPT !.kind = "fault", !.at = "worktree"])
    BY <1>5, <1>6
  <2> QED  BY <1>1, <1>2, <1>3, <1>4, <2>1, <2>2, Zenon
<1>9. CASE Task!StartSmoke(c)
  <2>1. \/ Task!NotConfigured(c, {"FAILED"})
        \/ Task!Begins(c, <<"PLANNING", "PRECHECK">>, [Task!Idle EXCEPT !.kind = "smoke", !.at = "precheck"])
    BY <1>9, Zenon DEF Task!StartSmoke
  <2>2. Repairs([Task!Idle EXCEPT !.kind = "smoke", !.at = "precheck"])
    BY <1>5, <1>6
  <2> QED  BY <1>1, <1>2, <1>3, <1>4, <2>1, <2>2, Zenon
<1> QED  BY <1>7, <1>8, <1>9

(* A step of a call that counts nothing, by what it comes to.                   *)
EndsIn(c) == \E path \in Seq(Task!Workflow), result \in Task!Results : Task!Ends(c, path, result)
GoesTo(c) ==
  \E path \in Seq(Task!Workflow), next \in Calls : Repairs(next) /\ Task!GoesOn(c, path, next)
Starts(c) ==
  \E path \in Seq(Task!Workflow) :
    (call[c].kind = "smoke" \/ call[c].retry < BudgetRetry) /\ Task!StartsCodex(c, path)

LEMMA CallStepTyped ==
  ASSUME TaskTypes, NEW c \in Caller, EndsIn(c) \/ GoesTo(c) \/ Starts(c), UNCHANGED <<spent, Task!others>>
  PROVE  TaskTypes'
<1>1. spent' \in 0..MaxSpent /\ spent \in 0..MaxSpent
  BY DEF TaskTypes, TaskCounts
<1>2. CASE EndsIn(c)
  BY <1>1, <1>2, HeldEnds, CountsKept DEF EndsIn, TaskTypes
<1>3. CASE GoesTo(c)
  BY <1>1, <1>3, HeldGoesOn, CountsKept DEF GoesTo, TaskTypes
<1>4. CASE Starts(c)
  BY <1>1, <1>4, HeldStartsCodex, CountsKept DEF Starts, TaskTypes
<1> QED  BY <1>2, <1>3, <1>4

LEMMA ResultNames ==
  \A x \in {"COMPLETE", "COMPLETE_NO_CHANGE", "HUMAN_REVIEW", "FAILED"} : x \in Task!Results
BY DEF Task!Results

(* A call before the budget is asked: any place is good for it.                 *)
LEMMA BeforeCodex ==
  ASSUME Held, NEW c \in Caller, NEW at \in CallPlaces \ {"codex", "postcheck"}
  PROVE  /\ call[c] \in Calls /\ Repairs([call[c] EXCEPT !.at = at])
         /\ \A fixed \in BOOLEAN : /\ Repairs([call[c] EXCEPT !.fixed = fixed, !.at = at])
                                  /\ Repairs([call[c] EXCEPT !.at = at, !.fixed = fixed])
<1>1. call[c] \in Calls
  BY DEF Held, Repairs
<1>2. [call[c] EXCEPT !.at = at] \in Calls /\ [call[c] EXCEPT !.at = at].at = at
  BY <1>1, CallKept
<1>3. ASSUME NEW fixed \in BOOLEAN
      PROVE  /\ Repairs([call[c] EXCEPT !.fixed = fixed, !.at = at])
             /\ Repairs([call[c] EXCEPT !.at = at, !.fixed = fixed])
  <2> DEFINE r1 == [call[c] EXCEPT !.fixed = fixed]
             r2 == [r1 EXCEPT !.at = at]
             s1 == [call[c] EXCEPT !.at = at]
             s2 == [s1 EXCEPT !.fixed = fixed]
  <2>1. r1 \in Calls
    BY <1>1, CallKept, Zenon
  <2>2. s1 \in Calls /\ s1.at = at
    BY <1>2
  <2> HIDE DEF r1, s1
  <2>3. r2 \in Calls /\ r2.at = at
    BY <2>1, CallKept
  <2>4. s2 \in Calls /\ s2.at = at
    BY <2>2, CallKept, Zenon
  <2> HIDE DEF r2, s2
  <2>5. Repairs(r2) /\ Repairs(s2)
    BY <2>3, <2>4 DEF Repairs
  <2> QED  BY <2>5, Zenon DEF r1, r2, s1, s2
<1> QED  BY <1>1, <1>2, <1>3 DEF Repairs

LEMMA WorktreeTyped ==
  ASSUME TaskTypes, NEW c \in Caller, Task!TaskWorktree(c) \/ Task!FaultWorktree(c) \/ Task!Baseline(c)
  PROVE  TaskTypes'
<1>1. UNCHANGED <<spent, Task!others>>
  BY DEF Task!TaskWorktree, Task!FaultWorktree, Task!Baseline
<1>2. /\ <<"HUMAN_REVIEW">> \in Seq(Task!Workflow) /\ <<"PRECHECK">> \in Seq(Task!Workflow)
      /\ <<>> \in Seq(Task!Workflow) /\ "HUMAN_REVIEW" \in Task!Results
  BY StateNames, ResultNames
<1>3. {"precheck", "baseline"} \subseteq CallPlaces \ {"codex", "postcheck"}
  BY DEF CallPlaces
<1>4. TRUE \in BOOLEAN /\ FALSE \in BOOLEAN
  BY Zenon
<1>5. Held
  BY DEF TaskTypes
<1>6. CASE Task!Ends(c, <<"HUMAN_REVIEW">>, "HUMAN_REVIEW")
  BY <1>1, <1>2, <1>6, CallStepTyped DEF EndsIn
<1>7. ASSUME NEW path \in Seq(Task!Workflow), NEW next, Repairs(next), Task!GoesOn(c, path, next)
      PROVE  TaskTypes'
  BY <1>1, <1>7, CallStepTyped DEF GoesTo, Repairs
<1>8. CASE Task!TaskWorktree(c)
  <2>1. ASSUME NEW fixed \in BOOLEAN
        PROVE  Repairs([call[c] EXCEPT !.fixed = fixed, !.at = "precheck"])
    BY <1>3, <1>5, BeforeCodex
  <2> QED  BY <1>2, <1>6, <1>7, <1>8, <2>1, Zenon DEF Task!TaskWorktree
<1>9. CASE Task!FaultWorktree(c)
  <2>1. Repairs([call[c] EXCEPT !.fixed = TRUE, !.at = "baseline"])
    <3>1. "baseline" \in CallPlaces \ {"codex", "postcheck"}
      BY <1>3
    <3> QED  BY <1>4, <1>5, <3>1, BeforeCodex, Zenon
  <2> QED  BY <1>2, <1>6, <1>7, <1>9, <2>1, Zenon DEF Task!FaultWorktree
<1>10. CASE Task!Baseline(c)
  <2>1. Repairs([call[c] EXCEPT !.at = "precheck", !.fixed = FALSE])
    <3>1. "precheck" \in CallPlaces \ {"codex", "postcheck"}
      BY <1>3
    <3> QED  BY <1>4, <1>5, <3>1, BeforeCodex, Zenon
  <2> QED  BY <1>2, <1>6, <1>7, <1>10, <2>1, Zenon DEF Task!Baseline
<1> QED  BY <1>8, <1>9, <1>10

LEMMA PrecheckTyped ==
  ASSUME TaskTypes, NEW c \in Caller, Task!TaskPrecheck(c) \/ Task!FaultPrecheck(c) \/ Task!SmokePrecheck(c)
  PROVE  TaskTypes'
<1>1. UNCHANGED <<spent, Task!others>>
  BY DEF Task!TaskPrecheck, Task!FaultPrecheck, Task!SmokePrecheck
<1>2. /\ <<"RUNNING_TEST", "COMPLETE">> \in Seq(Task!Workflow)
      /\ <<"RUNNING_TEST", "TRIAGE", "HUMAN_REVIEW">> \in Seq(Task!Workflow)
      /\ <<"RUNNING_TEST", "TRIAGE", "FAILED">> \in Seq(Task!Workflow)
      /\ <<"RUNNING_TEST", "TRIAGE">> \in Seq(Task!Workflow)
      /\ <<"RUNNING_TEST", "FAILED">> \in Seq(Task!Workflow) /\ <<"FAILED">> \in Seq(Task!Workflow)
      /\ <<"RUNNING_TEST", "TRIAGE", "CODEX_FIX">> \in Seq(Task!Workflow)
  BY StateNames
<1>3. Held /\ Repairs([call[c] EXCEPT !.at = "authorize"])
  <2>1. "authorize" \in CallPlaces \ {"codex", "postcheck"} /\ Held
    BY DEF CallPlaces, TaskTypes
  <2> QED  BY <2>1, BeforeCodex
<1>4. ASSUME NEW path \in Seq(Task!Workflow), NEW result \in Task!Results, Task!Ends(c, path, result)
      PROVE  TaskTypes'
  BY <1>1, <1>4, CallStepTyped DEF EndsIn
<1>5. CASE Task!GoesOn(c, <<"RUNNING_TEST", "TRIAGE">>, [call[c] EXCEPT !.at = "authorize"])
  BY <1>1, <1>2, <1>3, <1>5, CallStepTyped DEF GoesTo, Repairs
<1>6. CASE Task!TaskPrecheck(c)
  BY <1>2, <1>4, <1>5, <1>6, ResultNames, Zenon DEF Task!TaskPrecheck
<1>7. CASE Task!FaultPrecheck(c)
  BY <1>2, <1>4, <1>5, <1>7, ResultNames, Zenon DEF Task!FaultPrecheck
<1>8. CASE Task!SmokePrecheck(c)
  <2>1. call[c].kind = "smoke"
    BY <1>8 DEF Task!SmokePrecheck, Task!At
  <2>2. CASE Task!StartsCodex(c, <<"RUNNING_TEST", "TRIAGE", "CODEX_FIX">>)
    BY <1>1, <1>2, <2>1, <2>2, CallStepTyped DEF Starts
  <2> QED  BY <1>2, <1>4, <1>8, <2>2, ResultNames, Zenon DEF Task!SmokePrecheck
<1> QED  BY <1>6, <1>7, <1>8

LEMMA AuthorizeTyped ==
  ASSUME TaskTypes, NEW c \in Caller, Task!AuthorizeTask(c) \/ Task!AuthorizeFault(c)
  PROVE  TaskTypes'
<1>1. /\ <<"HUMAN_REVIEW">> \in Seq(Task!Workflow) /\ <<"CODEX_FIX">> \in Seq(Task!Workflow)
      /\ <<"TRIAGE", "CODEX_FIX">> \in Seq(Task!Workflow) /\ "HUMAN_REVIEW" \in Task!Results
  BY StateNames, ResultNames
<1>2. Held /\ spent \in 0..MaxSpent /\ call[c] \in Calls /\ call[c].retry \in 0..BudgetRetry
  BY DEF TaskTypes, TaskCounts, Held, Repairs, Calls
<1>3. ~Task!Exceeded(call[c].retry) => call[c].retry < BudgetRetry
  BY <1>2, TaskLimits DEF Task!Exceeded
<1>4. CASE Task!AuthorizeTask(c)
  <2>1. UNCHANGED <<spent, mockDone, calls, recoveries>> /\ cause' \in {cause, cause \cup {"blocked_retry"}}
    BY <1>4 DEF Task!AuthorizeTask
  <2>2. Held'
    <3>1. CASE Task!Ends(c, <<"HUMAN_REVIEW">>, "HUMAN_REVIEW")
      <4>1. spent' \in 0..MaxSpent
        BY <1>2, <2>1
      <4> QED  BY <1>1, <1>2, <3>1, <4>1, HeldEnds
    <3>2. CASE /\ ~Task!Exceeded(call[c].retry)
               /\ Task!StartsCodex(c, IF workflow = "RUNNING_TEST" THEN <<"TRIAGE", "CODEX_FIX">> ELSE <<"CODEX_FIX">>)
      <4>1. (IF workflow = "RUNNING_TEST" THEN <<"TRIAGE", "CODEX_FIX">> ELSE <<"CODEX_FIX">>) \in Seq(Task!Workflow)
        BY <1>1
      <4> QED  BY <1>2, <1>3, <3>2, <4>1, HeldStartsCodex
    <3> QED  BY <1>4, <3>1, <3>2, Zenon DEF Task!AuthorizeTask
  <2>3. mockDone' \in BOOLEAN
    <3>1. mockDone \in BOOLEAN /\ mockDone' = mockDone
      BY <2>1, Zenon DEF TaskTypes, TaskCounts
    <3> QED  BY <3>1, Zenon
  <2>4. /\ spent' \in 0..MaxSpent /\ calls' \in 0..MaxCalls /\ recoveries' \in 0..MaxRestart
        /\ cause' \subseteq {"overlap", "restart", "blocked_retry", "raised"}
    BY <2>1 DEF TaskTypes, TaskCounts
  <2> QED  BY <2>2, <2>3, <2>4, Zenon DEF TaskTypes, TaskCounts
<1>5. CASE Task!AuthorizeFault(c)
  <2>1. UNCHANGED <<spent, Task!others>>
    BY <1>5 DEF Task!AuthorizeFault
  <2>2. CASE Task!Ends(c, <<"HUMAN_REVIEW">>, "HUMAN_REVIEW")
    BY <1>1, <2>1, <2>2, CallStepTyped DEF EndsIn
  <2>3. CASE ~Task!Exceeded(call[c].retry) /\ Task!StartsCodex(c, <<"CODEX_FIX">>)
    BY <1>1, <1>3, <2>1, <2>3, CallStepTyped DEF Starts
  <2> QED  BY <1>5, <2>2, <2>3, Zenon DEF Task!AuthorizeFault
<1> QED  BY <1>4, <1>5

(* Codex has been at work within the budget's retries, and the check after it   *)
(* still knows that.                                                            *)
LEMMA CodexTyped ==
  ASSUME TaskTypes, NEW c \in Caller, Task!RunTaskCodex(c) \/ Task!RunFaultCodex(c) \/ Task!RunSmokeCodex(c)
  PROVE  TaskTypes'
<1>1. PICK trees \in SUBSET Task!Tree : Task!Codex(c, trees)
  BY Zenon DEF Task!RunTaskCodex, Task!RunFaultCodex, Task!RunSmokeCodex
<1>2. call[c].at = "codex"
  BY DEF Task!RunTaskCodex, Task!RunFaultCodex, Task!RunSmokeCodex, Task!At
<1>3. Held /\ TaskCounts /\ call[c] \in Calls /\ (call[c].kind # "smoke" => call[c].retry < BudgetRetry)
  BY <1>2 DEF TaskTypes, Held, Repairs
<1>4. UNCHANGED Task!others /\ spent' \in 0..MaxSpent
  <2>1. UNCHANGED Task!others /\ spent < MaxSpent /\ spent' = spent + 1
    BY <1>1, Zenon DEF Task!Codex
  <2> QED  BY <1>3, <2>1, TaskLimits DEF TaskCounts
<1>5. /\ <<"FAILED">> \in Seq(Task!Workflow) /\ <<"HUMAN_REVIEW">> \in Seq(Task!Workflow)
      /\ <<"RUNNING_TEST">> \in Seq(Task!Workflow)
  BY StateNames
<1>6. Held'
  <2>1. ASSUME NEW path \in Seq(Task!Workflow), NEW result \in Task!Results, Task!Ends(c, path, result)
        PROVE  Held'
    BY <1>3, <1>4, <2>1, HeldEnds
  <2>2. ASSUME NEW tree \in trees, NEW fixed \in BOOLEAN,
               Task!GoesOn(c, <<"RUNNING_TEST">>,
                           [call[c] EXCEPT !.at = "postcheck", !.tree = tree, !.fixed = fixed])
        PROVE  Held'
    <3> DEFINE r1 == [call[c] EXCEPT !.at = "postcheck"]
               r2 == [r1 EXCEPT !.tree = tree]
               r3 == [r2 EXCEPT !.fixed = fixed]
    <3>1. Task!GoesOn(c, <<"RUNNING_TEST">>, r3)
      BY <2>2, Zenon
    <3>2. r1 \in Calls /\ r1.kind = call[c].kind /\ r1.retry = call[c].retry
      BY <1>3, CallKept DEF CallPlaces
    <3> HIDE DEF r1
    <3>3. r2 \in Calls /\ r2.kind = call[c].kind /\ r2.retry = call[c].retry
      <4>1. tree \in Task!Tree
        BY <1>1
      <4> QED  BY <3>2, <4>1, CallKept
    <3> HIDE DEF r2
    <3>4. r3 \in Calls /\ r3.kind = call[c].kind /\ r3.retry = call[c].retry
      BY <3>3, CallKept, Zenon
    <3> HIDE DEF r3
    <3>5. Repairs(r3)
      BY <1>3, <3>4 DEF Repairs
    <3> QED  BY <1>3, <1>5, <3>1, <3>5, HeldGoesOn
  <2> QED  BY <1>1, <1>5, <2>1, <2>2, ResultNames, Zenon DEF Task!Codex
<1> QED  BY <1>3, <1>4, <1>6, CountsKept DEF TaskTypes

LEMMA PostcheckTyped ==
  ASSUME TaskTypes, NEW c \in Caller, Task!TaskPostcheck(c) \/ Task!FaultPostcheck(c) \/ Task!SmokePostcheck(c)
  PROVE  TaskTypes'
<1>1. UNCHANGED <<spent, Task!others>>
  BY DEF Task!TaskPostcheck, Task!FaultPostcheck, Task!SmokePostcheck
<1>2. /\ <<"COMPLETE">> \in Seq(Task!Workflow) /\ <<"FAILED">> \in Seq(Task!Workflow)
      /\ <<"TRIAGE", "HUMAN_REVIEW">> \in Seq(Task!Workflow)
      /\ <<"EVALUATING", "HUMAN_REVIEW">> \in Seq(Task!Workflow)
      /\ <<"EVALUATING", "COMPLETE">> \in Seq(Task!Workflow)
      /\ <<>> \in Seq(Task!Workflow) /\ Task!FaultRetryPath \in Seq(Task!Workflow)
  BY StateNames DEF Task!FaultRetryPath
<1>3. ASSUME NEW path \in Seq(Task!Workflow), NEW result \in Task!Results, Task!Ends(c, path, result)
      PROVE  TaskTypes'
  BY <1>1, <1>3, CallStepTyped DEF EndsIn
<1>4. ASSUME NEW path \in Seq(Task!Workflow), call[c].at = "postcheck", call[c].kind # "smoke",
             Task!GoesOn(c, path, [call[c] EXCEPT !.at = "authorize", !.retry = @ + 1])
      PROVE  TaskTypes'
  <2>1. call[c] \in Calls /\ call[c].retry \in 0..BudgetRetry /\ call[c].retry < BudgetRetry
    BY <1>4 DEF TaskTypes, Held, Repairs, Calls
  <2> DEFINE r1 == [call[c] EXCEPT !.at = "authorize"]
             r2 == [r1 EXCEPT !.retry = call[c].retry + 1]
  <2>2. Task!GoesOn(c, path, r2)
    <3>1. r1.retry = call[c].retry
      BY <2>1, CallKept DEF CallPlaces
    <3>2. [call[c] EXCEPT !.at = "authorize", !.retry = @ + 1] = [r1 EXCEPT !.retry = r1.retry + 1]
      BY Zenon
    <3> QED  BY <1>4, <3>1, <3>2
  <2>3. r1 \in Calls /\ r1.at = "authorize"
    BY <2>1, CallKept DEF CallPlaces
  <2> HIDE DEF r1
  <2>4. call[c].retry + 1 \in 0..BudgetRetry
    BY <2>1, TaskLimits
  <2>5. r2 \in Calls /\ r2.at = "authorize"
    BY <2>3, <2>4, CallKept
  <2> HIDE DEF r2
  <2>6. Repairs(r2)
    BY <2>5 DEF Repairs
  <2> QED  BY <1>1, <1>4, <2>2, <2>5, <2>6, CallStepTyped DEF GoesTo
<1>5. CASE Task!TaskPostcheck(c)
  <2>1. call[c].at = "postcheck" /\ call[c].kind # "smoke"
    BY <1>5 DEF Task!TaskPostcheck, Task!At
  <2> QED  BY <1>2, <1>3, <1>4, <1>5, <2>1, ResultNames, Zenon DEF Task!TaskPostcheck
<1>6. CASE Task!FaultPostcheck(c)
  <2>1. call[c].at = "postcheck" /\ call[c].kind # "smoke"
    BY <1>6 DEF Task!FaultPostcheck, Task!At
  <2> QED  BY <1>2, <1>3, <1>4, <1>6, <2>1, ResultNames, Zenon DEF Task!FaultPostcheck
<1>7. CASE Task!SmokePostcheck(c)
  BY <1>2, <1>3, <1>7, ResultNames, Zenon DEF Task!SmokePostcheck
<1> QED  BY <1>5, <1>6, <1>7

(* What saves, restarts, or runs the mock task.                                 *)
LEMMA SavesTyped ==
  ASSUME TaskTypes, Task!CodexSmoke \/ Task!Discover
  PROVE  TaskTypes'
<1>1. spent' \in 0..MaxSpent
  BY TaskLimits DEF TaskTypes, TaskCounts, Task!CodexSmoke, Task!Discover
<1>2. /\ saved' = [state |-> workflow, spent |-> spent'] /\ UNCHANGED <<workflow, call, record>>
  BY DEF Task!CodexSmoke, Task!Discover
<1>3. UNCHANGED Task!others
  BY DEF Task!CodexSmoke, Task!Discover
<1>4. saved' \in Saves
  BY <1>1, <1>2 DEF TaskTypes, Held, Saves
<1>5. Held'
  BY <1>2, <1>4 DEF TaskTypes, Held
<1> QED  BY <1>1, <1>3, <1>5, CountsKept DEF TaskTypes

LEMMA MockTyped ==
  ASSUME TaskTypes, Task!RunMock
  PROVE  TaskTypes'
<1> DEFINE over == spent > DailyLimit
           path == Task!Reset \o <<"PLANNING", "PRECHECK", "RUNNING_TEST", "TRIAGE", "CODEX_FIX">>
                   \o IF over THEN <<"HUMAN_REVIEW">> ELSE <<"RUNNING_TEST", "EVALUATING", "COMPLETE">>
<1>1. path \in Seq(Task!Workflow)
  <2>1. /\ <<"HUMAN_REVIEW">> \in Seq(Task!Workflow) /\ <<"RUNNING_TEST", "EVALUATING", "COMPLETE">> \in Seq(Task!Workflow)
        /\ <<"PLANNING", "PRECHECK", "RUNNING_TEST", "TRIAGE", "CODEX_FIX">> \in Seq(Task!Workflow)
        /\ Task!Reset \in Seq(Task!Workflow)
    BY StateNames DEF Task!Reset
  <2> HIDE DEF over
  <2> QED  BY <2>1
<1>2. /\ workflow' = Task!Furthest(workflow, path)
      /\ saved' = IF Task!Legal(workflow, path) THEN [state |-> workflow', spent |-> spent] ELSE saved
  BY Zenon DEF Task!RunMock
<1>3. mockDone' = (Task!Legal(workflow, path) /\ ~over)
  BY Zenon DEF Task!RunMock
<1>4. UNCHANGED <<spent, call, record, calls, recoveries>> /\ cause' \in {cause, cause \cup {"overlap"}}
  BY DEF Task!RunMock
<1>5. mockDone' \in BOOLEAN
  BY <1>3, Zenon
<1> HIDE DEF path
<1>6. workflow' \in Task!Workflow
  BY <1>1, <1>2, FurthestIsAState DEF TaskTypes, Held
<1>7. saved' \in Saves
  BY <1>2, <1>6 DEF TaskTypes, TaskCounts, Held, Saves
<1>8. Held'
  BY <1>4, <1>6, <1>7 DEF TaskTypes, Held
<1>9. /\ spent' \in 0..MaxSpent /\ calls' \in 0..MaxCalls /\ recoveries' \in 0..MaxRestart
      /\ cause' \subseteq {"overlap", "restart", "blocked_retry", "raised"}
  BY <1>4 DEF TaskTypes, TaskCounts
<1> QED  BY <1>5, <1>8, <1>9, Zenon DEF TaskTypes, TaskCounts

LEMMA TaskRestartTyped ==
  ASSUME TaskTypes, Task!Restart
  PROVE  TaskTypes'
<1>1. /\ recoveries < MaxRestart /\ recoveries' = recoveries + 1
      /\ workflow' = saved.state /\ spent' = saved.spent /\ call' = [c \in Caller |-> Task!Idle]
      /\ cause' \in {cause, cause \cup {"restart"}} /\ UNCHANGED <<saved, record, calls>>
  BY DEF Task!Restart
<1>2. saved.state \in Task!Workflow /\ saved.spent \in 0..MaxSpent
  BY DEF TaskTypes, Held, Saves
<1>3. Held'
  BY <1>1, <1>2, IdleCall DEF TaskTypes, Held
<1>4. /\ spent' \in 0..MaxSpent /\ calls' \in 0..MaxCalls /\ recoveries' \in 0..MaxRestart
      /\ cause' \subseteq {"overlap", "restart", "blocked_retry", "raised"}
  BY <1>1, <1>2, TaskLimits DEF TaskTypes, TaskCounts
<1>5. mockDone' = mockDone /\ mockDone \in BOOLEAN
  BY Zenon DEF TaskTypes, TaskCounts, Task!Restart
<1>6. mockDone' \in BOOLEAN
  BY <1>5, Zenon
<1> QED  BY <1>3, <1>4, <1>6, Zenon DEF TaskTypes, TaskCounts

LEMMA RaisesTyped ==
  ASSUME TaskTypes, NEW c \in Caller, Task!Raises(c)
  PROVE  TaskTypes'
<1>1. /\ call' = [call EXCEPT ![c] = Task!Idle] /\ cause' = cause \cup {"raised"}
      /\ UNCHANGED <<workflow, spent, saved, record, calls, recoveries>>
  BY DEF Task!Raises
<1>2. Held'
  BY <1>1, IdleCall, OneCall DEF TaskTypes, Held
<1>3. /\ spent' \in 0..MaxSpent /\ calls' \in 0..MaxCalls /\ recoveries' \in 0..MaxRestart
      /\ cause' \subseteq {"overlap", "restart", "blocked_retry", "raised"}
  BY <1>1 DEF TaskTypes, TaskCounts
<1>4. mockDone' = mockDone /\ mockDone \in BOOLEAN
  BY Zenon DEF TaskTypes, TaskCounts, Task!Raises
<1>5. mockDone' \in BOOLEAN
  BY <1>4, Zenon
<1> QED  BY <1>2, <1>3, <1>5, Zenon DEF TaskTypes, TaskCounts

LEMMA TaskTypesStep ==
  ASSUME TaskTypes, [Task!Next]_Task!taskVars
  PROVE  TaskTypes'
<1>1. CASE UNCHANGED Task!taskVars
  <2>1. UNCHANGED <<workflow, spent, saved, mockDone, call, record, calls, recoveries, cause>>
    BY <1>1 DEF Task!taskVars
  <2> QED  BY <2>1, Zenon DEF TaskTypes, TaskCounts, Held
<1> QED
  BY <1>1, StartTyped, WorktreeTyped, PrecheckTyped, AuthorizeTyped, CodexTyped, PostcheckTyped,
     RaisesTyped, SavesTyped, MockTyped, TaskRestartTyped DEF Task!Next

LEMMA TaskTypesBegin == Task!Init => TaskTypes
<1> SUFFICES ASSUME Task!Init PROVE TaskTypes
  OBVIOUS
<1>1. mockDone \in BOOLEAN
  BY Zenon DEF Task!Init
<1>2. record \in TaskRecords
  <2>1. record = [result |-> "NONE", tree |-> "clean", fixed |-> FALSE]
    BY Zenon DEF Task!Init, Task!NoRecord
  <2>2. "NONE" \in Task!Results /\ "clean" \in Task!Tree
    BY DEF Task!Results, Task!Tree
  <2>3. FALSE \in BOOLEAN
    BY Zenon
  <2> QED  BY <2>1, <2>2, <2>3, Zenon DEF TaskRecords
<1>3. Held
  <2>1. /\ workflow = "IDLE" /\ saved = [state |-> "IDLE", spent |-> 0] /\ call = [c \in Caller |-> Task!Idle]
    BY DEF Task!Init
  <2>2. saved \in Saves /\ workflow \in Task!Workflow
    BY <2>1, TaskLimits, StateNames DEF Saves
  <2> QED  BY <1>2, <2>1, <2>2, IdleCall DEF Held
<1>4. /\ spent \in 0..MaxSpent /\ calls \in 0..MaxCalls /\ recoveries \in 0..MaxRestart
      /\ cause \subseteq {"overlap", "restart", "blocked_retry", "raised"}
  BY TaskLimits DEF Task!Init
<1> QED  BY <1>1, <1>3, <1>4, Zenon DEF TaskTypes, TaskCounts

(* Every variable of the task engine keeps its type: however many transitions   *)
(* of a handler are refused the workflow is in one of its states, and no call   *)
(* retries beyond the budget, whatever max_retry the task has.                  *)
THEOREM WorkflowTypes == Spec => []Task!TypeOK
<1>1. Init => TaskTypes
  BY TaskPart, TaskTypesBegin
<1>2. TaskTypes /\ [Next]_allVars => TaskTypes'
  BY TaskPart, TaskTypesStep
<1>3. ASSUME TaskTypes PROVE Task!TypeOK
  <2>1. call \in [Caller -> Calls]
    BY <1>3 DEF TaskTypes, Held, Repairs
  <2> QED
    BY <1>3, <2>1, Zenon DEF TaskTypes, TaskCounts, Held, Task!TypeOK, Calls, CallPlaces, Saves, TaskRecords
<1> QED  BY <1>1, <1>2, <1>3, PTL DEF Spec
=============================================================================
