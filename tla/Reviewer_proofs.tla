--------------------------- MODULE Reviewer_proofs ---------------------------
(* Proofs about the reviewer's side of the control center, for every value of   *)
(* the bounds: the repair of a rejected report (TransportRecovery) and the bus  *)
(* that hands replies to Codex (ReviewerBus).                                   *)
EXTENDS ControlCenter, WellFoundedInduction, TLAPS
-----------------------------------------------------------------------------
(* The repair of a rejected report.                                             *)

(* What is not needed to tell one POST from two, and is needed for the types.   *)
Counted ==
  /\ phase \in Recovery!Phases /\ child \in Recovery!Children \cup {"none"}
  /\ posts \in {0, 1} /\ inFlight \in BOOLEAN
  /\ comments \in [own : {0, 1}, foreign : 0..MaxForeign]
  /\ comments.own = 1 => posts = 1 /\ inFlight = FALSE
  /\ inFlight = TRUE => posts = 1
  /\ entry \in [Recovery!Children -> Recovery!Entries]
  /\ tickAt \in {"idle", "tick", "create", "post"}

(* A POST is only ahead of a record that says POSTING and has not posted yet;   *)
(* before that phase is saved there was none, and nothing of it can be seen.    *)
Announced ==
  /\ phase \in {"NONE", "DETECTED", "PREPARING"} => posts = 0
  /\ tickAt = "post" => phase = "POSTING" /\ posts = 0
  /\ tickAt = "create" => phase = "PREPARING" /\ child = "own"
  /\ tickAt = "tick" => phase \notin Recovery!Final
  /\ posts = 0 => entry["own"] = "ABSENT"

(* A repair that was given up has not been applied by Codex.                    *)
GivenUp == Recovery!EscalatedIsNotApplied

RecoveryInv == Counted /\ Announced /\ GivenUp

(* The counters and what a tick has read.                                       *)
Bounded ==
  /\ repairable \in BOOLEAN /\ attempts \in 0..2 /\ clock \in 0..Deadline
  /\ request \in {"absent", "ours", "other"}
  /\ seen = Recovery!Unread \/ seen \in [own : 0..2, foreign : 0..MaxForeign]
  /\ restarts \in 0..MaxCrash

LEMMA IsTrue ==
  ASSUME NEW b \in BOOLEAN, b
  PROVE  b = TRUE
  BY Zenon

LEMMA RecoveryBegins ==
  ASSUME Recovery!RecoveryAssumption, Recovery!Init
  PROVE  RecoveryInv /\ Bounded
<1> USE DEF Recovery!RecoveryAssumption, Recovery!Init, Recovery!Children
<1>1. 0 \in 0..MaxForeign /\ 0 \in 0..Deadline /\ 0 \in 0..MaxCrash
  OBVIOUS
<1>2. comments.own = 0 /\ comments \in [own : {0, 1}, foreign : 0..MaxForeign]
  BY <1>1 DEF Recovery!NoComments
<1>3. Counted
  BY <1>2 DEF Counted, Recovery!Phases, Recovery!Entries
<1>4. Announced /\ GivenUp
  BY DEF Announced, GivenUp, Recovery!EscalatedIsNotApplied, Recovery!Final
<1>5. repairable \in BOOLEAN
  BY Zenon
<1>6. Bounded
  <2> HIDE DEF Recovery!RecoveryAssumption
  <2> QED  BY <1>1, <1>5 DEF Bounded
<1> QED  BY <1>3, <1>4, <1>6 DEF RecoveryInv

LEMMA RecoverySteps ==
  ASSUME Recovery!RecoveryAssumption, RecoveryInv, [Recovery!Next]_Recovery!recoveryVars
  PROVE  RecoveryInv'
<1> USE DEF RecoveryInv, Counted, Announced, GivenUp, Recovery!EscalatedIsNotApplied,
            Recovery!RecoveryAssumption, Recovery!Phases, Recovery!Children, Recovery!Final,
            Recovery!Entries, Recovery!Applied, Recovery!Failed
<1>1. CASE Recovery!Reject
  BY <1>1 DEF Recovery!Reject
<1>2. CASE Recovery!Poll
  BY <1>2 DEF Recovery!Poll, Recovery!world
<1>3. CASE Recovery!Tick
  <2> USE <1>3 DEF Recovery!Tick, Recovery!world, Recovery!Saves
  <2>1. CASE Recovery!Settles
    BY <2>1 DEF Recovery!Settles, Recovery!Target
  <2>2. CASE Recovery!Open /\ Recovery!Saves(phase)
    BY <2>2 DEF Recovery!Open, Recovery!Target
  <2>3. CASE Recovery!Open /\ Recovery!Waits
    BY <2>3 DEF Recovery!Open, Recovery!Target, Recovery!Waits
  <2>4. CASE Recovery!Open /\ Recovery!Adopts
    BY <2>4 DEF Recovery!Open, Recovery!Target, Recovery!Adopts, Recovery!Fails
  <2>5. CASE Recovery!Open /\ Recovery!ReadsBack
    BY <2>5 DEF Recovery!Open, Recovery!Target, Recovery!ReadsBack
  <2>6. CASE Recovery!Open /\ Recovery!Prepares
    BY <2>6 DEF Recovery!Open, Recovery!Target, Recovery!Prepares, Recovery!Fails
  <2> QED  BY <2>1, <2>2, <2>3, <2>4, <2>5, <2>6
<1>4. CASE Recovery!CreateRequest
  BY <1>4 DEF Recovery!CreateRequest, Recovery!Fails, Recovery!Saves
<1>5. CASE Recovery!Post
  <2> USE <1>5 DEF Recovery!Post
  <2>1. CASE comments' = [comments EXCEPT !.own = @ + 1] /\ UNCHANGED inFlight
    <3>1. comments.own = 0 /\ comments.foreign \in 0..MaxForeign
      OBVIOUS
    <3>2. comments'.own = 1 /\ comments'.foreign = comments.foreign
          /\ comments' \in [own : {0, 1}, foreign : 0..MaxForeign]
      BY <2>1, <3>1
    <3> QED  BY <2>1, <3>2
  <2>2. CASE UNCHANGED comments /\ inFlight' \in {TRUE, inFlight}
    <3>1. posts = 0 /\ posts' = 1 /\ phase' = "POSTING" /\ tickAt' = "idle" /\ comments.own = 0
      OBVIOUS
    <3>2. UNCHANGED <<phase, child, entry>>
      OBVIOUS
    <3>3. inFlight' \in BOOLEAN
      BY <2>2, Zenon
    <3>4. UNCHANGED comments
      BY <2>2
    <3> HIDE <1>5
    <3> QED  BY <3>1, <3>2, <3>3, <3>4
  <2>3. \/ comments' = [comments EXCEPT !.own = @ + 1] /\ UNCHANGED inFlight
        \/ UNCHANGED comments /\ inFlight' \in {TRUE, inFlight}
    <3> HIDE DEF RecoveryInv
    <3> QED  OBVIOUS
  <2> QED  BY <2>1, <2>2, <2>3
<1>6. CASE Recovery!ArrivesLate
  <2> USE <1>6 DEF Recovery!ArrivesLate
  <2>0. inFlight = TRUE
    <3>1. inFlight \in BOOLEAN
      BY Zenon
    <3>2. inFlight
      BY Zenon
    <3> HIDE DEF Recovery!ArrivesLate, RecoveryInv
    <3> QED  BY <3>1, <3>2, IsTrue
  <2>1. comments.own = 0 /\ comments.foreign \in 0..MaxForeign /\ posts = 1
    BY <2>0
  <2>2. comments'.own = 1 /\ comments'.foreign = comments.foreign
        /\ comments' \in [own : {0, 1}, foreign : 0..MaxForeign]
    BY <2>1
  <2> QED  BY <2>1, <2>2
<1>7. CASE Recovery!ReplacedByHand
  BY <1>7 DEF Recovery!ReplacedByHand
<1>8. CASE Recovery!ClockAdvances
  BY <1>8 DEF Recovery!ClockAdvances, Recovery!world
<1>9. ASSUME NEW c \in Recovery!Children, Recovery!BusReads(c) PROVE RecoveryInv'
  BY <1>9 DEF Recovery!BusReads, Recovery!Becomes
<1>10. ASSUME NEW c \in Recovery!Children, Recovery!BusContinues(c) PROVE RecoveryInv'
  BY <1>10 DEF Recovery!BusContinues, Recovery!Becomes, Recovery!Blocks
<1>11. CASE Recovery!Restart
  BY <1>11 DEF Recovery!Restart, Recovery!world
<1>12. CASE UNCHANGED Recovery!recoveryVars
  BY <1>12 DEF Recovery!recoveryVars
<1> QED
  BY <1>1, <1>2, <1>3, <1>4, <1>5, <1>6, <1>7, <1>8, <1>9, <1>10, <1>11, <1>12
  DEF Recovery!Next, Recovery!TickSteps

(* The steps of the other components leave the recovery as it is.               *)
LEMMA RecoveryPart ==
  /\ Init => Recovery!Init
  /\ [Next]_allVars => [Recovery!Next]_Recovery!recoveryVars
BY DEF Init, Next, allVars, recoveryState, Recovery!recoveryVars, RecoveryOnly, BusOnly, TaskOnly, GitOnly, GoingOnly,
       PlanOnly, ControlsOnly, PreflightOnly

LEMMA RecoveryInvariant == Spec => []RecoveryInv
<1>1. Recovery!RecoveryAssumption
  BY ControlCenterAssumption
<1>2. Init => RecoveryInv
  BY <1>1, RecoveryPart, RecoveryBegins
<1>3. RecoveryInv /\ [Next]_allVars => RecoveryInv'
  BY <1>1, RecoveryPart, RecoverySteps
<1> QED  BY <1>2, <1>3, PTL DEF Spec

(* The trigger comment of a replacement is posted at most once: over restarts,  *)
(* lost answers and both attempts of reviewer_recovery.py.                      *)
THEOREM TriggeredOnce ==
  Spec => []PostedAtMostOnce
<1>1. RecoveryInv => PostedAtMostOnce
  BY DEF PostedAtMostOnce, RecoveryInv, Counted, Recovery!PostedAtMostOnce
<1> QED  BY <1>1, RecoveryInvariant, PTL

(* A replacement whose recovery was given up is never applied by Codex, also    *)
(* when its comment or the answer to it comes later: blocks_continuation holds  *)
(* it back, and the polls that go on reading it, acknowledging it and ending    *)
(* its wait for a human never ask Codex.                                        *)
THEOREM GivenUpForGood ==
  Spec => []EscalatedIsNotApplied
<1>1. RecoveryInv => EscalatedIsNotApplied
  BY DEF EscalatedIsNotApplied, RecoveryInv, GivenUp
<1> QED  BY <1>1, RecoveryInvariant, PTL

LEMMA BoundedSteps ==
  ASSUME Recovery!RecoveryAssumption, RecoveryInv, Bounded,
         [Recovery!Next]_Recovery!recoveryVars
  PROVE  Bounded'
<1> USE DEF Recovery!RecoveryAssumption, Bounded
<1>1. CASE Recovery!Reject
  BY <1>1 DEF Recovery!Reject
<1>2. CASE Recovery!Poll
  <2>1. comments \in [own : 0..2, foreign : 0..MaxForeign]
    BY DEF RecoveryInv, Counted
  <2> QED  BY <1>2, <2>1 DEF Recovery!Poll, Recovery!world
<1>3. CASE Recovery!Tick
  <2>1. attempts' \in 0..2
    BY <1>3 DEF Recovery!Tick, Recovery!Saves, Recovery!Settles, Recovery!Waits,
                Recovery!Adopts, Recovery!Fails, Recovery!ReadsBack, Recovery!Prepares
  <2>2. seen' = Recovery!Unread
        /\ UNCHANGED <<repairable, request, clock, restarts>>
    BY <1>3 DEF Recovery!Tick, Recovery!world
  <2> QED  BY <2>1, <2>2
<1>4. CASE Recovery!CreateRequest
  BY <1>4 DEF Recovery!CreateRequest, Recovery!Fails, Recovery!Saves
<1>5. CASE \/ Recovery!Post \/ Recovery!ArrivesLate \/ Recovery!ReplacedByHand
           \/ \E c \in Recovery!Children : Recovery!BusReads(c) \/ Recovery!BusContinues(c)
           \/ UNCHANGED Recovery!recoveryVars
  <2>1. UNCHANGED <<repairable, attempts, clock, request, seen, restarts>>
    BY <1>5 DEF Recovery!Post, Recovery!ArrivesLate, Recovery!ReplacedByHand,
                Recovery!BusReads, Recovery!BusContinues, Recovery!Becomes, Recovery!recoveryVars
  <2> QED  BY <2>1
<1>6. CASE Recovery!ClockAdvances
  BY <1>6 DEF Recovery!ClockAdvances, Recovery!Expired, Recovery!world
<1>7. CASE Recovery!Restart
  BY <1>7 DEF Recovery!Restart, Recovery!world
<1> QED
  BY <1>1, <1>2, <1>3, <1>4, <1>5, <1>6, <1>7 DEF Recovery!Next, Recovery!TickSteps

(* The record, the clock and what the branch holds keep their types: two        *)
(* attempts, and at most the one comment the tick has posted.                   *)
THEOREM RecoveryTypes ==
  Spec => []Recovery!TypeOK
<1>1. RecoveryInv /\ Bounded => Recovery!TypeOK
  BY DEF RecoveryInv, Counted, Bounded, Recovery!TypeOK
<1>2. Recovery!RecoveryAssumption
  BY ControlCenterAssumption
<1>3. Init => Bounded
  BY <1>2, RecoveryPart, RecoveryBegins
<1>4. RecoveryInv /\ Bounded /\ [Next]_allVars => Bounded'
  BY <1>2, RecoveryPart, BoundedSteps
<1> QED  BY <1>1, <1>3, <1>4, RecoveryInvariant, PTL DEF Spec
-----------------------------------------------------------------------------
(* The bus.                                                                     *)

Report == Bus!Report
Working == {"codex", "post", "resolve", "mark"}

Cycles ==
  [at : {"idle", "sync", "files", "choose"} \cup Working, seen : 0..MaxReports,
   ids : [Report -> 0..MaxEdits], said : [Report -> Bus!Reply], report : 0..MaxReports, next : 0..MaxReports]

BusTypes ==
  /\ Bus!TypeOK /\ cycle \in Cycles
  /\ runs \in 0..MaxRuns /\ \A r \in Report : continued[r] <= runs
  /\ \A r \in Report : replyIds[r] <= edits

(* A processed report has ended, and no poll can open it again: it was one that *)
(* asked for a reply.                                                           *)
Settled ==
  \A r \in processed :
    r <= posted /\ registry[r] \in Bus!Ended /\ (Transport[r] = "comment" => NeedsReply[r])

(* A pending reply is of a report that is not processed yet and outstanding,    *)
(* unless a recovery has just made another one outstanding.                     *)
Bound ==
  pending.report # 0 =>
    /\ pending.report \notin processed /\ pending.report <= posted
    /\ Transport[pending.report] = "comment" => NeedsReply[pending.report]
    /\ pending.said # "NONE"
    /\ outstanding # pending.report =>
         Transport[pending.report] = "file" /\ cycle.at \in {"idle", "sync", "files"}

(* The reports a cycle has read are still there.                                *)
Fetched ==
  cycle.at # "idle" => cycle.seen <= posted /\ cycle.next <= posted

(* After the registry was brought up to date a report that wants no reply is    *)
(* not eligible; a file that was read is of an open report, and is the pending  *)
(* one as it was bound.                                                         *)
Synchronized ==
  cycle.at \in {"files", "choose"} =>
    \A r \in 1..cycle.seen :
      Transport[r] = "comment" /\ registry[r] \in Bus!Eligible => NeedsReply[r]

Validated ==
  cycle.at = "choose" =>
    \A r \in Report :
      Transport[r] = "file" /\ cycle.said[r] # "NONE" =>
        r \notin processed /\ (pending.report = r => cycle.said[r] = pending.said)

(* The report that is handed to Codex, published about and marked is pending    *)
(* and not processed.                                                           *)
Handling ==
  cycle.at \in Working =>
    /\ cycle.report # 0 /\ cycle.report = pending.report
    /\ cycle.at = "mark" => registry[cycle.report] \in {"HUMAN_REQUIRED", "APPLIED"}

BusInv == BusTypes /\ Settled /\ Bound /\ Fetched /\ Synchronized /\ Validated /\ Handling

LEMMA LeastNat ==
  ASSUME NEW S \in SUBSET Nat, S # {}
  PROVE  \E n \in S : \A m \in S : n <= m
<1> DEFINE R == OpToRel(<, Nat)
<1>1. IsWellFoundedOn(R, Nat)
  BY NatLessThanWellFounded
<1>2. PICK n \in S : \A m \in S : ~(<<m, n>> \in R)
  <2> HIDE DEF R
  <2> QED  BY <1>1, WFMin
<1>3. \A m \in S : ~(m < n)
  BY <1>2 DEF OpToRel
<1> QED  BY <1>3

LEMMA LeastIsIn ==
  ASSUME NEW S \in SUBSET Nat, S # {}
  PROVE  Bus!Least(S) \in S
  BY LeastNat DEF Bus!Least

(* The current report is one the cycle has seen; without a pending reply it is  *)
(* eligible, with one it is the pending report.                                 *)
LEMMA CurrentIsOne ==
  ASSUME Bus!BusAssumption, BusInv, cycle.at = "choose", NEW r, r = Bus!CurrentReport, r # 0
  PROVE  /\ r \in Report /\ r <= cycle.seen /\ r <= posted
         /\ pending.report # 0 => r = pending.report
         /\ pending.report = 0 => registry[r] \in Bus!Eligible
         /\ Transport[r] = "comment" => NeedsReply[r]
<1> USE DEF Bus!BusAssumption
<1>1. cycle.seen \in Nat /\ cycle.seen <= posted /\ posted \in 1..MaxReports
  BY DEF BusInv, BusTypes, Cycles, Fetched, Bus!TypeOK, Bus!Report, Report
<1>2. CASE pending.report # 0
  <2>1. outstanding = pending.report
    BY <1>2 DEF BusInv, Bound
  <2>2. r = pending.report /\ r \in 1..cycle.seen
    BY <1>2, <2>1 DEF Bus!CurrentReport, Bus!Controlling
  <2> QED  BY <1>1, <1>2, <2>2 DEF BusInv, Bound, Report, Bus!Report
<1>3. CASE pending.report = 0
  <2> DEFINE eligible == {q \in Bus!Controlling : q \notin refused /\ registry[q] \in Bus!Eligible}
             ready == {q \in eligible : registry[q] = "RESPONSE_RECEIVED"}
  <2>1. eligible \in SUBSET Nat /\ ready \in SUBSET Nat
    BY DEF Bus!Controlling
  <2>2. r \in eligible
    <3>1. CASE ready # {}
      <4>1. r = Bus!Least(ready)
        BY <1>3, <3>1 DEF Bus!CurrentReport
      <4> QED  BY <2>1, <3>1, <4>1, LeastIsIn
    <3>2. CASE ready = {} /\ eligible # {}
      <4>1. r = Bus!Least(eligible)
        BY <1>3, <3>2 DEF Bus!CurrentReport
      <4> QED  BY <2>1, <3>2, <4>1, LeastIsIn
    <3>3. CASE ready = {} /\ eligible = {}
      BY <1>3, <3>3 DEF Bus!CurrentReport
    <3> QED  BY <3>1, <3>2, <3>3
  <2>3. r \in 1..cycle.seen /\ registry[r] \in Bus!Eligible
    BY <2>2 DEF Bus!Controlling
  <2> QED  BY <1>1, <1>3, <2>3 DEF BusInv, Synchronized, Report, Bus!Report
<1> QED  BY <1>2, <1>3

LEMMA CycleType ==
  ASSUME NEW at \in {"idle", "sync", "files", "choose"} \cup Working, NEW seenTo \in 0..MaxReports,
         NEW ids \in [Report -> 0..MaxEdits], NEW said \in [Report -> Bus!Reply], NEW report \in 0..MaxReports,
         NEW next \in 0..MaxReports
  PROVE  [at |-> at, seen |-> seenTo, ids |-> ids, said |-> said, report |-> report, next |-> next] \in Cycles
  BY DEF Cycles

LEMMA BusBegins ==
  ASSUME Bus!BusAssumption, Bus!Init
  PROVE  BusInv
<1> USE DEF Bus!BusAssumption, Bus!Init, Report, Bus!Report
<1>1. /\ pending.report = 0 /\ pending \in [report : 0..MaxReports, id : 0..MaxEdits, said : Bus!Reply]
      /\ cycle.at = "idle"
  BY DEF Bus!NoReply, Bus!Between, Bus!Reply
<1>2. cycle \in Cycles
  <2>1. /\ [r \in Report |-> "NONE"] \in [Report -> Bus!Reply]
        /\ [r \in Report |-> 0] \in [Report -> 0..MaxEdits]
        /\ 0 \in 0..MaxReports
    BY DEF Bus!Reply
  <2> QED  BY <2>1, CycleType DEF Bus!Between
<1>3. 1 \in 1..MaxReports /\ \A m \in Nat : 0 \in 0..m
  OBVIOUS
<1>4. Bus!TypeOK
  BY <1>1, <1>3 DEF Bus!TypeOK, Bus!Reply, Bus!EntryState
<1>5. BusTypes
  BY <1>2, <1>3, <1>4 DEF BusTypes
<1> QED
  BY <1>1, <1>5 DEF BusInv, Settled, Bound, Fetched, Synchronized, Validated, Handling, Working

(* The start of a cycle: what is read is what is there.                         *)
LEMMA FetchKeeps ==
  ASSUME Bus!BusAssumption, BusInv, Bus!Fetch
  PROVE  BusInv'
<1> DEFINE Read == [r \in Report |-> IF Transport[r] = "comment" THEN replies[r] ELSE "NONE"]
<1>1. /\ posted \in 1..MaxReports /\ MaxReports \in Nat
      /\ replies \in [Report -> Bus!Reply] /\ replyIds \in [Report -> 0..MaxEdits]
  BY DEF Bus!BusAssumption, BusInv, BusTypes, Bus!TypeOK, Report, Bus!Report
<1>2. cycle.at = "idle"
      /\ cycle' = [at |-> "sync", seen |-> posted, ids |-> replyIds, said |-> Read, report |-> 0, next |-> 0]
  BY DEF Bus!Fetch, Bus!Goes, Bus!Between, Report
<1>3. UNCHANGED <<posted, replies, replyIds, edits, registry, loaded, refused, pending, outstanding, processed,
                  lastReport, lastAction, excluded, continued, runs, busRestarts>>
  BY DEF Bus!Fetch, Bus!Goes, Bus!remote, Bus!busState
<1>4. Read \in [Report -> Bus!Reply]
  BY <1>1 DEF Bus!Reply
<1> HIDE DEF Read
<1>6. cycle' \in Cycles
  <2>1. posted \in 0..MaxReports /\ 0 \in 0..MaxReports
    BY <1>1
  <2> QED  BY <1>1, <1>2, <1>4, <2>1, CycleType
<1>7. BusTypes'
  BY <1>2, <1>3, <1>6 DEF BusInv, BusTypes, Bus!TypeOK
<1>8. Settled' /\ Bound' /\ Fetched' /\ Synchronized' /\ Validated' /\ Handling'
  BY <1>1, <1>2, <1>3
  DEF BusInv, Settled, Bound, Fetched, Synchronized, Validated, Handling, Working
<1> QED  BY <1>7, <1>8 DEF BusInv

(* What _sync_report_registry makes of a report.                                *)
LEMMA SyncedIs ==
  ASSUME Bus!BusAssumption, BusInv, NEW r \in Report, NEW n \in 0..MaxReports,
         NEW said \in [Report -> Bus!Reply]
  PROVE  /\ Bus!Synced(r, n, said) \in Bus!EntryState
         /\ r \in processed => Bus!Synced(r, n, said) \in Bus!Ended
         /\ r \in processed \ excluded /\ registry[r] = "HUMAN_REQUIRED"
              => Bus!Synced(r, n, said) = "HUMAN_REQUIRED"
         /\ Transport[r] = "comment" /\ Bus!Synced(r, n, said) \in Bus!Eligible => NeedsReply[r]
<1> DEFINE e == Bus!Entered(r, n)
<1>1. registry[r] \in Bus!EntryState
  BY DEF BusInv, BusTypes, Bus!TypeOK, Report
<1>2. /\ e \in Bus!EntryState
      /\ r \in processed => e = registry[r]
      /\ r \in processed => e \in Bus!Ended
      /\ r \in processed => (Transport[r] = "comment" => NeedsReply[r])
  <2>1. r \in processed => registry[r] # "NONE" /\ registry[r] \in Bus!Ended
    BY DEF BusInv, Settled, Bus!Ended
  <2> QED
    BY <1>1, <2>1 DEF Bus!Entered, Bus!EntryState, Bus!Eligible, Bus!Waiting, Bus!Ended,
                      BusInv, Settled
<1> HIDE DEF e
<1>3. CASE r \in excluded
  <2>1. Bus!Synced(r, n, said) = "NON_CONTROLLING"
    BY <1>3 DEF Bus!Synced
  <2> QED  BY <1>3, <2>1 DEF Bus!EntryState, Bus!Ended, Bus!Eligible, Bus!Waiting
<1>4. CASE r \notin excluded /\ r \in processed /\ e \notin {"HUMAN_REQUIRED", "RESOLVED_BY_CONFIRMATION"}
  <2>1. Bus!Synced(r, n, said) \in {"HUMAN_REQUIRED", "APPLIED"} /\ registry[r] # "HUMAN_REQUIRED"
    BY <1>2, <1>4 DEF Bus!Synced, e
  <2> QED  BY <1>4, <2>1 DEF Bus!EntryState, Bus!Ended, Bus!Eligible, Bus!Waiting
<1>5. CASE r \notin excluded /\ r \in processed /\ e \in {"HUMAN_REQUIRED", "RESOLVED_BY_CONFIRMATION"}
  <2>1. Transport[r] = "comment" => NeedsReply[r]
    BY <1>2, <1>5
  <2>2. Bus!Synced(r, n, said) = e
    BY <1>5, <2>1 DEF Bus!Synced, e, Bus!Waiting
  <2> QED  BY <1>2, <1>5, <2>1, <2>2
<1>6. CASE r \notin excluded /\ r \notin processed
  <2>1. CASE ~NeedsReply[r] /\ e # "HISTORICAL_NOT_REPLAYED" /\ Transport[r] = "comment"
    <3>1. Bus!Synced(r, n, said) \in {"ACKNOWLEDGED", "NOT_REQUIRED"}
      BY <1>6, <2>1 DEF Bus!Synced, e
    <3> QED  BY <1>6, <3>1 DEF Bus!EntryState, Bus!Ended, Bus!Eligible, Bus!Waiting
  <2>2. CASE ~(~NeedsReply[r] /\ e # "HISTORICAL_NOT_REPLAYED" /\ Transport[r] = "comment")
    <3>1. Bus!Synced(r, n, said) \in {"RESPONSE_RECEIVED", e}
      BY <1>6, <2>2 DEF Bus!Synced, e
    <3>2. Bus!Synced(r, n, said) # e => e \in Bus!Waiting
      BY <1>6, <2>2 DEF Bus!Synced, e
    <3> QED  BY <1>2, <1>6, <2>2, <3>1, <3>2 DEF Bus!EntryState, Bus!Ended, Bus!Eligible, Bus!Waiting
  <2> QED  BY <2>1, <2>2
<1> QED  BY <1>3, <1>4, <1>5, <1>6

LEMMA SyncKeeps ==
  ASSUME Bus!BusAssumption, BusInv, Bus!Sync
  PROVE  BusInv'
<1>1. /\ cycle \in Cycles /\ cycle.at = "sync" /\ cycle.seen \in 0..MaxReports /\ cycle.seen <= posted
      /\ cycle.said \in [Report -> Bus!Reply]
  BY DEF Bus!Sync, BusInv, BusTypes, Cycles, Fetched
<1>2. /\ registry' = [r \in Report |-> IF r > cycle.seen THEN registry[r]
                                       ELSE Bus!Synced(r, cycle.seen, cycle.said)]
      /\ cycle' = [cycle EXCEPT !.at = "files"]
      /\ loaded' = TRUE
  BY DEF Bus!Sync, Bus!Goes, Report
<1>3. UNCHANGED <<posted, replies, replyIds, edits, refused, pending, outstanding, processed,
                  lastReport, lastAction, excluded, continued, runs, busRestarts>>
  BY DEF Bus!Sync, Bus!Goes, Bus!remote
<1>4. \A r \in Report :
        /\ registry'[r] \in Bus!EntryState
        /\ r \in processed => registry'[r] \in Bus!Ended
        /\ r <= cycle.seen /\ Transport[r] = "comment" /\ registry'[r] \in Bus!Eligible => NeedsReply[r]
  BY <1>1, <1>2, SyncedIs DEF BusInv, BusTypes, Bus!TypeOK, Settled, Report, Bus!Report
<1>5. /\ cycle' \in Cycles /\ cycle'.at = "files" /\ cycle'.seen = cycle.seen
      /\ cycle'.said = cycle.said /\ cycle'.next = cycle.next
  BY <1>1, <1>2 DEF Cycles
<1>6. BusTypes'
  BY <1>2, <1>3, <1>4, <1>5 DEF BusInv, BusTypes, Bus!TypeOK, Report
<1>7. Settled'
  BY <1>3, <1>4 DEF BusInv, BusTypes, Bus!TypeOK, Settled, Report
<1>8. Bound' /\ Fetched' /\ Synchronized' /\ Validated' /\ Handling'
  <2>1. 1..cycle.seen \subseteq Report
    BY <1>1 DEF Report, Bus!Report, Bus!BusAssumption
  <2> QED
    BY <1>1, <1>3, <1>4, <1>5, <2>1
    DEF BusInv, Bound, Fetched, Synchronized, Validated, Handling, Working
<1> QED  BY <1>6, <1>7, <1>8 DEF BusInv

LEMMA CycleEnds ==
  ASSUME Bus!BusAssumption
  PROVE  Bus!Between \in Cycles /\ Bus!Between.at = "idle"
<1>1. /\ [r \in Report |-> "NONE"] \in [Report -> Bus!Reply] /\ 0 \in 0..MaxReports
      /\ [r \in Report |-> 0] \in [Report -> 0..MaxEdits]
  BY DEF Bus!BusAssumption, Bus!Reply
<1> QED  BY <1>1, CycleType DEF Bus!Between, Report

LEMMA DropKeeps ==
  ASSUME Bus!BusAssumption, BusInv, Bus!DropPendingFile
  PROVE  BusInv'
<1>1. pending.report # 0 /\ pending.report \in Report /\ pending.report \notin processed
  BY DEF Bus!DropPendingFile, Bus!PendingFileFits, BusInv, BusTypes, Bus!TypeOK, Bound,
         Report, Bus!Report, Bus!BusAssumption
<1>2. /\ registry' = [registry EXCEPT ![pending.report] = "FILE_RESPONSE_INVALIDATED"]
      /\ refused' = refused \cup {pending.report}
      /\ pending' = Bus!NoReply /\ cycle' = Bus!Between
  BY DEF Bus!DropPendingFile, Bus!Returns, Bus!Goes
<1>3. UNCHANGED <<posted, replies, replyIds, edits, loaded, outstanding, processed,
                  lastReport, lastAction, excluded, continued, runs, busRestarts>>
  BY DEF Bus!DropPendingFile, Bus!Returns, Bus!Goes, Bus!remote
<1>4. cycle' \in Cycles /\ cycle'.at = "idle"
  BY <1>2, CycleEnds
<1>5. pending' \in [report : 0..MaxReports, id : 0..MaxEdits, said : Bus!Reply] /\ pending'.report = 0
  BY <1>2 DEF Bus!NoReply, Bus!Reply, Bus!BusAssumption
<1>6. BusTypes'
  BY <1>1, <1>2, <1>3, <1>4, <1>5 DEF BusInv, BusTypes, Bus!TypeOK, Report, Bus!EntryState, Bus!Ended
<1>7. Settled'
  BY <1>1, <1>2, <1>3 DEF BusInv, BusTypes, Bus!TypeOK, Settled, Report, Bus!Ended
<1>8. Bound' /\ Fetched' /\ Synchronized' /\ Validated' /\ Handling'
  BY <1>4, <1>5 DEF Bound, Fetched, Synchronized, Validated, Handling, Working
<1> QED  BY <1>6, <1>7, <1>8 DEF BusInv

LEMMA SyncFilesKeeps ==
  ASSUME Bus!BusAssumption, BusInv, Bus!SyncFiles
  PROVE  BusInv'
<1> DEFINE Read(ok) == {r \in Report : Bus!ReadsFile(r, ok)}
           Broken(ok) == {r \in Read(ok) : Bus!FileBroken(r)}
           Said(ok) == [r \in Report |->
                          IF Transport[r] = "comment" THEN cycle.said[r]
                          ELSE IF r \in Read(ok) \ Broken(ok) /\ NeedsReply[r]
                               THEN replies[r] ELSE "NONE"]
<1>1. PICK ok \in Bus!FilesRead :
        /\ registry' = [r \in Report |-> IF r \in Read(ok) THEN Bus!FileEntry(r) ELSE registry[r]]
        /\ refused' = refused \cup Broken(ok)
        /\ pending' = IF pending.report \in Broken(ok) THEN Bus!NoReply ELSE pending
        /\ cycle' = [cycle EXCEPT !.at = "choose", !.said = Said(ok)]
  BY DEF Bus!SyncFiles, Bus!Goes, Report
<1>2. UNCHANGED <<posted, replies, replyIds, edits, loaded, outstanding, processed,
                  lastReport, lastAction, excluded, continued, runs, busRestarts>>
  BY DEF Bus!SyncFiles, Bus!Goes, Bus!remote
<1>3. /\ cycle \in Cycles /\ cycle.at = "files" /\ cycle.said \in [Report -> Bus!Reply]
      /\ replies \in [Report -> Bus!Reply] /\ Bus!PendingFileFits
  BY DEF Bus!SyncFiles, BusInv, BusTypes, Bus!TypeOK, Cycles, Report
<1>4. Read(ok) \subseteq {r \in Report : Transport[r] = "file" /\ registry[r] \notin Bus!Ended}
  BY DEF Bus!ReadsFile, Bus!FileReports, Report
<1>5. \A r \in Read(ok) \ Broken(ok) : pending.report = r => replies[r] = pending.said
  BY DEF Bus!FileBroken
<1>6. \A r \in Report : Bus!FileEntry(r) \in Bus!EntryState
  BY DEF Bus!FileEntry, Bus!EntryState, Bus!Ended, Bus!Eligible, Bus!Waiting,
         BusInv, BusTypes, Bus!TypeOK, Report
<1>7. Broken(ok) \subseteq Report
  OBVIOUS
<1>8. Said(ok) \in [Report -> Bus!Reply]
  BY <1>3 DEF Bus!Reply
<1>9. \A r \in Report :
        Transport[r] = "file" /\ Said(ok)[r] # "NONE" =>
             r \in Read(ok) \ Broken(ok) /\ Said(ok)[r] = replies[r]
  BY DEF Bus!BusAssumption, Report
<1> HIDE DEF Read, Broken, Said
<1>10. /\ cycle' \in Cycles /\ cycle'.at = "choose" /\ cycle'.seen = cycle.seen
       /\ cycle'.said = Said(ok) /\ cycle'.next = cycle.next
  <2>1. cycle' = [at |-> "choose", seen |-> cycle.seen, ids |-> cycle.ids, said |-> Said(ok), report |-> cycle.report,
                  next |-> cycle.next]
    BY <1>1, <1>3 DEF Cycles
  <2>2. cycle.seen \in 0..MaxReports /\ cycle.report \in 0..MaxReports /\ cycle.next \in 0..MaxReports
        /\ cycle.ids \in [Report -> 0..MaxEdits]
    BY <1>3 DEF Cycles
  <2> QED  BY <1>8, <2>1, <2>2, CycleType
<1>11. /\ pending' \in [report : 0..MaxReports, id : 0..MaxEdits, said : Bus!Reply]
       /\ pending'.report # 0 => pending' = pending
  BY <1>1 DEF Bus!NoReply, Bus!Reply, Bus!BusAssumption, BusInv, BusTypes, Bus!TypeOK
<1>12. \A r \in Report : registry'[r] = registry[r] \/ r \in Read(ok)
  BY <1>1
<1>13. registry' \in [Report -> Bus!EntryState]
  BY <1>1, <1>6 DEF BusInv, BusTypes, Bus!TypeOK, Report
<1>14. BusTypes'
  BY <1>1, <1>2, <1>7, <1>10, <1>11, <1>13 DEF BusInv, BusTypes, Bus!TypeOK, Report
<1>15. Settled'
  BY <1>2, <1>4, <1>12 DEF BusInv, BusTypes, Bus!TypeOK, Settled, Report
<1>16. Bound'
  <2> SUFFICES ASSUME pending'.report # 0 PROVE Bound'
    BY DEF Bound
  <2>1. UNCHANGED pending
    BY <1>11
  <2>2. outstanding = pending.report
    <3>1. Transport[pending.report] = "file" => outstanding = pending.report
      BY <1>3, <2>1 DEF Bus!PendingFileFits
    <3> QED  BY <2>1, <3>1 DEF BusInv, Bound
  <2> QED  BY <1>2, <2>1, <2>2 DEF BusInv, Bound
<1>17. Fetched'
  BY <1>2, <1>3, <1>10 DEF BusInv, Fetched
<1>18. Synchronized'
  <2>1. 1..cycle.seen \subseteq Report
    BY <1>3 DEF Cycles, Report, Bus!Report, Bus!BusAssumption
  <2> QED  BY <1>3, <1>4, <1>10, <1>12, <2>1 DEF BusInv, Synchronized
<1>19. Validated'
  <2>1. \A r \in Read(ok) : r \notin processed
    BY <1>4 DEF BusInv, Settled
  <2>2. \A r \in Report : pending'.report = r => pending' = pending
    BY <1>11 DEF Report, Bus!Report, Bus!BusAssumption
  <2> QED  BY <1>2, <1>5, <1>9, <1>10, <2>1, <2>2 DEF Validated
<1>20. Handling'
  BY <1>10 DEF Handling, Working
<1> QED  BY <1>14, <1>15, <1>16, <1>17, <1>18, <1>19, <1>20 DEF BusInv

(* Choose binds the reply to a report that is not processed; a file that was    *)
(* bound before is bound again as it was.                                       *)
LEMMA ChooseBinds ==
  ASSUME Bus!BusAssumption, BusInv, cycle.at = "choose", NEW r, r = Bus!CurrentReport, r # 0,
         cycle.said[r] # "NONE", Transport[r] = "comment" => r \notin processed
  PROVE  /\ r \in Report /\ r <= posted /\ r \notin processed
         /\ Transport[r] = "comment" => NeedsReply[r]
         /\ Transport[r] = "file" /\ pending.report = r => cycle.said[r] = pending.said
<1>1. r \in Report /\ r <= posted /\ (Transport[r] = "comment" => NeedsReply[r])
  BY CurrentIsOne
<1>2. Transport[r] \in {"comment", "file"}
  BY <1>1 DEF Bus!BusAssumption, Report
<1>3. Transport[r] = "file" => r \notin processed /\ (pending.report = r => cycle.said[r] = pending.said)
  BY <1>1 DEF BusInv, Validated
<1> QED  BY <1>1, <1>2, <1>3

LEMMA ChooseKeeps ==
  ASSUME Bus!BusAssumption, BusInv, Bus!Choose
  PROVE  BusInv'
<1> DEFINE r == Bus!CurrentReport
           said == IF r = 0 THEN "NONE" ELSE cycle.said[r]
           stale == r # 0 /\ Transport[r] = "comment" /\ pending.report # 0 /\ ~Bus!PendingFits(r)
           applies == r # 0 /\ said # "NONE" /\ ~stale /\ (Transport[r] = "comment" => r \notin processed)
<1>1. cycle.at = "choose" /\ cycle \in Cycles /\ cycle.seen <= posted
  BY DEF Bus!Choose, BusInv, BusTypes, Fetched
<1>2. r # 0 => /\ r \in Report /\ r <= cycle.seen /\ r <= posted
               /\ pending.report # 0 => r = pending.report
               /\ Transport[r] = "comment" => NeedsReply[r]
  BY <1>1, CurrentIsOne
<1>3. UNCHANGED <<posted, replies, replyIds, edits, loaded, refused, processed, lastAction, excluded, continued,
                  runs, busRestarts>>
  BY DEF Bus!Choose, Bus!Returns, Bus!Goes, Bus!remote
<1>4. \/ /\ stale /\ pending' = Bus!NoReply /\ outstanding' = r
         /\ cycle' = Bus!Between /\ UNCHANGED <<registry, lastReport>>
      \/ /\ ~stale /\ ~applies
         /\ outstanding' \in IF r # 0 /\ Transport[r] = "comment" THEN {outstanding, r} ELSE {outstanding}
         /\ cycle' = Bus!Between /\ UNCHANGED <<registry, lastReport, pending>>
      \/ /\ applies
         /\ registry' = [registry EXCEPT ![r] = "CONFIRMATION_BLOCKED"]
         /\ cycle' = Bus!Between /\ UNCHANGED <<pending, outstanding, lastReport>>
      \/ /\ applies
         /\ pending' = [report |-> r, id |-> cycle.ids[r], said |-> said] /\ outstanding' = r /\ lastReport' = r
         /\ registry' = [registry EXCEPT ![r] = "APPLYING"]
         /\ cycle' = [cycle EXCEPT !.at = "codex", !.report = r]
  BY DEF Bus!Choose, Bus!Returns, Bus!Goes, Bus!Invalidates, Bus!Unmatched
<1>5. applies => /\ r \in Report /\ r <= posted /\ r \notin processed /\ said = cycle.said[r]
                 /\ Transport[r] = "comment" => NeedsReply[r]
                 /\ said \in Bus!Reply /\ said # "NONE"
  <2> SUFFICES ASSUME applies
               PROVE  /\ r \in Report /\ r <= posted /\ r \notin processed /\ said = cycle.said[r]
                      /\ Transport[r] = "comment" => NeedsReply[r]
                      /\ said \in Bus!Reply /\ said # "NONE"
    OBVIOUS
  <2>1. said = cycle.said[r] /\ said # "NONE" /\ r # 0 /\ r \in Report
        /\ (Transport[r] = "comment" => r \notin processed)
    BY <1>2
  <2>2. said \in Bus!Reply
    BY <1>1, <2>1 DEF Cycles
  <2> HIDE DEF r
  <2>3. r = Bus!CurrentReport
    BY DEF r
  <2> QED  BY <1>1, <2>1, <2>2, <2>3, ChooseBinds
<1>6. Report \subseteq 0..MaxReports /\ 0 \notin Report
  BY DEF Report, Bus!Report, Bus!BusAssumption
<1> HIDE DEF r, said, stale, applies
<1>7. CASE cycle' = Bus!Between /\ UNCHANGED <<registry, lastReport>>
           /\ pending' \in {pending, Bus!NoReply} /\ outstanding' \in 0..MaxReports
           /\ (pending'.report # 0 => pending' = pending /\ outstanding' = pending.report)
  <2>1. cycle' \in Cycles /\ cycle'.at = "idle"
    BY <1>7, CycleEnds
  <2>2. pending' \in [report : 0..MaxReports, id : 0..MaxEdits, said : Bus!Reply]
    BY <1>7 DEF Bus!NoReply, Bus!Reply, Bus!BusAssumption, BusInv, BusTypes, Bus!TypeOK
  <2>3. BusTypes'
    BY <1>3, <1>7, <2>1, <2>2 DEF BusInv, BusTypes, Bus!TypeOK
  <2>4. Settled' /\ Bound'
    BY <1>3, <1>7 DEF BusInv, Settled, Bound
  <2> QED  BY <2>1, <2>3, <2>4 DEF BusInv, Fetched, Synchronized, Validated, Handling, Working
<1>8. pending.report # 0 => outstanding = pending.report
  BY <1>1 DEF BusInv, Bound
<1>9. CASE stale /\ pending' = Bus!NoReply /\ outstanding' = r
           /\ cycle' = Bus!Between /\ UNCHANGED <<registry, lastReport>>
  BY <1>2, <1>6, <1>7, <1>9 DEF Bus!NoReply, stale
<1>10. CASE ~stale /\ ~applies
         /\ outstanding' \in (IF r # 0 /\ Transport[r] = "comment" THEN {outstanding, r} ELSE {outstanding})
         /\ cycle' = Bus!Between /\ UNCHANGED <<registry, lastReport, pending>>
  <2>1. outstanding \in 0..MaxReports
    BY DEF BusInv, BusTypes, Bus!TypeOK
  <2> QED  BY <1>2, <1>6, <1>7, <1>8, <1>10, <2>1
<1>11. CASE applies /\ registry' = [registry EXCEPT ![r] = "CONFIRMATION_BLOCKED"]
            /\ cycle' = Bus!Between /\ UNCHANGED <<pending, outstanding, lastReport>>
  <2>1. cycle' \in Cycles /\ cycle'.at = "idle"
    BY <1>11, CycleEnds
  <2>2. BusTypes'
    BY <1>3, <1>5, <1>11, <2>1 DEF BusInv, BusTypes, Bus!TypeOK, Bus!EntryState
  <2>3. Settled'
    BY <1>3, <1>5, <1>11 DEF BusInv, BusTypes, Bus!TypeOK, Settled, Report
  <2>4. Bound'
    BY <1>3, <1>8, <1>11 DEF BusInv, Bound
  <2> QED  BY <2>1, <2>2, <2>3, <2>4 DEF BusInv, Fetched, Synchronized, Validated, Handling, Working
<1>12. CASE /\ applies
            /\ pending' = [report |-> r, id |-> cycle.ids[r], said |-> said] /\ outstanding' = r /\ lastReport' = r
            /\ registry' = [registry EXCEPT ![r] = "APPLYING"]
            /\ cycle' = [cycle EXCEPT !.at = "codex", !.report = r]
  <2>1. /\ cycle' \in Cycles /\ cycle'.at = "codex" /\ cycle'.seen = cycle.seen
        /\ cycle'.said = cycle.said /\ cycle'.report = r /\ cycle'.next = cycle.next
    <3>1. cycle' = [at |-> "codex", seen |-> cycle.seen, ids |-> cycle.ids, said |-> cycle.said, report |-> r,
                    next |-> cycle.next]
      BY <1>1, <1>12 DEF Cycles
    <3>2. cycle.seen \in 0..MaxReports /\ cycle.said \in [Report -> Bus!Reply]
          /\ cycle.ids \in [Report -> 0..MaxEdits]
          /\ cycle.next \in 0..MaxReports /\ r \in 0..MaxReports /\ "codex" \in Working
      BY <1>1, <1>5, <1>6, <1>12 DEF Cycles, Working
    <3> QED  BY <3>1, <3>2, CycleType
  <2>2. /\ pending'.report = r /\ pending'.said = said
        /\ pending' \in [report : 0..MaxReports, id : 0..MaxEdits, said : Bus!Reply]
    <3>1. cycle.ids[r] \in 0..MaxEdits
      BY <1>1, <1>5, <1>12 DEF Cycles
    <3> QED  BY <1>5, <1>6, <1>12, <3>1
  <2>3. BusTypes'
    BY <1>3, <1>5, <1>6, <1>12, <2>1, <2>2 DEF BusInv, BusTypes, Bus!TypeOK, Bus!EntryState
  <2>4. Settled'
    BY <1>3, <1>5, <1>12 DEF BusInv, BusTypes, Bus!TypeOK, Settled, Report
  <2>5. Bound'
    BY <1>3, <1>5, <1>12, <2>2 DEF Bound
  <2>6. Fetched' /\ Synchronized' /\ Validated'
    BY <1>1, <1>3, <2>1 DEF BusInv, Fetched, Synchronized, Validated
  <2>7. Handling'
    BY <1>5, <1>6, <1>12, <2>1, <2>2 DEF Handling
  <2> QED  BY <2>3, <2>4, <2>5, <2>6, <2>7 DEF BusInv
<1> QED  BY <1>4, <1>9, <1>10, <1>11, <1>12

(* The report at hand, while it is handled.                                     *)
LEMMA Handled ==
  ASSUME Bus!BusAssumption, BusInv, cycle.at \in Working
  PROVE  /\ cycle.report \in Report /\ cycle.report \notin processed /\ cycle.report <= posted
         /\ cycle.report = pending.report /\ pending.said # "NONE" /\ outstanding = pending.report
         /\ Transport[cycle.report] = "comment" => NeedsReply[cycle.report]
<1>1. cycle.report # 0 /\ cycle.report = pending.report
  BY DEF BusInv, Handling
<1>2. cycle.report \in Report
  BY <1>1 DEF BusInv, BusTypes, Cycles, Report, Bus!Report, Bus!BusAssumption
<1>3. cycle.at \notin {"idle", "sync", "files"}
  BY DEF Working
<1> QED  BY <1>1, <1>2, <1>3 DEF BusInv, Bound

LEMMA CodexKeeps ==
  ASSUME Bus!BusAssumption, BusInv, Bus!ContinueCodex
  PROVE  BusInv' /\ \A r \in processed : continued'[r] = continued[r]
<1>1. cycle.at = "codex" /\ cycle \in Cycles /\ runs < MaxRuns /\ runs' = runs + 1
      /\ continued' = [continued EXCEPT ![cycle.report] = @ + 1]
  BY DEF Bus!ContinueCodex, BusInv, BusTypes
<1>2. UNCHANGED <<posted, replies, replyIds, edits, loaded, refused, pending, outstanding, processed, lastReport,
                  excluded, busRestarts>>
  BY DEF Bus!ContinueCodex, Bus!remote
<1>3. PICK answer \in Bus!Answers :
        /\ registry' = IF answer = "INVALID"
                       THEN [registry EXCEPT ![cycle.report] = "CONTINUATION_FAILED"] ELSE registry
        /\ lastAction' = CASE answer = "INVALID" -> lastAction
                           [] answer = "POST_INVALID" -> "POST_REPORT"
                           [] OTHER -> answer
        /\ cycle' = CASE answer \in {"NO_REPORT", "HUMAN_REQUIRED"} -> [cycle EXCEPT !.at = "resolve"]
                      [] answer = "POST_REPORT" -> [cycle EXCEPT !.at = "post"]
                      [] OTHER -> Bus!Between
  BY DEF Bus!ContinueCodex
<1>4. /\ cycle.report \in Report /\ cycle.report \notin processed
      /\ outstanding = pending.report
  BY <1>1, Handled DEF Working
<1>5. cycle' \in {[cycle EXCEPT !.at = "resolve"], [cycle EXCEPT !.at = "post"], Bus!Between}
  BY <1>3
<1>6. /\ cycle' \in Cycles
      /\ \/ cycle'.at = "idle"
         \/ /\ cycle'.at \in {"resolve", "post"} /\ cycle'.report = cycle.report
            /\ cycle'.seen = cycle.seen /\ cycle'.said = cycle.said /\ cycle'.next = cycle.next
  <2>1. CASE cycle' = Bus!Between
    BY <2>1, CycleEnds
  <2>2. CASE cycle' = [cycle EXCEPT !.at = "resolve"]
    BY <1>1, <2>2 DEF Cycles, Working
  <2>3. CASE cycle' = [cycle EXCEPT !.at = "post"]
    BY <1>1, <2>3 DEF Cycles, Working
  <2> QED  BY <1>5, <2>1, <2>2, <2>3
<1>7. lastAction' \in {"NONE", "OTHER", "POST_REPORT", "NO_REPORT", "HUMAN_REQUIRED"}
  BY <1>3 DEF Bus!Answers, BusInv, BusTypes, Bus!TypeOK
<1>8. /\ registry' \in [Report -> Bus!EntryState]
      /\ \A r \in processed : registry'[r] = registry[r]
  BY <1>3, <1>4 DEF BusInv, BusTypes, Bus!TypeOK, Report, Bus!EntryState, Bus!Eligible
<1>9. /\ continued' \in [Report -> 0..MaxRuns] /\ \A r \in Report : continued'[r] <= runs'
      /\ runs' \in 0..MaxRuns
      /\ \A r \in processed : continued'[r] = continued[r]
  <2>1. /\ continued \in [Report -> 0..MaxRuns] /\ \A r \in Report : continued[r] <= runs
        /\ runs \in 0..MaxRuns /\ MaxRuns \in Nat
    BY DEF BusInv, BusTypes, Bus!TypeOK, Report, Bus!BusAssumption
  <2>2. processed \subseteq Report
    BY DEF BusInv, BusTypes, Bus!TypeOK, Report
  <2> QED  BY <1>1, <1>4, <2>1, <2>2
<1>10. BusTypes'
  BY <1>2, <1>6, <1>7, <1>8, <1>9 DEF BusInv, BusTypes, Bus!TypeOK, Report
<1>11. Settled'
  BY <1>2, <1>8 DEF BusInv, Settled
<1>12. Bound'
  BY <1>2, <1>4 DEF BusInv, Bound
<1>13. Fetched' /\ Synchronized' /\ Validated' /\ Handling'
  BY <1>1, <1>2, <1>6 DEF BusInv, Fetched, Synchronized, Validated, Handling, Working
<1> QED  BY <1>9, <1>10, <1>11, <1>12, <1>13 DEF BusInv

LEMMA PostKeeps ==
  ASSUME Bus!BusAssumption, BusInv, Bus!PostReport
  PROVE  BusInv'
<1>1. cycle.at = "post" /\ cycle \in Cycles /\ posted < MaxReports /\ posted \in 1..MaxReports
      /\ MaxReports \in Nat
  BY DEF Bus!PostReport, BusInv, BusTypes, Bus!TypeOK, Bus!Report, Bus!BusAssumption
<1>2. UNCHANGED <<replies, replyIds, edits, loaded, refused, pending, outstanding, processed, lastReport,
                  lastAction, excluded, continued, runs, busRestarts>>
  BY DEF Bus!PostReport, Bus!Returns, Bus!Goes
<1>3. \/ /\ posted' = posted + 1
         /\ registry' = [registry EXCEPT ![posted + 1] = "WAITING_RESPONSE"]
         /\ cycle' = [cycle EXCEPT !.at = "resolve", !.next = posted + 1]
      \/ posted' \in {posted, posted + 1} /\ cycle' = Bus!Between /\ UNCHANGED registry
  BY DEF Bus!PostReport, Bus!Returns, Bus!Goes
<1>4. posted' \in 1..MaxReports /\ posted <= posted' /\ posted + 1 \in 1..MaxReports
  BY <1>1, <1>3
<1>5. outstanding = pending.report
  BY <1>1, Handled DEF Working
<1>6. /\ cycle' \in Cycles
      /\ \/ cycle'.at = "idle"
         \/ /\ cycle'.at = "resolve" /\ cycle'.report = cycle.report
            /\ cycle'.seen = cycle.seen /\ cycle'.said = cycle.said
            /\ cycle'.next = posted + 1 /\ posted' = posted + 1
  <2>1. CASE cycle' = Bus!Between
    BY <2>1, CycleEnds
  <2>2. CASE cycle' = [cycle EXCEPT !.at = "resolve", !.next = posted + 1] /\ posted' = posted + 1
    <3>1. cycle' = [at |-> "resolve", seen |-> cycle.seen, ids |-> cycle.ids, said |-> cycle.said,
                    report |-> cycle.report, next |-> posted + 1]
      BY <1>1, <2>2 DEF Cycles
    <3>2. cycle.seen \in 0..MaxReports /\ cycle.said \in [Report -> Bus!Reply]
          /\ cycle.ids \in [Report -> 0..MaxEdits]
          /\ cycle.report \in 0..MaxReports /\ posted + 1 \in 0..MaxReports /\ "resolve" \in Working
      BY <1>1, <1>4 DEF Cycles, Working
    <3>3. cycle' \in Cycles
      BY <3>1, <3>2, CycleType
    <3> QED  BY <2>2, <3>1, <3>3
  <2> QED  BY <1>3, <2>1, <2>2
<1>7. /\ registry' \in [Report -> Bus!EntryState]
      /\ \A r \in processed : registry'[r] = registry[r]
  <2>1. \A r \in processed : r \in Report /\ r <= posted /\ r # posted + 1
    BY <1>1 DEF BusInv, BusTypes, Bus!TypeOK, Settled, Report, Bus!Report
  <2> QED
    BY <1>3, <1>4, <2>1
    DEF BusInv, BusTypes, Bus!TypeOK, Report, Bus!Report, Bus!EntryState, Bus!Eligible, Bus!Waiting
<1>8. BusTypes'
  BY <1>2, <1>4, <1>6, <1>7 DEF BusInv, BusTypes, Bus!TypeOK, Report, Bus!Report
<1>9. Settled'
  BY <1>1, <1>2, <1>4, <1>7 DEF BusInv, BusTypes, Bus!TypeOK, Settled, Bus!Report
<1>10. Bound'
  BY <1>1, <1>2, <1>4, <1>5 DEF BusInv, BusTypes, Bus!TypeOK, Bound
<1>11. Fetched'
  BY <1>1, <1>2, <1>4, <1>6 DEF BusInv, Fetched, Cycles
<1>12. Synchronized' /\ Validated' /\ Handling'
  BY <1>1, <1>2, <1>6 DEF BusInv, Synchronized, Validated, Handling, Working
<1> QED  BY <1>8, <1>9, <1>10, <1>11, <1>12 DEF BusInv

LEMMA ResolveKeeps ==
  ASSUME Bus!BusAssumption, BusInv, Bus!Resolve
  PROVE  /\ BusInv'
         /\ \A r \in processed : registry'[r] # registry[r] =>
              /\ registry'[r] = "RESOLVED_BY_CONFIRMATION"
              /\ Confirms[cycle.report] = r /\ pending.said = "CONTINUE"
<1>1. cycle.at = "resolve" /\ cycle \in Cycles
  BY DEF Bus!Resolve, BusInv, BusTypes
<1>2. UNCHANGED <<posted, replies, replyIds, edits, loaded, refused, pending, outstanding, processed, lastReport,
                  lastAction, excluded, continued, runs, busRestarts>>
  BY DEF Bus!Resolve, Bus!Goes, Bus!remote
<1> DEFINE ends == Confirms[cycle.report] # 0 /\ lastAction # "HUMAN_REQUIRED"
                   /\ pending.said = "CONTINUE" /\ ~Bus!ConfirmationError(cycle.report, pending.said)
<1>3. /\ registry' = [q \in Report |->
           IF q = cycle.report THEN IF lastAction = "HUMAN_REQUIRED" THEN "HUMAN_REQUIRED" ELSE "APPLIED"
           ELSE IF ends /\ q = Confirms[cycle.report] THEN "RESOLVED_BY_CONFIRMATION" ELSE registry[q]]
      /\ cycle' = [cycle EXCEPT !.at = "mark"]
  BY DEF Bus!Resolve, Bus!Goes, Report
<1>4. cycle.report \in Report /\ cycle.report \notin processed /\ outstanding = pending.report
  BY <1>1, Handled DEF Working
<1>5. ends => pending.said = "CONTINUE"
  OBVIOUS
<1> HIDE DEF ends
<1>6. /\ registry' \in [Report -> Bus!EntryState]
      /\ registry'[cycle.report] \in {"HUMAN_REQUIRED", "APPLIED"}
      /\ \A r \in Report : r # cycle.report =>
           \/ registry'[r] = registry[r]
           \/ ends /\ r = Confirms[cycle.report] /\ registry'[r] = "RESOLVED_BY_CONFIRMATION"
  BY <1>3, <1>4 DEF BusInv, BusTypes, Bus!TypeOK, Report, Bus!EntryState, Bus!Ended
<1>7. processed \subseteq Report
  BY DEF BusInv, BusTypes, Bus!TypeOK, Report
<1>8. /\ cycle' \in Cycles /\ cycle'.at = "mark" /\ cycle'.report = cycle.report
      /\ cycle'.seen = cycle.seen /\ cycle'.said = cycle.said /\ cycle'.next = cycle.next
  BY <1>1, <1>3 DEF Cycles, Working
<1>9. BusTypes'
  BY <1>2, <1>6, <1>8 DEF BusInv, BusTypes, Bus!TypeOK, Report
<1>10. Settled'
  BY <1>2, <1>4, <1>6, <1>7 DEF BusInv, Settled, Bus!Ended
<1>11. Bound'
  BY <1>2, <1>4 DEF BusInv, Bound
<1>12. Fetched' /\ Synchronized' /\ Validated'
  BY <1>1, <1>2, <1>8 DEF BusInv, Fetched, Synchronized, Validated
<1>13. Handling'
  BY <1>1, <1>2, <1>6, <1>8 DEF BusInv, Handling, Working
<1> QED  BY <1>4, <1>5, <1>6, <1>7, <1>9, <1>10, <1>11, <1>12, <1>13 DEF BusInv

LEMMA MarkKeeps ==
  ASSUME Bus!BusAssumption, BusInv, Bus!MarkApplied
  PROVE  BusInv'
<1>1. cycle.at = "mark" /\ cycle \in Cycles
  BY DEF Bus!MarkApplied, BusInv, BusTypes
<1>2. UNCHANGED <<posted, replies, replyIds, edits, registry, loaded, refused, lastAction, excluded, continued,
                  runs, busRestarts>>
  BY DEF Bus!MarkApplied, Bus!Returns, Bus!Goes, Bus!remote
<1>3. /\ processed' = processed \cup {cycle.report} /\ pending' = Bus!NoReply
      /\ outstanding' = cycle.next /\ lastReport' \in {lastReport, cycle.next}
      /\ cycle' = Bus!Between
  BY DEF Bus!MarkApplied, Bus!Returns, Bus!Goes
<1>4. /\ cycle.report \in Report /\ cycle.report <= posted
      /\ Transport[cycle.report] = "comment" => NeedsReply[cycle.report]
      /\ registry[cycle.report] \in Bus!Ended
  <2>1. registry[cycle.report] \in {"HUMAN_REQUIRED", "APPLIED"}
    BY <1>1 DEF BusInv, Handling, Working
  <2> QED  BY <1>1, <2>1, Handled DEF Working, Bus!Ended
<1>5. cycle' \in Cycles /\ cycle'.at = "idle"
  BY <1>3, CycleEnds
<1>6. pending' \in [report : 0..MaxReports, id : 0..MaxEdits, said : Bus!Reply] /\ pending'.report = 0
  BY <1>3 DEF Bus!NoReply, Bus!Reply, Bus!BusAssumption
<1>7. BusTypes'
  BY <1>1, <1>2, <1>3, <1>4, <1>5, <1>6 DEF BusInv, BusTypes, Bus!TypeOK, Cycles, Report
<1>8. Settled'
  BY <1>2, <1>3, <1>4 DEF BusInv, Settled
<1> QED
  BY <1>5, <1>6, <1>7, <1>8 DEF BusInv, Bound, Fetched, Synchronized, Validated, Handling, Working

LEMMA RecoverKeeps ==
  ASSUME Bus!BusAssumption, BusInv, NEW target \in Report, Bus!RecoverOutstanding(target)
  PROVE  /\ BusInv'
         /\ \A r \in processed \ excluded' : registry'[r] = registry[r]
<1>1. /\ cycle.at = "idle" /\ outstanding # 0 /\ target \notin processed /\ target <= posted
      /\ pending.report # 0 => Transport[pending.report] = "file"
      /\ outstanding \in 1..MaxReports
  BY DEF Bus!RecoverOutstanding, BusInv, BusTypes, Bus!TypeOK, Bus!BusAssumption
<1>2. /\ excluded' = excluded \cup {outstanding} /\ outstanding' = target /\ loaded' = TRUE
      /\ registry' = [r \in Report |-> IF r = target THEN "WAITING_RESPONSE"
                                       ELSE IF r \in excluded' THEN "NON_CONTROLLING" ELSE registry[r]]
  BY DEF Bus!RecoverOutstanding, Report
<1>3. UNCHANGED <<posted, replies, replyIds, edits, refused, pending, processed, lastReport,
                  lastAction, cycle, continued, runs, busRestarts>>
  BY DEF Bus!RecoverOutstanding, Bus!remote
<1>4. /\ registry' \in [Report -> Bus!EntryState]
      /\ \A r \in processed : registry'[r] = registry[r]
                              \/ (r \in excluded' /\ registry'[r] = "NON_CONTROLLING")
  <2>1. processed \subseteq Report /\ target \notin processed
    BY <1>1 DEF BusInv, BusTypes, Bus!TypeOK, Report
  <2> QED
    BY <1>2, <2>1 DEF BusInv, BusTypes, Bus!TypeOK, Report, Bus!EntryState, Bus!Eligible, Bus!Waiting,
                      Bus!Ended
<1>5. BusTypes'
  <2>1. /\ excluded' \subseteq Report /\ outstanding' \in 0..MaxReports /\ loaded' \in BOOLEAN
        /\ registry' \in [Report -> Bus!EntryState]
    BY <1>1, <1>2, <1>4 DEF BusInv, BusTypes, Bus!TypeOK, Report, Bus!Report, Bus!BusAssumption
  <2> QED  BY <1>3, <2>1 DEF BusInv, BusTypes, Bus!TypeOK, Report
<1>6. Settled'
  BY <1>3, <1>4 DEF BusInv, Settled, Bus!Ended
<1>7. Bound'
  BY <1>1, <1>3 DEF BusInv, Bound
<1> QED
  BY <1>1, <1>3, <1>4, <1>5, <1>6, <1>7 DEF BusInv, Fetched, Synchronized, Validated, Handling, Working

(* Whoever writes to the pull request, and a restart of the watcher.            *)
LEMMA OthersKeep ==
  ASSUME Bus!BusAssumption, BusInv,
         \/ \E r \in Report : Bus!Replies(r) \/ Bus!ReplyChanges(r)
         \/ Bus!PostedElsewhere \/ Bus!Restart \/ UNCHANGED Bus!busVars
  PROVE  BusInv'
<1>1. replies \in [Report -> Bus!Reply] /\ posted \in 1..MaxReports /\ MaxReports \in Nat
  BY DEF BusInv, BusTypes, Bus!TypeOK, Report, Bus!Report, Bus!BusAssumption
<1>2. ASSUME NEW r \in Report, Bus!Replies(r) \/ Bus!ReplyChanges(r) PROVE BusInv'
  <2>1. PICK said \in Bus!Reply : replies' = [replies EXCEPT ![r] = said]
    BY <1>2 DEF Bus!Replies, Bus!ReplyChanges
  <2>2. UNCHANGED <<posted, registry, loaded, refused, pending, outstanding, processed, lastReport,
                    lastAction, excluded, cycle, continued, runs, busRestarts>>
    BY <1>2 DEF Bus!Replies, Bus!ReplyChanges, Bus!busState
  <2>3. replies' \in [Report -> Bus!Reply]
    BY <2>1, <1>1
  <2>4. /\ edits' \in 0..MaxEdits /\ replyIds' \in [Report -> 0..MaxEdits]
        /\ \A q \in Report : replyIds'[q] <= edits'
    <3>1. /\ edits \in 0..MaxEdits /\ replyIds \in [Report -> 0..MaxEdits] /\ MaxEdits \in Nat
          /\ \A q \in Report : replyIds[q] <= edits
      BY DEF BusInv, BusTypes, Bus!TypeOK, Bus!BusAssumption, Report
    <3>2. CASE Bus!Replies(r)
      BY <3>1, <3>2 DEF Bus!Replies
    <3>3. CASE Bus!ReplyChanges(r)
      <4>1. PICK other \in {0, 1} : replyIds' = [replyIds EXCEPT ![r] = @ + other]
        BY <3>3 DEF Bus!ReplyChanges
      <4>2. edits' = edits + 1 /\ edits < MaxEdits
        BY <3>3 DEF Bus!ReplyChanges
      <4>3. replyIds[r] + other <= edits'
        BY <3>1, <4>2
      <4> QED  BY <3>1, <4>1, <4>2, <4>3
    <3> QED  BY <1>2, <3>2, <3>3
  <2>5. BusTypes'
    BY <2>2, <2>3, <2>4 DEF BusInv, BusTypes, Bus!TypeOK, Report
  <2>6. Settled' /\ Bound' /\ Fetched' /\ Synchronized' /\ Validated' /\ Handling'
    BY <2>2 DEF BusInv, Settled, Bound, Fetched, Synchronized, Validated, Handling
  <2> QED  BY <2>5, <2>6 DEF BusInv
<1>3. CASE Bus!PostedElsewhere
  <2>1. /\ posted' = posted + 1 /\ posted < MaxReports
        /\ UNCHANGED <<replies, replyIds, edits, registry, loaded, refused, pending, outstanding, processed,
                       lastReport, lastAction, excluded, cycle, continued, runs, busRestarts>>
    BY <1>3 DEF Bus!PostedElsewhere, Bus!busState
  <2>2. posted' \in 1..MaxReports /\ posted <= posted'
    BY <1>1, <2>1
  <2>3. BusTypes'
    BY <2>1, <2>2 DEF BusInv, BusTypes, Bus!TypeOK, Bus!Report
  <2>4. \A n \in 0..MaxReports : n <= posted => n <= posted'
    BY <1>1, <2>1
  <2>5. Settled'
    <3>1. processed \subseteq 0..MaxReports
      BY <1>1 DEF BusInv, BusTypes, Bus!TypeOK, Bus!Report
    <3> QED  BY <2>1, <2>4, <3>1 DEF BusInv, Settled
  <2>6. Synchronized' /\ Validated' /\ Handling'
    BY <2>1 DEF BusInv, Synchronized, Validated, Handling
  <2>7. Bound' /\ Fetched'
    BY <2>1, <2>4 DEF BusInv, BusTypes, Bus!TypeOK, Cycles, Bound, Fetched
  <2> QED  BY <2>3, <2>5, <2>6, <2>7 DEF BusInv
<1>4. CASE Bus!Restart
  <2>1. /\ cycle' = Bus!Between
        /\ UNCHANGED <<posted, replies, replyIds, edits, registry, loaded, refused, pending, outstanding, processed,
                       lastReport, lastAction, excluded, continued, runs>>
    BY <1>4 DEF Bus!Restart, Bus!remote, Bus!busState
  <2>2. cycle' \in Cycles /\ cycle'.at = "idle"
    BY <2>1, CycleEnds
  <2>3. BusTypes'
    BY <2>1, <2>2 DEF BusInv, BusTypes, Bus!TypeOK
  <2> QED
    BY <2>1, <2>2, <2>3
    DEF BusInv, Settled, Bound, Fetched, Synchronized, Validated, Handling, Working
<1>5. CASE UNCHANGED Bus!busVars
  BY <1>5 DEF Bus!busVars, Bus!remote, Bus!busState, BusInv, BusTypes, Bus!TypeOK, Settled, Bound, Fetched,
              Synchronized, Validated, Handling
<1> QED  BY <1>2, <1>3, <1>4, <1>5

LEMMA BusSteps ==
  ASSUME Bus!BusAssumption, BusInv, [Bus!Next]_Bus!busVars
  PROVE  BusInv'
  BY FetchKeeps, SyncKeeps, DropKeeps, SyncFilesKeeps, ChooseKeeps, CodexKeeps, PostKeeps, ResolveKeeps,
     MarkKeeps, RecoverKeeps, OthersKeep
  DEF Bus!Next, Report

(* The steps of the other components leave the bus as it is.                    *)
LEMMA BusPart ==
  /\ Init => Bus!Init
  /\ [Next]_allVars => [Bus!Next]_Bus!busVars
BY DEF Init, Next, allVars, busAll, Bus!busVars, Bus!busState, Bus!remote, RecoveryOnly, BusOnly,
       TaskOnly, GitOnly, GoingOnly, PlanOnly, ControlsOnly, PreflightOnly

LEMMA BusInvariant == Spec => []BusInv
<1>1. Bus!BusAssumption
  BY ControlCenterAssumption
<1>2. Init => BusInv
  BY <1>1, BusPart, BusBegins
<1>3. BusInv /\ [Next]_allVars => BusInv'
  BY <1>1, BusPart, BusSteps
<1> QED  BY <1>2, <1>3, PTL DEF Spec

(* The watcher's records keep their types.                                      *)
THEOREM BusKeepsTypes ==
  Spec => []Bus!TypeOK
<1>1. BusInv => Bus!TypeOK
  BY DEF BusInv, BusTypes
<1> QED  BY <1>1, BusInvariant, PTL

(* A report that was processed is never given to Codex again: not after a       *)
(* restart of the watcher, a second reply, a changed file or a recovery of the  *)
(* bus, for any number of reports of either transport.                          *)
THEOREM ProcessedForGood ==
  Spec => ProcessedIsNotContinued
<1>a. Bus!BusAssumption
  BY ControlCenterAssumption
<1>1. ASSUME BusInv, [Bus!Next]_Bus!busVars
      PROVE  [\A r \in processed : continued'[r] = continued[r]]_Bus!busVars
  <2>1. CASE Bus!ContinueCodex
    BY <1>a, <1>1, <2>1, CodexKeeps
  <2>2. CASE ~Bus!ContinueCodex
    <3>1. UNCHANGED continued
      BY <1>1, <2>2
      DEF Bus!Next, Bus!busVars, Bus!Fetch, Bus!Sync, Bus!DropPendingFile, Bus!SyncFiles, Bus!Choose,
          Bus!PostReport, Bus!Resolve, Bus!MarkApplied, Bus!RecoverOutstanding, Bus!Replies,
          Bus!ReplyChanges, Bus!PostedElsewhere, Bus!Restart
    <3> QED  BY <3>1
  <2> QED  BY <2>1, <2>2
<1> QED  BY <1>1, BusPart, BusInvariant, PTL
         DEF Spec, ProcessedIsNotContinued, Bus!ProcessedIsNotContinued

(* A report waits for a human until a confirmation that names it was applied,   *)
(* or an authorised recovery has made it non-controlling; no poll ends the      *)
(* wait, whatever the registry is rebuilt from.                                 *)
THEOREM WaitEndsByConfirmation ==
  Spec => HumanWaitEndsByConfirmation
<1>a. Bus!BusAssumption
  BY ControlCenterAssumption
<1> DEFINE Waits(r) == registry[r] = "HUMAN_REQUIRED" /\ registry'[r] # "HUMAN_REQUIRED"
                         => /\ registry'[r] = "RESOLVED_BY_CONFIRMATION"
                            /\ Confirms[cycle.report] = r /\ pending.said = "CONTINUE"
<1>1. ASSUME BusInv, [Bus!Next]_Bus!busVars
      PROVE  \A r \in processed \ excluded' : Waits(r)
  <2>1. /\ registry \in [Report -> Bus!EntryState] /\ processed \subseteq Report
        /\ \A r \in processed : registry[r] \in Bus!Ended
    BY <1>1 DEF BusInv, BusTypes, Bus!TypeOK, Report, Settled
  <2>2. CASE Bus!Sync
    <3>1. /\ registry' = [r \in Report |-> IF r > cycle.seen THEN registry[r]
                                           ELSE Bus!Synced(r, cycle.seen, cycle.said)]
          /\ UNCHANGED excluded
      BY <2>2 DEF Bus!Sync, Report
    <3>2. cycle.seen \in 0..MaxReports /\ cycle.said \in [Report -> Bus!Reply]
      BY <1>1 DEF BusInv, BusTypes, Cycles
    <3>3. \A r \in processed \ excluded :
            registry[r] = "HUMAN_REQUIRED" => Bus!Synced(r, cycle.seen, cycle.said) = "HUMAN_REQUIRED"
      BY <1>a, <1>1, <2>1, <3>2, SyncedIs
    <3> QED  BY <2>1, <3>1, <3>3
  <2>3. CASE Bus!DropPendingFile
    <3>1. pending.report # 0 /\ registry' = [registry EXCEPT ![pending.report] = "FILE_RESPONSE_INVALIDATED"]
      BY <2>3 DEF Bus!DropPendingFile, Bus!PendingFileFits
    <3>2. pending.report \notin processed
      BY <1>1, <3>1 DEF BusInv, Bound
    <3> QED  BY <2>1, <3>1, <3>2
  <2>4. CASE Bus!SyncFiles
    <3>1. \A r \in processed, ok \in Bus!FilesRead : ~Bus!ReadsFile(r, ok)
      BY <2>1 DEF Bus!ReadsFile
    <3> QED  BY <2>1, <2>4, <3>1 DEF Bus!SyncFiles, Report
  <2>5. CASE Bus!Choose
    <3>1. cycle.at = "choose"
      BY <2>5 DEF Bus!Choose
    <3>2. \/ UNCHANGED registry
          \/ LET r == Bus!CurrentReport
             IN  /\ r # 0 /\ cycle.said[r] # "NONE" /\ (Transport[r] = "comment" => r \notin processed)
                 /\ \E s \in Bus!EntryState : registry' = [registry EXCEPT ![r] = s]
      BY <2>5, Zenon DEF Bus!Choose, Bus!EntryState
    <3>3. CASE UNCHANGED registry
      BY <3>3
    <3>4. ASSUME NEW r, r = Bus!CurrentReport, r # 0, cycle.said[r] # "NONE",
                 Transport[r] = "comment" => r \notin processed,
                 \E s \in Bus!EntryState : registry' = [registry EXCEPT ![r] = s]
          PROVE  \A q \in processed \ excluded' : Waits(q)
      <4>1. r \notin processed
        BY <1>a, <1>1, <3>1, <3>4, ChooseBinds
      <4> QED  BY <2>1, <3>4, <4>1
    <3> QED  BY <3>2, <3>3, <3>4
  <2>6. CASE Bus!ContinueCodex
    <3>1. cycle.report \notin processed
      BY <1>a, <1>1, <2>6, Handled DEF Bus!ContinueCodex, Working
    <3>2. registry' = registry \/ registry' = [registry EXCEPT ![cycle.report] = "CONTINUATION_FAILED"]
      BY <2>6 DEF Bus!ContinueCodex
    <3> QED  BY <2>1, <3>1, <3>2
  <2>7. CASE Bus!PostReport
    <3>1. \A r \in processed : r # posted + 1
      BY <1>1 DEF BusInv, BusTypes, Bus!TypeOK, Settled, Bus!Report, Bus!BusAssumption
    <3>2. registry' = registry \/ registry' = [registry EXCEPT ![posted + 1] = "WAITING_RESPONSE"]
      BY <2>7 DEF Bus!PostReport
    <3> QED  BY <2>1, <3>1, <3>2
  <2>8. CASE Bus!Resolve
    BY <1>a, <1>1, <2>8, ResolveKeeps
  <2>9. ASSUME NEW target \in Report, Bus!RecoverOutstanding(target)
        PROVE  \A r \in processed \ excluded' : Waits(r)
    BY <1>a, <1>1, <2>9, RecoverKeeps
  <2>10. CASE \/ Bus!Fetch \/ Bus!MarkApplied \/ Bus!PostedElsewhere \/ Bus!Restart
              \/ \E r \in Report : Bus!Replies(r) \/ Bus!ReplyChanges(r)
              \/ UNCHANGED Bus!busVars
    <3>1. UNCHANGED registry
      BY <2>10 DEF Bus!Fetch, Bus!MarkApplied, Bus!PostedElsewhere, Bus!Restart, Bus!Replies,
                   Bus!ReplyChanges, Bus!busVars, Bus!busState
    <3> QED  BY <3>1
  <2> QED
    BY <1>1, <2>2, <2>3, <2>4, <2>5, <2>6, <2>7, <2>8, <2>9, <2>10 DEF Bus!Next, Report
<1>2. ASSUME BusInv, [Bus!Next]_Bus!busVars
      PROVE  [\A r \in processed \ excluded' :
                registry[r] = "HUMAN_REQUIRED" /\ registry'[r] # "HUMAN_REQUIRED"
                  => /\ registry'[r] = "RESOLVED_BY_CONFIRMATION"
                     /\ Confirms[cycle.report] = r /\ pending.said = "CONTINUE"]_Bus!busVars
  BY <1>1, <1>2
<1> QED  BY <1>2, BusPart, BusInvariant, PTL
         DEF Spec, HumanWaitEndsByConfirmation, Bus!HumanWaitEndsByConfirmation

(* A pending reply stays the one that was bound: a file that has changed since  *)
(* is never given to Codex, and neither is another comment than the one that    *)
(* was bound, though that one may read differently by now.                      *)
THEOREM BoundIsApplied ==
  Spec => AppliesWhatWasBound
<1>a. Bus!BusAssumption
  BY ControlCenterAssumption
<1> DEFINE Stays(r) == pending.report = r /\ pending'.report = r
                         => IF Transport[r] = "file" THEN pending'.said = pending.said
                                                     ELSE pending'.id = pending.id
<1>1. ASSUME BusInv, [Bus!Next]_Bus!busVars
      PROVE  \A r \in Bus!Report : Stays(r)
  <2>1. CASE Bus!Choose
    <3>1. cycle.at = "choose"
      BY <2>1 DEF Bus!Choose
    <3>2. \/ pending' = pending \/ pending' = Bus!NoReply
          \/ LET r == Bus!CurrentReport
             IN  /\ r # 0 /\ cycle.said[r] # "NONE" /\ (Transport[r] = "comment" => r \notin processed)
                 /\ Transport[r] = "comment" /\ pending.report # 0 => Bus!PendingFits(r)
                 /\ pending' = [report |-> r, id |-> cycle.ids[r], said |-> cycle.said[r]]
      BY <2>1 DEF Bus!Choose, Bus!Invalidates, Bus!Unmatched
    <3>3. CASE pending' = pending \/ pending' = Bus!NoReply
      BY <3>3 DEF Bus!NoReply, Bus!Report
    <3>4. ASSUME NEW r, r = Bus!CurrentReport, r # 0, cycle.said[r] # "NONE",
                 Transport[r] = "comment" => r \notin processed,
                 Transport[r] = "comment" /\ pending.report # 0 => Bus!PendingFits(r),
                 pending' = [report |-> r, id |-> cycle.ids[r], said |-> cycle.said[r]]
          PROVE  \A q \in Bus!Report : Stays(q)
      <4>1. Transport[r] = "file" /\ pending.report = r => cycle.said[r] = pending.said
        BY <1>a, <1>1, <3>1, <3>4, ChooseBinds
      <4>2. Transport[r] = "comment" /\ pending.report = r => cycle.ids[r] = pending.id
        BY <3>4 DEF Bus!PendingFits
      <4>3. r \in Report
        BY <1>a, <1>1, <3>1, <3>4, ChooseBinds
      <4>4. Transport[r] \in {"comment", "file"}
        BY <1>a, <4>3 DEF Bus!BusAssumption, Report
      <4> QED  BY <3>4, <4>1, <4>2, <4>4
    <3> QED  BY <3>2, <3>3, <3>4
  <2>2. CASE ~Bus!Choose
    <3>1. pending' = pending \/ pending' = Bus!NoReply
      BY <1>1, <2>2
      DEF Bus!Next, Bus!busVars, Bus!busState, Bus!Fetch, Bus!Sync, Bus!DropPendingFile, Bus!SyncFiles,
          Bus!ContinueCodex, Bus!PostReport, Bus!Resolve, Bus!MarkApplied, Bus!RecoverOutstanding,
          Bus!Replies, Bus!ReplyChanges, Bus!PostedElsewhere, Bus!Restart
    <3> QED  BY <3>1 DEF Bus!NoReply, Bus!Report
  <2> QED  BY <2>1, <2>2
<1>2. ASSUME BusInv, [Bus!Next]_Bus!busVars
      PROVE  [\A r \in Bus!Report : pending.report = r /\ pending'.report = r
                => IF Transport[r] = "file" THEN pending'.said = pending.said
                                            ELSE pending'.id = pending.id]_Bus!busVars
  BY <1>1, <1>2
<1> QED  BY <1>2, BusPart, BusInvariant, PTL
         DEF Spec, AppliesWhatWasBound, Bus!AppliesWhatWasBound
=============================================================================
