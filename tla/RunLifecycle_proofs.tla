------------------------- MODULE RunLifecycle_proofs -------------------------
(* What the run store and the settlement thread of RunLifecycle guarantee for   *)
(* any number of runs, Days and workers: type correctness, the version files as *)
(* an append-only log, and, while no request overtakes a settlement, that a     *)
(* completion is recorded once, last and with its telemetry.                    *)
EXTENDS RunLifecycle, SequenceTheorems, TLAPS

Recorded == [day : Day \cup {None}, state : State, hist : Seq(State)]

Places == {"idle", "work", "notify", "settle", "bind", "telemetry", "project"} \cup Writing

(* Types: every run file is missing, unfinished, or a whole record.             *)
Typed ==
  /\ record \in [Run -> Recorded \cup {Absent, Partial}]
  /\ history \in [Run -> SUBSET (Nat \X State)]
  /\ telemetry \in [Run -> 0..Torn] /\ tasks \in [Run -> 0..MaxTasks]
  /\ temporary \subseteq Run
  /\ snap \in [run : Run \cup {None}, day : Day \cup {None}, state : State, bound : BOOLEAN]
  /\ going \in Run \cup {None}
  /\ pc \in [Worker -> Places]
  /\ expected \in [Worker -> Run \cup {None}] /\ target \in [Worker -> State]
  /\ audit \in Outcomes /\ overlapped \in BOOLEAN
  /\ resumes \in 0..MaxResume /\ crashes \in 0..MaxCrash
  /\ \A r \in Run : history[r] \subseteq (0..Version(r)) \X State

(* A settlement is for a run, a writer's run has a whole record, and the lock   *)
(* admits one writer; runs are created in the order of their numbers.           *)
Placed ==
  /\ \A w \in Worker : pc[w] \notin {"idle", "work", "notify"} => expected[w] \in Run
  /\ \A w \in Worker : pc[w] \in Writing => record[expected[w]] \in Recorded
  /\ \A v, w \in Worker : pc[v] \in Writing /\ pc[w] \in Writing => v = w
  /\ Current \in 0..MaxRuns /\ Created = 1..Current

(* The version files hold every state a record has left, one file per version,  *)
(* and the present one only while an update is under way or has failed.         *)
Kept ==
  /\ \A r \in Run, i \in Nat :
       i \in 1..Len(record[r].hist) => <<i - 1, record[r].hist[i]>> \in history[r]
  /\ \A r \in Run, v \in Nat, s, t \in State :
       <<v, s>> \in history[r] /\ <<v, t>> \in history[r] => s = t
  /\ \A r \in Run, s \in State : <<Version(r), s>> \in history[r] => s = record[r].state
  /\ \A w \in Worker : pc[w] \in {"temporary", "replace"} =>
       <<Version(expected[w]), record[expected[w]].state>> \in history[expected[w]]

HasTelemetry(r) == telemetry[r] \notin {None, Torn}

(* What one settlement knows at each of its places while no request overtakes it. *)
Settling(w) ==
  /\ pc[w] = "work" => snap.state \in Active
  /\ pc[w] \notin {"idle", "work"} => snap.state \in Settled
  /\ pc[w] \in {"bind", "telemetry"} => snap.state = "COMPLETE"
  /\ pc[w] \in {"bind", "telemetry", "project"} =>
       ~(expected[w] = Current /\ record[expected[w]].state = "COMPLETE")
  /\ pc[w] \in Writing => expected[w] = Current /\ record[Current].state # "COMPLETE"
  /\ pc[w] \in {"project"} \cup Writing /\ snap.state = "COMPLETE" => HasTelemetry(expected[w])
  /\ pc[w] \in {"history", "temporary", "replace"} => target[w] = snap.state

Lone ==
  /\ \A v, w \in Worker : pc[v] # "idle" /\ pc[w] # "idle" => v = w
  /\ \A w \in Worker : Settling(w)
  /\ \A r \in Run : record[r].state = "COMPLETE" => HasTelemetry(r)
  /\ \A r \in Created : r # Current => record[r].state \in TERMINAL_STATES \cup {"PARTIAL"}

Solo == overlapped \/ Lone

(* Which run the Day, a worker and go() are about.                              *)
Owned ==
  /\ snap.run \in 0..Current /\ going \in {None, Current}
  /\ snap.state # "IDLE" => snap.run # None
  /\ going # None => snap.run # going

(* While nothing has crashed or raised either, the update cannot fail and the   *)
(* record ends up in the state of the Day.                                      *)
Follows(w) ==
  /\ pc[w] # "idle" => expected[w] = snap.run /\ snap.run # None
  /\ pc[w] # "idle" /\ snap.run = Current => record[Current].state # "COMPLETE"
  /\ pc[w] \in {"telemetry", "project"} /\ snap.state = "COMPLETE" => snap.bound

Calm ==
  /\ ~Unreadable /\ \A r \in Run : telemetry[r] # Torn
  /\ \A r \in temporary : \E w \in Worker : pc[w] = "replace" /\ expected[w] = r
  /\ \A r \in Run, s \in State : <<Version(r), s>> \in history[r] =>
       \E w \in Worker : pc[w] \in {"temporary", "replace"} /\ expected[w] = r
  /\ \A w \in Worker : Follows(w)
  /\ going # None => record[going].state # "COMPLETE"
  /\ SettledIsRecorded

Quiet == overlapped \/ crashes # 0 \/ Calm
-----------------------------------------------------------------------------
(* The steps, one disjunct for each action, with what a settlement is given.    *)
LEMMA Steps ==
  ASSUME [Next]_vars
  PROVE  \/ \E d \in Day, admitted \in BOOLEAN : GoCreate(d, admitted)
         \/ GoCreateTorn \/ GoStart \/ Resume \/ (\E d \in Day : SelectDay(d)) \/ Crash
         \/ \E w \in Worker :
              \/ DayTask(w) \/ DayReturns(w) \/ Notify(w) \/ Settle(w) \/ BindEvidence(w)
              \/ Telemetry(w) \/ Project(w) \/ Advance(w) \/ WriteHistory(w)
              \/ WriteTemporary(w) \/ ReplaceRecord(w) \/ ReplaceRaises(w) \/ TelemetryTorn(w)
         \/ UNCHANGED vars
BY DEF Next, SettlementStep

(* The last of the runs 1 to n is n.                                            *)
LEMMA LastOf ==
  ASSUME NEW n \in Nat
  PROVE  /\ 1..n = {} <=> n = 0
         /\ n # 0 => n = CHOOSE r \in 1..n : \A q \in 1..n : q <= r
<1>1. 1..n = {} <=> n = 0
  <2>1. n # 0 => 1 \in 1..n
    OBVIOUS
  <2> QED BY <2>1
<1>2. ASSUME n # 0 PROVE n = CHOOSE r \in 1..n : \A q \in 1..n : q <= r
  <2> DEFINE c == CHOOSE r \in 1..n : \A q \in 1..n : q <= r
  <2>1. n \in 1..n /\ \A q \in 1..n : q <= n
    BY <1>2
  <2>2. c \in 1..n /\ \A q \in 1..n : q <= c
    BY <2>1
  <2> HIDE DEF c
  <2>3. c = n
    BY <2>1, <2>2
  <2> QED BY <2>3 DEF c
<1> QED BY <1>1, <1>2

LEMMA CurrentIs == \A n \in Nat : Created = 1..n => Current = n
BY LastOf DEF Current, None

(* A step that leaves the run files alone leaves all that is read from them.    *)
LEMMA RecordFrame ==
  ASSUME UNCHANGED record
  PROVE  /\ Created' = Created /\ Current' = Current /\ Unreadable' = Unreadable
         /\ \A r : Version(r)' = Version(r)
         /\ \A r : IsCurrent(r)' = IsCurrent(r)
BY DEF Created, Current, Unreadable, IsCurrent, Version, Absent, Partial

LEMMA Ending ==
  ASSUME Typed, NEW w \in Worker, NEW outcome \in Outcomes, Ends(w, outcome)
  PROVE  /\ audit' \in Outcomes /\ pc' \in [Worker -> Places]
         /\ expected' \in [Worker -> Run \cup {None}] /\ target' \in [Worker -> State]
         /\ pc'[w] = "idle"
         /\ \A v \in Worker \ {w} : pc'[v] = pc[v] /\ expected'[v] = expected[v] /\ target'[v] = target[v]
BY DEF Typed, Ends, Places, State

LEMMA Going ==
  ASSUME Typed, NEW w \in Worker, NEW next \in Places, Goes(w, next)
  PROVE  /\ pc' \in [Worker -> Places]
         /\ expected' \in [Worker -> Run \cup {None}] /\ target' \in [Worker -> State]
         /\ pc'[w] = next /\ expected' = expected /\ target' = target
         /\ \A v \in Worker \ {w} : pc'[v] = pc[v]
BY DEF Typed, Goes

LEMMA Launching ==
  ASSUME Typed, NEW r \in Run \cup {None}, Launch(r)
  PROVE  \E w \in Worker :
           /\ pc[w] = "idle" /\ pc' = [pc EXCEPT ![w] = "work"]
           /\ expected' = [expected EXCEPT ![w] = r] /\ target' = target
           /\ pc' \in [Worker -> Places] /\ expected' \in [Worker -> Run \cup {None}]
           /\ target' \in [Worker -> State]
<1>1. PICK w \in Worker :
        /\ pc[w] = "idle" /\ pc' = [pc EXCEPT ![w] = "work"]
        /\ expected' = [expected EXCEPT ![w] = r] /\ target' = target
  BY DEF Launch
<1>2. pc' \in [Worker -> Places]
  BY <1>1 DEF Typed, Places
<1>3. expected' \in [Worker -> Run \cup {None}] /\ target' \in [Worker -> State]
  BY <1>1 DEF Typed
<1> QED BY <1>1, <1>2, <1>3
-----------------------------------------------------------------------------
(* A record once written keeps its whole form, and only grows.                  *)
LEMMA Replacing ==
  ASSUME NEW rec \in Recorded, NEW s \in State
  PROVE  /\ Replaced(rec, s) \in Recorded
         /\ Replaced(rec, s).state = s /\ Replaced(rec, s).day = rec.day
         /\ Replaced(rec, s).hist = Append(rec.hist, rec.state)
         /\ Replaced(rec, s) \notin {Absent, Partial}
<1>1. /\ Replaced(rec, s) = [day |-> rec.day, state |-> s, hist |-> Append(rec.hist, rec.state)]
      /\ rec.day \in Day \cup {None} /\ rec.state \in State /\ rec.hist \in Seq(State)
  <2>1. PICK d \in Day \cup {None}, t \in State, h \in Seq(State) :
          rec = [day |-> d, state |-> t, hist |-> h]
    BY DEF Recorded
  <2>2. rec.day = d /\ rec.state = t /\ rec.hist = h
    BY <2>1
  <2>3. Replaced(rec, s)
          = [[day |-> d, state |-> t, hist |-> h] EXCEPT !.state = s, !.hist = Append(h, t)]
    BY <2>1, <2>2 DEF Replaced
  <2>4. [[day |-> d, state |-> t, hist |-> h] EXCEPT !.state = s]
          = [day |-> d, state |-> s, hist |-> h]
    OBVIOUS
  <2>5. [[day |-> d, state |-> s, hist |-> h] EXCEPT !.hist = Append(h, t)]
          = [day |-> d, state |-> s, hist |-> Append(h, t)]
    OBVIOUS
  <2>6. Replaced(rec, s) = [day |-> d, state |-> s, hist |-> Append(h, t)]
    BY <2>3, <2>4, <2>5
  <2> QED BY <2>2, <2>6
<1>2. Append(rec.hist, rec.state) \in Seq(State)
  BY <1>1, AppendProperties
<1>3. s \notin {"ABSENT", "PARTIAL"}
  BY DEF State, Active, Settled, Authority
<1> QED BY <1>1, <1>2, <1>3 DEF Recorded, Absent, Partial

(* What the rest of the module knows of the file of one run.                    *)
LEMMA RecordForm ==
  ASSUME Typed, NEW r \in Run
  PROVE  /\ record[r] \in Recorded \/ record[r] = Absent \/ record[r] = Partial
         /\ record[r] \in Recorded <=> record[r] \notin {Absent, Partial}
         /\ Version(r) \in Nat
         /\ record[r] \in Recorded => record[r].state \in State /\ record[r].hist \in Seq(State)
         /\ record[r] = Absent => record[r].state = "ABSENT" /\ record[r].hist = <<>>
         /\ record[r] = Partial => record[r].state = "PARTIAL" /\ record[r].hist = <<>>
<1>1. record[r] \in Recorded \/ record[r] = Absent \/ record[r] = Partial
  BY DEF Typed
<1>2. ASSUME record[r] \in Recorded PROVE /\ record[r].state \in State /\ record[r].hist \in Seq(State)
                                          /\ record[r] \notin {Absent, Partial}
  <2>1. record[r].state \in State /\ record[r].hist \in Seq(State)
    BY <1>2 DEF Recorded
  <2>2. record[r].state \notin {"ABSENT", "PARTIAL"}
    BY <2>1 DEF State, Active, Settled, Authority
  <2> QED BY <2>1, <2>2 DEF Absent, Partial
<1>3. /\ Absent.state = "ABSENT" /\ Absent.hist = <<>>
      /\ Partial.state = "PARTIAL" /\ Partial.hist = <<>>
  BY DEF Absent, Partial
<1>4. Version(r) \in Nat
  <2>1. << >> \in Seq(State)
    OBVIOUS
  <2>2. record[r].hist \in Seq(State)
    BY <1>1, <1>2, <1>3, <2>1
  <2> QED BY <2>2, LenProperties DEF Version
<1> QED BY <1>1, <1>2, <1>3, <1>4

(* What an update keeps and records is a state of its run, at its version.      *)
LEMMA Writer ==
  ASSUME Typed, Placed, NEW w \in Worker, pc[w] \in Writing
  PROVE  /\ expected[w] \in Run /\ record[expected[w]] \in Recorded
         /\ record[expected[w]].state \in State /\ target[w] \in State
         /\ Version(expected[w]) \in Nat
<1>1. expected[w] \in Run /\ record[expected[w]] \in Recorded
  BY DEF Placed, Writing
<1> QED BY <1>1, RecordForm DEF Typed
-----------------------------------------------------------------------------
(* Types.  Steps of the store first: those that write a run's files.            *)
LEMMA TypedCreate ==
  ASSUME Typed, Placed, NEW rec \in Recorded \cup {Partial}, rec.hist = << >>,
         Current < MaxRuns, record' = [record EXCEPT ![Current + 1] = rec],
         UNCHANGED history
  PROVE  /\ record' \in [Run -> Recorded \cup {Absent, Partial}]
         /\ \A r \in Run : history'[r] \subseteq (0..Version(r)') \X State
<1>1. Current + 1 \in Run
  BY LifecycleAssumption DEF Placed, Run
<1>2. record' \in [Run -> Recorded \cup {Absent, Partial}]
  BY <1>1 DEF Typed
<1>3. Current + 1 \notin Created
  BY LifecycleAssumption DEF Placed
<1>4. Version(Current + 1) = 0
  BY <1>1, <1>3, RecordForm DEF Created, Version
<1>5. \A r \in Run : Version(r)' = Version(r)
  <2> SUFFICES ASSUME NEW r \in Run PROVE Version(r)' = Version(r)
    OBVIOUS
  <2>1. CASE r = Current + 1
    <3>1. record'[r] = rec
      BY <2>1, <1>1 DEF Typed
    <3> QED BY <3>1, <2>1, <1>4 DEF Version
  <2>2. CASE r # Current + 1
    BY <2>2, <1>1 DEF Version, Typed
  <2> QED BY <2>1, <2>2
<1> QED BY <1>2, <1>5 DEF Typed

LEMMA TypedReplace ==
  ASSUME Typed, Placed, NEW w \in Worker, ReplaceRecord(w)
  PROVE  Typed'
<1>1. PICK r \in Run : r = expected[w] /\ record[r] \in Recorded /\ target[w] \in State
  BY Writer DEF ReplaceRecord, Writing
<1> DEFINE new == Replaced(record[r], target[w])
<1>2. new \in Recorded /\ new.hist = Append(record[r].hist, record[r].state)
  BY <1>1, Replacing
<1>3. record' = [record EXCEPT ![r] = new]
  BY <1>1 DEF ReplaceRecord
<1> HIDE DEF new
<1>4. record' \in [Run -> Recorded \cup {Absent, Partial}] /\ record'[r] = new
  BY <1>1, <1>2, <1>3 DEF Typed
<1>5. record[r].hist \in Seq(State) /\ record[r].state \in State /\ Version(r) \in Nat
  BY <1>1, RecordForm
<1>6. Version(r)' = Version(r) + 1
  BY <1>2, <1>4, <1>5, AppendProperties DEF Version
<1>7. \A q \in Run : Version(q) \in Nat /\ Version(q)' \in Nat /\ Version(q) <= Version(q)'
  <2> SUFFICES ASSUME NEW q \in Run
               PROVE  Version(q) \in Nat /\ Version(q)' \in Nat /\ Version(q) <= Version(q)'
    OBVIOUS
  <2>1. Version(q) \in Nat
    BY RecordForm
  <2>2. CASE q = r
    BY <2>1, <2>2, <1>6
  <2>3. CASE q # r
    BY <2>1, <2>3, <1>1, <1>3 DEF Version, Typed
  <2> QED BY <2>2, <2>3
<1>8. history' = history
  BY DEF ReplaceRecord
<1>9. \A q \in Run : history'[q] \subseteq (0..Version(q)') \X State
  <2> SUFFICES ASSUME NEW q \in Run, NEW e \in history[q] PROVE e \in (0..Version(q)') \X State
    BY <1>8
  <2>1. e \in (0..Version(q)) \X State
    BY DEF Typed
  <2> QED BY <2>1, <1>7
<1>10. /\ audit' \in Outcomes /\ pc' \in [Worker -> Places]
       /\ expected' \in [Worker -> Run \cup {None}] /\ target' \in [Worker -> State]
  <2>1. Ends(w, "PROJECTED") /\ "PROJECTED" \in Outcomes
    BY DEF ReplaceRecord, Outcomes
  <2> QED BY <2>1, Ending
<1> QED BY <1>4, <1>8, <1>9, <1>10 DEF Typed, ReplaceRecord

LEMMA TypedHistory ==
  ASSUME Typed, Placed, NEW w \in Worker, WriteHistory(w)
  PROVE  Typed'
<1> DEFINE r == expected[w]
<1>1. /\ r \in Run /\ record[r] \in Recorded /\ record[r].state \in State
      /\ Version(r) \in Nat
  BY Writer DEF WriteHistory, Writing
<1>2. UNCHANGED record /\ \A q : Version(q)' = Version(q)
  BY RecordFrame DEF WriteHistory
<1>3. CASE Ends(w, "FAILED") /\ UNCHANGED history
  <2>1. "FAILED" \in Outcomes
    BY DEF Outcomes
  <2>2. /\ audit' \in Outcomes /\ pc' \in [Worker -> Places]
        /\ expected' \in [Worker -> Run \cup {None}] /\ target' \in [Worker -> State]
    BY <1>3, <2>1, Ending
  <2> QED BY <1>2, <1>3, <2>2 DEF Typed, WriteHistory
<1>4. CASE /\ history' = [history EXCEPT ![r] = @ \cup {<<Version(r), record[r].state>>}]
           /\ Goes(w, "temporary") /\ UNCHANGED audit
  <2>1. "temporary" \in Places
    BY DEF Places, Writing
  <2>2. /\ pc' \in [Worker -> Places]
        /\ expected' \in [Worker -> Run \cup {None}] /\ target' \in [Worker -> State]
    BY <1>4, <2>1, Going
  <2>3. <<Version(r), record[r].state>> \in (0..Version(r)) \X State
    BY <1>1
  <2>4. (0..Version(r)) \X State \subseteq Nat \X State
    BY <1>1
  <2>5. history' \in [Run -> SUBSET (Nat \X State)]
    BY <1>1, <1>4, <2>3, <2>4 DEF Typed
  <2>6. \A q \in Run : history'[q] \subseteq (0..Version(q)') \X State
    BY <1>1, <1>2, <1>4, <2>3 DEF Typed
  <2> QED BY <1>2, <1>4, <2>2, <2>5, <2>6 DEF Typed, WriteHistory
<1> QED BY <1>3, <1>4 DEF WriteHistory

(* What a step that writes no run file and no version file has left to show.    *)
Rest ==
  /\ telemetry \in [Run -> 0..Torn] /\ tasks \in [Run -> 0..MaxTasks]
  /\ temporary \subseteq Run
  /\ snap \in [run : Run \cup {None}, day : Day \cup {None}, state : State, bound : BOOLEAN]
  /\ going \in Run \cup {None}
  /\ pc \in [Worker -> Places]
  /\ expected \in [Worker -> Run \cup {None}] /\ target \in [Worker -> State]
  /\ audit \in Outcomes /\ overlapped \in BOOLEAN
  /\ resumes \in 0..MaxResume /\ crashes \in 0..MaxCrash

LEMMA TypedRest ==
  /\ Typed => Rest
  /\ Typed /\ Rest' /\ UNCHANGED <<record, history>> => Typed'
<1>1. Typed => Rest
  BY DEF Typed, Rest
<1>2. ASSUME Typed, Rest', UNCHANGED <<record, history>> PROVE Typed'
  <2>1. \A q : Version(q)' = Version(q)
    BY <1>2, RecordFrame
  <2> QED BY <1>2, <2>1 DEF Typed, Rest
<1> QED BY <1>1, <1>2

(* A settlement thread's steps but the two that write a run's files.            *)
LEMMA TypedWorker ==
  ASSUME Typed, Placed, NEW w \in Worker,
         \/ DayTask(w) \/ DayReturns(w) \/ Notify(w) \/ Settle(w) \/ BindEvidence(w)
         \/ Telemetry(w) \/ Project(w) \/ Advance(w)
         \/ WriteTemporary(w) \/ ReplaceRaises(w) \/ TelemetryTorn(w)
  PROVE  Typed'
<1> USE LifecycleAssumption
<1>a. Rest /\ expected[w] \in Run \cup {None}
  BY TypedRest DEF Rest
<1>b. snap.state \in State /\ snap.run \in Run \cup {None} /\ snap.bound \in BOOLEAN
  BY <1>a DEF Rest
<1>c. pc[w] \notin {"idle", "work", "notify"} => expected[w] \in Run
  BY DEF Placed
<1>d. ASSUME NEW outcome \in Outcomes, Ends(w, outcome)
      PROVE  /\ audit' \in Outcomes /\ pc' \in [Worker -> Places]
             /\ expected' \in [Worker -> Run \cup {None}] /\ target' \in [Worker -> State]
  BY <1>d, Ending
<1>e. ASSUME NEW next \in Places, Goes(w, next), UNCHANGED audit
      PROVE  /\ audit' \in Outcomes /\ pc' \in [Worker -> Places]
             /\ expected' \in [Worker -> Run \cup {None}] /\ target' \in [Worker -> State]
  BY <1>e, Going DEF Typed
<1>f. \A p \in {"settle", "bind", "project", "telemetry", "advance", "history", "replace",
                "idle", "notify"} : p \in Places
  BY DEF Places, Writing
<1>1. CASE DayTask(w)
  <2>1. snap' \in [run : Run \cup {None}, day : Day \cup {None}, state : State, bound : BOOLEAN]
    BY <1>1, <1>a DEF DayTask, Rest, State, Active
  <2>2. tasks' \in [Run -> 0..MaxTasks]
    BY <1>1, <1>a, <1>b DEF DayTask, Rest
  <2>3. Rest'
    BY <1>1, <1>a, <2>1, <2>2 DEF DayTask, Rest, store, threads
  <2> QED BY <1>1, <2>3, TypedRest DEF DayTask, store
<1>2. CASE DayReturns(w)
  <2>1. snap' \in [run : Run \cup {None}, day : Day \cup {None}, state : State, bound : BOOLEAN]
    BY <1>2, <1>a DEF DayReturns, Rest, State
  <2>2. Rest'
    BY <1>2, <1>a, <1>f, <2>1 DEF DayReturns, Rest, store
  <2> QED BY <1>2, <2>2, TypedRest DEF DayReturns, store
<1>3. CASE Notify(w)
  <2>1. /\ audit' \in Outcomes /\ pc' \in [Worker -> Places]
        /\ expected' \in [Worker -> Run \cup {None}] /\ target' \in [Worker -> State]
    <3>1. audit \in Outcomes /\ "DAY_SNAPSHOT_RUN_ID_MISMATCH" \in Outcomes
          /\ "DAY_WORKER_NOT_SETTLED" \in Outcomes
      BY <1>a DEF Rest, Outcomes
    <3> QED BY <1>3, <1>d, <1>e, <1>f, <3>1 DEF Notify
  <2>2. Rest'
    BY <1>3, <1>a, <2>1 DEF Notify, Rest, store
  <2> QED BY <1>3, <2>2, TypedRest DEF Notify, store
<1>4. CASE Settle(w)
  <2>1. /\ audit' \in Outcomes /\ pc' \in [Worker -> Places]
        /\ expected' \in [Worker -> Run \cup {None}] /\ target' \in [Worker -> State]
    <3>1. {"FAILED", "ALREADY_PROJECTED", "REPLAY_CONFLICT"} \subseteq Outcomes
      BY DEF Outcomes
    <3> QED BY <1>4, <1>d, <1>e, <1>f, <3>1 DEF Settle
  <2>2. Rest'
    BY <1>4, <1>a, <2>1 DEF Settle, Rest, store
  <2> QED BY <1>4, <2>2, TypedRest DEF Settle, store
<1>5. CASE BindEvidence(w)
  <2>1. /\ audit' \in Outcomes /\ pc' \in [Worker -> Places]
        /\ expected' \in [Worker -> Run \cup {None}] /\ target' \in [Worker -> State]
    <3>1. {"FAILED", "RUN_NOT_CURRENT", "DAY_SNAPSHOT_RUN_ID_MISMATCH", "EVIDENCE"} \subseteq Outcomes
      BY DEF Outcomes
    <3> QED BY <1>5, <1>d, <1>e, <1>f, <3>1 DEF BindEvidence
  <2>2. snap' \in [run : Run \cup {None}, day : Day \cup {None}, state : State, bound : BOOLEAN]
    BY <1>5, <1>a DEF BindEvidence, Rest
  <2>3. Rest'
    BY <1>5, <1>a, <2>1, <2>2 DEF BindEvidence, Rest, store
  <2> QED BY <1>5, <2>3, TypedRest DEF BindEvidence, store
<1>6. CASE Telemetry(w)
  <2>1. /\ audit' \in Outcomes /\ pc' \in [Worker -> Places]
        /\ expected' \in [Worker -> Run \cup {None}] /\ target' \in [Worker -> State]
    <3>1. {"FAILED", "TELEMETRY"} \subseteq Outcomes
      BY DEF Outcomes
    <3> QED BY <1>6, <1>d, <1>e, <1>f, <3>1 DEF Telemetry
  <2>2. expected[w] \in Run
    BY <1>6, <1>c DEF Telemetry
  <2>3. TelemetryOf(expected[w]) \in 0..Torn
    BY <2>2, <1>a DEF TelemetryOf, Rest, Torn
  <2>4. telemetry' \in [Run -> 0..Torn]
    BY <1>6, <1>a, <2>2, <2>3 DEF Telemetry, Rest
  <2>5. Rest'
    BY <1>6, <1>a, <2>1, <2>4 DEF Telemetry, Rest
  <2> QED BY <1>6, <2>5, TypedRest DEF Telemetry
<1>7. CASE Project(w)
  <2>1. /\ audit' \in Outcomes /\ pc' \in [Worker -> Places]
        /\ expected' \in [Worker -> Run \cup {None}] /\ target' \in [Worker -> State]
    <3>1. {"FAILED", "RUN_NOT_CURRENT", "DAY_SNAPSHOT_RUN_ID_MISMATCH",
           "VALIDATOR_EVIDENCE_INCOMPLETE"} \subseteq Outcomes
      BY DEF Outcomes
    <3> QED BY <1>7, <1>d, <1>e, <1>f, <3>1 DEF Project
  <2>2. Rest'
    BY <1>7, <1>a, <2>1 DEF Project, Rest, store
  <2> QED BY <1>7, <2>2, TypedRest DEF Project, store
<1>8. CASE Advance(w)
  <2>1. Rest'
    BY <1>8, <1>a, <1>b, <1>f DEF Advance, Rest, store
  <2> QED BY <1>8, <2>1, TypedRest DEF Advance, store
<1>9. CASE WriteTemporary(w)
  <2>1. /\ audit' \in Outcomes /\ pc' \in [Worker -> Places]
        /\ expected' \in [Worker -> Run \cup {None}] /\ target' \in [Worker -> State]
    <3>1. "FAILED" \in Outcomes
      BY DEF Outcomes
    <3> QED BY <1>9, <1>d, <1>e, <1>f, <3>1 DEF WriteTemporary
  <2>2. temporary' \subseteq Run
    BY <1>9, <1>a, <1>c DEF WriteTemporary, Rest
  <2>3. Rest'
    BY <1>9, <1>a, <2>1, <2>2 DEF WriteTemporary, Rest
  <2> QED BY <1>9, <2>3, TypedRest DEF WriteTemporary
<1>10. CASE ReplaceRaises(w) \/ TelemetryTorn(w)
  <2>1. /\ audit' \in Outcomes /\ pc' \in [Worker -> Places]
        /\ expected' \in [Worker -> Run \cup {None}] /\ target' \in [Worker -> State]
    <3>1. "FAILED" \in Outcomes
      BY DEF Outcomes
    <3> QED BY <1>10, <1>d, <3>1 DEF ReplaceRaises, TelemetryTorn
  <2>2. temporary' \subseteq Run /\ crashes' \in 0..MaxCrash
    BY <1>10, <1>a DEF ReplaceRaises, TelemetryTorn, Rest
  <2>3. telemetry' \in [Run -> 0..Torn]
    BY <1>10, <1>a DEF ReplaceRaises, TelemetryTorn, Rest, Torn
  <2>4. Rest'
    BY <1>10, <1>a, <2>1, <2>2, <2>3 DEF ReplaceRaises, TelemetryTorn, Rest
  <2> QED BY <1>10, <2>4, TypedRest DEF ReplaceRaises, TelemetryTorn
<1> QED BY <1>1, <1>2, <1>3, <1>4, <1>5, <1>6, <1>7, <1>8, <1>9, <1>10

(* The requests, a restart, and a run whose file is created or left unfinished. *)
LEMMA TypedRequest ==
  ASSUME Typed, Placed,
         \/ \E d \in Day, admitted \in BOOLEAN : GoCreate(d, admitted)
         \/ GoCreateTorn \/ GoStart \/ Resume \/ (\E d \in Day : SelectDay(d)) \/ Crash
  PROVE  Typed'
<1> USE LifecycleAssumption
<1>a. Rest
  BY TypedRest
<1>b. overlapped' \in BOOLEAN \/ UNCHANGED overlapped
  BY <1>a DEF GoCreate, GoCreateTorn, GoStart, Resume, SelectDay, Crash, Requested, Rest
<1>1. ASSUME NEW d \in Day, NEW admitted \in BOOLEAN, GoCreate(d, admitted) PROVE Typed'
  <2> DEFINE rec == [day |-> d, state |-> IF admitted THEN "PREFLIGHT" ELSE "HUMAN_ACTION_REQUIRED",
                     hist |-> << >>]
  <2>1. rec \in Recorded
    BY DEF Recorded, State, Active, Settled, Authority
  <2>2. rec.hist = << >> /\ Current < MaxRuns /\ record' = [record EXCEPT ![Current + 1] = rec]
        /\ UNCHANGED history
    BY <1>1 DEF GoCreate
  <2> HIDE DEF rec
  <2>3. /\ record' \in [Run -> Recorded \cup {Absent, Partial}]
        /\ \A r \in Run : history'[r] \subseteq (0..Version(r)') \X State
    BY <2>1, <2>2, TypedCreate
  <2>4. Current + 1 \in Run
    BY <2>2 DEF Placed, Run
  <2>5. going' \in Run \cup {None}
    BY <1>1, <2>4 DEF GoCreate
  <2> QED BY <1>1, <1>a, <1>b, <2>3, <2>5 DEF GoCreate, Rest, Typed, threads
<1>2. CASE GoCreateTorn
  <2>1. Partial.hist = << >> /\ Current < MaxRuns /\ record' = [record EXCEPT ![Current + 1] = Partial]
        /\ UNCHANGED history
    BY <1>2 DEF GoCreateTorn, Partial
  <2>2. /\ record' \in [Run -> Recorded \cup {Absent, Partial}]
        /\ \A r \in Run : history'[r] \subseteq (0..Version(r)') \X State
    BY <2>1, TypedCreate
  <2>3. crashes' \in 0..MaxCrash
    BY <1>2, <1>a DEF GoCreateTorn, Rest
  <2> QED BY <1>2, <1>a, <1>b, <2>2, <2>3 DEF GoCreateTorn, Rest, Typed, threads
<1>3. CASE GoStart
  <2>1. going \in Run
    BY <1>3, <1>a DEF GoStart, Rest
  <2>2. CASE StartPermitted(going)
    <3>1. record[going].day \in Day \cup {None}
      <4>1. Absent.day = None /\ Partial.day = None
        BY DEF Absent, Partial
      <4>2. \A rec \in Recorded : rec.day \in Day \cup {None}
        BY DEF Recorded
      <4>3. record[going] \in Recorded \/ record[going] = Absent \/ record[going] = Partial
        BY <2>1, RecordForm
      <4> QED BY <4>1, <4>2, <4>3
    <3>2. snap' \in [run : Run \cup {None}, day : Day \cup {None}, state : State, bound : BOOLEAN]
      <4>1. PICK d \in Day \cup {None} : d = record[going].day
        BY <3>1
      <4>2. snap' = [run |-> going, day |-> d, state |-> "PREFLIGHT", bound |-> FALSE]
        BY <1>3, <2>2, <4>1 DEF GoStart
      <4>3. "PREFLIGHT" \in State
        BY DEF State, Active
      <4> QED BY <2>1, <4>2, <4>3
    <3>3. /\ pc' \in [Worker -> Places]
          /\ expected' \in [Worker -> Run \cup {None}] /\ target' \in [Worker -> State]
      BY <1>3, <2>1, <2>2, Launching DEF GoStart
    <3>4. Rest'
      BY <1>3, <1>a, <3>2, <3>3 DEF GoStart, Rest, store
    <3> QED BY <1>3, <3>4, TypedRest DEF GoStart, store
  <2>3. CASE ~StartPermitted(going)
    <3>1. Rest'
      BY <1>3, <1>a, <2>3 DEF GoStart, Rest, store, threads
    <3> QED BY <1>3, <3>1, TypedRest DEF GoStart, store
  <2> QED BY <2>2, <2>3
<1>4. CASE Resume
  <2>1. snap.run \in Run \cup {None}
    BY <1>a DEF Rest
  <2>2. snap' \in [run : Run \cup {None}, day : Day \cup {None}, state : State, bound : BOOLEAN]
    BY <1>4, <1>a DEF Resume, Rest, State, Active
  <2>3. /\ pc' \in [Worker -> Places]
        /\ expected' \in [Worker -> Run \cup {None}] /\ target' \in [Worker -> State]
    BY <1>4, <2>1, Launching DEF Resume
  <2>4. resumes' \in 0..MaxResume
    BY <1>4, <1>a DEF Resume, Rest
  <2>5. Rest'
    BY <1>4, <1>a, <1>b, <2>2, <2>3, <2>4 DEF Resume, Rest, store
  <2> QED BY <1>4, <2>5, TypedRest DEF Resume, store
<1>5. ASSUME NEW d \in Day, SelectDay(d) PROVE Typed'
  <2>1. snap' \in [run : Run \cup {None}, day : Day \cup {None}, state : State, bound : BOOLEAN]
    <3>1. snap' = [run |-> None, day |-> d, state |-> "IDLE", bound |-> FALSE]
      BY <1>5 DEF SelectDay, EmptySnapshot
    <3> QED BY <3>1 DEF State
  <2>2. Rest'
    BY <1>5, <1>a, <1>b, <2>1 DEF SelectDay, Rest, store, threads
  <2> QED BY <1>5, <2>2, TypedRest DEF SelectDay, store
<1>6. CASE Crash
  <2>1. snap' \in [run : Run \cup {None}, day : Day \cup {None}, state : State, bound : BOOLEAN]
    BY <1>6, <1>a DEF Crash, Rest, State, Settled
  <2>2. /\ pc' \in [Worker -> Places]
        /\ expected' \in [Worker -> Run \cup {None}] /\ target' \in [Worker -> State]
    BY <1>6 DEF Crash, Places, State
  <2>3. crashes' \in 0..MaxCrash
    BY <1>6, <1>a DEF Crash, Rest
  <2>4. Rest'
    BY <1>6, <1>a, <2>1, <2>2, <2>3 DEF Crash, Rest, store
  <2> QED BY <1>6, <2>4, TypedRest DEF Crash, store
<1> QED BY <1>1, <1>2, <1>3, <1>4, <1>5, <1>6

LEMMA TypedStep ==
  ASSUME Typed, Placed, [Next]_vars
  PROVE  Typed'
<1>1. CASE UNCHANGED vars
  <2>1. Rest'
    BY <1>1, TypedRest DEF vars, store, threads, Rest
  <2> QED BY <1>1, <2>1, TypedRest DEF vars, store
<1> QED BY <1>1, Steps, TypedRequest, TypedWorker, TypedReplace, TypedHistory
-----------------------------------------------------------------------------
(* Where the threads are.  An update is for a run with a whole record, and one  *)
(* at a time; runs come in the order of their numbers.                          *)
PlacedThreads ==
  /\ \A w \in Worker : pc[w] \notin {"idle", "work", "notify"} => expected[w] \in Run
  /\ \A w \in Worker : pc[w] \in Writing => record[expected[w]] \in Recorded
  /\ \A v, w \in Worker : pc[v] \in Writing /\ pc[w] \in Writing => v = w

PlacedRuns == Current \in 0..MaxRuns /\ Created = 1..Current

LEMMA PlacedFrame ==
  ASSUME Placed, UNCHANGED record
  PROVE  PlacedRuns'
BY RecordFrame DEF Placed, PlacedRuns

(* A new file, whole or not, is that of the next run.                           *)
LEMMA PlacedCreate ==
  ASSUME Typed, Placed, NEW rec \in Recorded \cup {Partial}, Current < MaxRuns,
         record' = [record EXCEPT ![Current + 1] = rec], UNCHANGED threads
  PROVE  /\ Placed' /\ Current' = Current + 1
         /\ \A r \in Created : record'[r] = record[r]
         /\ record'[Current + 1] = rec
<1>1. Current \in 0..MaxRuns /\ Current + 1 \in Run /\ Created = 1..Current
  BY LifecycleAssumption DEF Placed, Run
<1>2. record'[Current + 1] = rec /\ \A r \in Run \ {Current + 1} : record'[r] = record[r]
  BY <1>1 DEF Typed
<1>3. rec # Absent
  <2>1. \A x \in Recorded : x # Absent
    BY DEF Recorded, Absent, State, Active, Settled, Authority
  <2> QED BY <2>1 DEF Partial, Absent
<1>4. Created' = Created \cup {Current + 1}
  BY <1>1, <1>2, <1>3 DEF Created
<1>5. Created' = 1..(Current + 1)
  BY <1>1, <1>4
<1>6. Current' = Current + 1
  <2>1. (\A n \in Nat : Created = 1..n => Current = n)'
    BY CurrentIs, PTL
  <2> QED BY <1>1, <1>5, <2>1
<1>7. PlacedThreads'
  <2>1. \A w \in Worker : pc[w] \in Writing =>
          expected[w] \in Run \ {Current + 1} /\ record[expected[w]] \in Recorded
    <3>1. \A x \in Recorded : x # Absent
      BY DEF Recorded, Absent, State, Active, Settled, Authority
    <3>2. Current + 1 \notin 1..Current
      BY <1>1
    <3>3. record[Current + 1] = Absent
      BY <1>1, <3>2 DEF Created
    <3> QED BY <3>1, <3>3, Writer
  <2>2. \A w \in Worker : pc[w] \in Writing => record'[expected[w]] \in Recorded
    BY <1>2, <2>1
  <2> QED BY <2>2 DEF Placed, PlacedThreads, threads
<1>8. \A r \in Created : r \in Run /\ r # Current + 1
  BY <1>1 DEF Created
<1>9. Current' \in 0..MaxRuns /\ Created' = 1..Current'
  BY <1>1, <1>5, <1>6, LifecycleAssumption
<1>10. Placed'
  BY <1>7, <1>9 DEF Placed, PlacedThreads
<1> QED BY <1>2, <1>6, <1>8, <1>10

(* A step of one thread that does not enter an update.                          *)
LEMMA PlacedMove ==
  ASSUME Typed, Placed, UNCHANGED record, NEW w \in Worker,
         \A v \in Worker \ {w} : pc'[v] = pc[v] /\ expected'[v] = expected[v],
         pc'[w] \in Writing => pc[w] \in Writing,
         \/ pc'[w] \in {"idle", "work", "notify"}
         \/ pc[w] \notin {"idle", "work", "notify"} /\ expected'[w] = expected[w]
         \/ expected'[w] \in Run /\ pc'[w] \notin Writing
  PROVE  Placed'
<1>1. PlacedRuns'
  BY PlacedFrame
<1>2. PlacedThreads'
  BY DEF Placed, PlacedThreads, Writing
<1> QED BY <1>1, <1>2 DEF Placed, PlacedThreads, PlacedRuns

(* A step from one place of an update to the next.                              *)
LEMMA PlacedWrite ==
  ASSUME Typed, Placed, UNCHANGED record, NEW w \in Worker, pc[w] \in Writing,
         UNCHANGED expected, \A v \in Worker \ {w} : pc'[v] = pc[v]
  PROVE  Placed'
<1>1. PlacedRuns'
  BY PlacedFrame
<1>2. PlacedThreads'
  BY DEF Placed, PlacedThreads, Writing
<1> QED BY <1>1, <1>2 DEF Placed, PlacedThreads, PlacedRuns

LEMMA PlacedEnds ==
  ASSUME Typed, Placed, UNCHANGED record, NEW w \in Worker, NEW outcome \in Outcomes,
         Ends(w, outcome)
  PROVE  Placed'
BY PlacedMove, Ending DEF Writing

LEMMA PlacedWorker ==
  ASSUME Typed, Placed, NEW w \in Worker,
         \/ DayTask(w) \/ DayReturns(w) \/ Notify(w) \/ Settle(w) \/ BindEvidence(w)
         \/ Telemetry(w) \/ Project(w) \/ Advance(w) \/ WriteHistory(w)
         \/ WriteTemporary(w) \/ ReplaceRaises(w) \/ TelemetryTorn(w)
  PROVE  Placed'
<1>a. UNCHANGED record
  BY DEF DayTask, DayReturns, Notify, Settle, BindEvidence, Telemetry, Project, Advance,
         WriteHistory, WriteTemporary, ReplaceRaises, TelemetryTorn, store
<1>b. ASSUME NEW outcome, outcome \in Outcomes, Ends(w, outcome) PROVE Placed'
  BY <1>a, <1>b, PlacedEnds
<1>c. ASSUME NEW next \in Places, Goes(w, next),
             next \in Writing => pc[w] \in Writing,
             \/ pc[w] \notin {"idle", "work", "notify"}
             \/ expected[w] \in Run /\ next \notin Writing
      PROVE  Placed'
  <2>1. /\ pc'[w] = next /\ expected' = expected
        /\ \A v \in Worker \ {w} : pc'[v] = pc[v]
    BY <1>c, Going
  <2> QED BY <1>a, <1>c, <2>1, PlacedMove
<1>d. \A p \in {"settle", "bind", "project", "telemetry", "advance", "history", "temporary",
                "replace", "idle", "notify"} : p \in Places
  BY DEF Places, Writing
<1>e. pc \in [Worker -> Places]
  BY DEF Typed
<1>1. CASE DayTask(w) \/ DayReturns(w)
  <2>1. /\ pc'[w] \in {"work", "notify"} /\ expected' = expected
        /\ \A v \in Worker \ {w} : pc'[v] = pc[v]
    BY <1>1, <1>e DEF DayTask, DayReturns, threads
  <2> QED BY <1>a, <2>1, PlacedMove DEF Writing
<1>2. CASE Notify(w)
  <2>1. audit \in Outcomes /\ {"DAY_SNAPSHOT_RUN_ID_MISMATCH", "DAY_WORKER_NOT_SETTLED"} \subseteq Outcomes
    BY DEF Outcomes, Typed
  <2>2. expected[w] # None => expected[w] \in Run
    BY DEF Typed
  <2> QED BY <1>2, <1>b, <1>c, <1>d, <2>1, <2>2 DEF Notify, Writing
<1>3. CASE Settle(w)
  <2>1. {"FAILED", "ALREADY_PROJECTED", "REPLAY_CONFLICT"} \subseteq Outcomes
    BY DEF Outcomes
  <2> QED BY <1>3, <1>b, <1>c, <1>d, <2>1 DEF Settle, Writing
<1>4. CASE BindEvidence(w)
  <2>1. {"FAILED", "RUN_NOT_CURRENT", "DAY_SNAPSHOT_RUN_ID_MISMATCH", "EVIDENCE"} \subseteq Outcomes
    BY DEF Outcomes
  <2> QED BY <1>4, <1>b, <1>c, <1>d, <2>1 DEF BindEvidence, Writing
<1>5. CASE Telemetry(w)
  <2>1. {"FAILED", "TELEMETRY"} \subseteq Outcomes
    BY DEF Outcomes
  <2> QED BY <1>5, <1>b, <1>c, <1>d, <2>1 DEF Telemetry, Writing
<1>6. CASE Project(w)
  <2>1. {"FAILED", "RUN_NOT_CURRENT", "DAY_SNAPSHOT_RUN_ID_MISMATCH",
         "VALIDATOR_EVIDENCE_INCOMPLETE"} \subseteq Outcomes
    BY DEF Outcomes
  <2>2. ASSUME Goes(w, "advance") PROVE Placed'
    <3>1. /\ pc'[w] = "advance" /\ expected' = expected
          /\ \A v \in Worker \ {w} : pc'[v] = pc[v]
      BY <2>2, <1>d, Going
    <3>2. pc[w] = "project" /\ Unlocked(w) /\ ~Unreadable /\ IsCurrent(expected[w])
      <4>1. ~Ends(w, "FAILED") /\ ~Ends(w, "RUN_NOT_CURRENT")
        BY <3>1, <1>e DEF Ends
      <4> QED BY <1>6, <4>1 DEF Project
    <3>3. expected[w] \in Run /\ Current = expected[w]
      BY <3>2 DEF Placed, IsCurrent
    <3>4. record[expected[w]] \in Recorded
      <4>1. expected[w] \in Created
        BY <3>3 DEF Placed, Run
      <4> QED BY <3>2, <3>3, <4>1, RecordForm DEF Created, Unreadable
    <3>5. PlacedThreads'
      <4>1. \A v \in Worker \ {w} : pc'[v] \notin Writing
        BY <3>1, <3>2 DEF Unlocked
      <4>2. \A v \in Worker : pc'[v] \in Writing => v = w
        BY <4>1
      <4>3. \A v \in Worker : pc'[v] \notin {"idle", "work", "notify"} => expected'[v] \in Run
        BY <3>1, <3>3 DEF Placed
      <4>4. \A v \in Worker : pc'[v] \in Writing => record'[expected'[v]] \in Recorded
        BY <4>2, <3>1, <3>4, <1>a
      <4> QED BY <4>2, <4>3, <4>4 DEF PlacedThreads
    <3> QED BY <1>a, <3>5, PlacedFrame DEF Placed, PlacedThreads, PlacedRuns
  <2> QED BY <1>6, <1>b, <2>1, <2>2 DEF Project
<1>7. CASE Advance(w)
  <2>1. /\ pc[w] = "advance" /\ pc'[w] = "history" /\ expected' = expected
        /\ \A v \in Worker \ {w} : pc'[v] = pc[v]
    BY <1>7, <1>e DEF Advance
  <2>2. pc[w] \in Writing
    BY <2>1 DEF Writing
  <2> QED BY <1>a, <2>1, <2>2, PlacedWrite
<1>8. CASE WriteHistory(w) \/ WriteTemporary(w)
  <2>1. "FAILED" \in Outcomes
    BY DEF Outcomes
  <2>2. pc[w] \in Writing
    BY <1>8 DEF WriteHistory, WriteTemporary, Writing
  <2>3. Ends(w, "FAILED") \/ Goes(w, "temporary") \/ Goes(w, "replace")
    BY <1>8 DEF WriteHistory, WriteTemporary
  <2>4. "temporary" \in Places /\ "replace" \in Places
    BY <1>d
  <2>5. ASSUME NEW next \in Places, Goes(w, next) PROVE Placed'
    BY <1>a, <2>2, <2>5, Going, PlacedWrite
  <2>6. Ends(w, "FAILED") => Placed'
    BY <1>b, <2>1
  <2> QED BY <2>3, <2>4, <2>5, <2>6
<1>9. CASE ReplaceRaises(w) \/ TelemetryTorn(w)
  <2>1. "FAILED" \in Outcomes
    BY DEF Outcomes
  <2> QED BY <1>9, <1>b, <2>1 DEF ReplaceRaises, TelemetryTorn
<1> QED BY <1>1, <1>2, <1>3, <1>4, <1>5, <1>6, <1>7, <1>8, <1>9

LEMMA PlacedReplace ==
  ASSUME Typed, Placed, NEW w \in Worker, ReplaceRecord(w)
  PROVE  /\ Placed' /\ Current' = Current /\ Created' = Created
         /\ \A r \in Run : record'[r] = IF r = expected[w] THEN Replaced(record[r], target[w])
                                                            ELSE record[r]
         /\ Replaced(record[expected[w]], target[w]) \in Recorded
<1>1. expected[w] \in Run /\ record[expected[w]] \in Recorded /\ target[w] \in State
  BY Writer DEF ReplaceRecord, Writing
<1>2. Replaced(record[expected[w]], target[w]) \in Recorded \ {Absent, Partial}
  BY <1>1, Replacing
<1>3. \A r \in Run : record'[r] = IF r = expected[w] THEN Replaced(record[r], target[w])
                                                      ELSE record[r]
  BY <1>1 DEF ReplaceRecord, Typed
<1>4. record[expected[w]] # Absent
  BY <1>1, RecordForm
<1>5. Created' = Created
  BY <1>2, <1>3, <1>4 DEF Created
<1>6. Current' = Current
  <2>1. (\A n \in Nat : Created = 1..n => Current = n)'
    BY CurrentIs, PTL
  <2>2. Current \in Nat /\ Created = 1..Current
    BY LifecycleAssumption DEF Placed
  <2> QED BY <1>5, <2>1, <2>2
<1>7. /\ pc'[w] = "idle" /\ pc[w] = "replace"
      /\ \A v \in Worker \ {w} : pc'[v] = pc[v] /\ expected'[v] = expected[v]
  <2>1. "PROJECTED" \in Outcomes
    BY DEF Outcomes
  <2> QED BY <2>1, Ending DEF ReplaceRecord
<1>8. PlacedThreads'
  <2>1. pc[w] \in Writing
    BY <1>7 DEF Writing
  <2>2. \A v \in Worker : pc'[v] \notin Writing
    BY <1>7, <2>1 DEF Placed, Writing
  <2> QED BY <1>7, <2>2 DEF Placed, PlacedThreads
<1> QED BY <1>2, <1>3, <1>5, <1>6, <1>8 DEF Placed, PlacedThreads

LEMMA PlacedStep ==
  ASSUME Typed, Placed, [Next]_vars
  PROVE  Placed'
<1>1. ASSUME NEW d \in Day, NEW admitted \in BOOLEAN, GoCreate(d, admitted) PROVE Placed'
  <2> DEFINE rec == [day |-> d, state |-> IF admitted THEN "PREFLIGHT" ELSE "HUMAN_ACTION_REQUIRED",
                     hist |-> << >>]
  <2>1. rec \in Recorded
    BY DEF Recorded, State, Active, Settled, Authority
  <2>2. /\ Current < MaxRuns /\ record' = [record EXCEPT ![Current + 1] = rec]
        /\ UNCHANGED threads
    BY <1>1 DEF GoCreate
  <2> HIDE DEF rec
  <2> QED BY <2>1, <2>2, PlacedCreate
<1>2. CASE GoCreateTorn
  BY <1>2, PlacedCreate DEF GoCreateTorn
<1>3. CASE GoStart \/ Resume
  <2>1. UNCHANGED record
    BY <1>3 DEF GoStart, Resume, store
  <2>2. CASE UNCHANGED threads
    BY <2>1, <2>2, PlacedFrame DEF threads, Placed, PlacedRuns
  <2>3. ASSUME NEW r \in Run \cup {None}, Launch(r) PROVE Placed'
    <3>1. PICK w \in Worker :
            /\ pc[w] = "idle" /\ pc' = [pc EXCEPT ![w] = "work"]
            /\ expected' = [expected EXCEPT ![w] = r]
      BY <2>3, Launching
    <3>2. /\ pc'[w] = "work"
          /\ \A v \in Worker \ {w} : pc'[v] = pc[v] /\ expected'[v] = expected[v]
      BY <3>1 DEF Typed
    <3> QED BY <2>1, <3>2, PlacedMove DEF Writing
  <2>4. going \in Run \cup {None} /\ snap.run \in Run \cup {None}
    BY DEF Typed
  <2> QED BY <1>3, <2>2, <2>3, <2>4 DEF GoStart, Resume
<1>4. ASSUME NEW d \in Day, SelectDay(d) PROVE Placed'
  BY <1>4, PlacedFrame DEF SelectDay, store, threads, Placed, PlacedRuns
<1>5. CASE Crash
  <2>1. PlacedThreads'
    BY <1>5 DEF Crash, PlacedThreads, Writing
  <2> QED BY <1>5, <2>1, PlacedFrame DEF Crash, store, Placed, PlacedThreads, PlacedRuns
<1>6. CASE UNCHANGED vars
  BY <1>6, PlacedFrame DEF vars, store, threads, Placed, PlacedRuns
<1> QED BY <1>1, <1>2, <1>3, <1>4, <1>5, <1>6, Steps, PlacedWorker, PlacedReplace

LEMMA TypedInvariant == Spec => [](Typed /\ Placed)
<1>1. Init => Typed
  <2> SUFFICES ASSUME Init PROVE Typed
    OBVIOUS
  <2>1. record \in [Run -> Recorded \cup {Absent, Partial}] /\ history \in [Run -> SUBSET (Nat \X State)]
    BY DEF Init
  <2>2. \A r \in Run : history[r] \subseteq (0..Version(r)) \X State
    BY DEF Init
  <2>3. snap \in [run : Run \cup {None}, day : Day \cup {None}, state : State, bound : BOOLEAN]
    <3>1. snap = [run |-> None, day |-> None, state |-> "IDLE", bound |-> FALSE]
      BY DEF Init, EmptySnapshot
    <3>2. "IDLE" \in State
      BY DEF State
    <3> QED BY <3>1, <3>2
  <2>4. "IDLE" \in State /\ "idle" \in Places /\ "NONE" \in Outcomes
    BY DEF State, Places, Outcomes
  <2>5. telemetry \in [Run -> 0..Torn] /\ tasks \in [Run -> 0..MaxTasks]
    BY LifecycleAssumption DEF Init, Torn, None
  <2>6. /\ pc \in [Worker -> Places] /\ target \in [Worker -> State]
        /\ expected \in [Worker -> Run \cup {None}]
    BY <2>4 DEF Init
  <2>7. /\ temporary \subseteq Run /\ going \in Run \cup {None} /\ overlapped \in BOOLEAN
        /\ audit \in Outcomes /\ resumes \in 0..MaxResume /\ crashes \in 0..MaxCrash
    <3>1. resumes \in 0..MaxResume /\ crashes \in 0..MaxCrash
      BY LifecycleAssumption DEF Init
    <3>2. overlapped \in BOOLEAN
      BY Zenon DEF Init
    <3> QED BY <2>4, <3>1, <3>2 DEF Init
  <2>8. Rest
    BY <2>3, <2>5, <2>6, <2>7 DEF Rest
  <2> QED BY <2>1, <2>2, <2>8 DEF Typed, Rest
<1>2. Init => Placed
  <2> SUFFICES ASSUME Init PROVE Placed
    OBVIOUS
  <2>1. Created = {} /\ Current = 0
    BY DEF Init, Created, Current, None
  <2> QED BY <2>1, LifecycleAssumption DEF Init, Placed, Writing
<1>3. Typed /\ Placed /\ [Next]_vars => Typed' /\ Placed'
  BY TypedStep, PlacedStep
<1> QED BY <1>1, <1>2, <1>3, PTL DEF Spec

(* Every variable stays in its type: a run's file is missing, unfinished or a   *)
(* whole record, and no version file is of a version its record has not had.    *)
THEOREM LifecycleTypes == Spec => []TypeOK
<1>1. Typed => TypeOK
  <2> SUFFICES ASSUME Typed PROVE TypeOK
    OBVIOUS
  <2>1. ASSUME NEW r \in Run
        PROVE  /\ record[r].state \in State \cup {"ABSENT", "PARTIAL"}
               /\ record[r].day \in Day \cup {None}
               /\ record[r].hist \in Seq(State)
    <3>1. << >> \in Seq(State) /\ Absent.day = None /\ Partial.day = None
      BY DEF Absent, Partial
    <3>2. \A rec \in Recorded : rec.day \in Day \cup {None}
      BY DEF Recorded
    <3>3. record[r] \in Recorded \/ record[r] = Absent \/ record[r] = Partial
      BY RecordForm
    <3> QED BY <3>1, <3>2, <3>3, RecordForm
  <2> QED BY <2>1 DEF TypeOK, Typed, Places
<1> QED BY <1>1, TypedInvariant, PTL
-----------------------------------------------------------------------------
(* The version files.  A step that leaves the run and version files alone keeps *)
(* them in order, as long as no thread comes past its version file.             *)
LEMMA KeptFrame ==
  ASSUME Kept, UNCHANGED <<record, history>>,
         \A w \in Worker : pc'[w] \in {"temporary", "replace"} =>
           pc[w] \in {"temporary", "replace"} /\ expected'[w] = expected[w]
  PROVE  Kept'
<1>1. \A r : Version(r)' = Version(r)
  BY RecordFrame
<1>4. (\A w \in Worker : pc[w] \in {"temporary", "replace"} =>
         <<Version(expected[w]), record[expected[w]].state>> \in history[expected[w]])'
  <2> SUFFICES ASSUME NEW w \in Worker, pc'[w] \in {"temporary", "replace"}
               PROVE  (<<Version(expected[w]), record[expected[w]].state>> \in history[expected[w]])'
    OBVIOUS
  <2>1. PICK r : r = expected[w]
    OBVIOUS
  <2>2. <<Version(r), record[r].state>> \in history[r] /\ expected'[w] = r
    BY <2>1 DEF Kept
  <2> QED BY <1>1, <2>2
<1>5. (\A r \in Run, s \in State : <<Version(r), s>> \in history[r] => s = record[r].state)'
  BY <1>1 DEF Kept
<1> QED BY <1>4, <1>5 DEF Kept

LEMMA NoVersions ==
  ASSUME Typed, Placed, Kept, NEW r \in Run, record[r] \notin Recorded
  PROVE  history[r] = {} /\ Version(r) = 0 /\ \A w \in Worker : pc[w] \in Writing => expected[w] # r
<1>1. record[r].state \notin State /\ Version(r) = 0
  BY RecordForm DEF State, Active, Settled, Authority, Version
<1>2. \A s \in State : <<0, s>> \notin history[r]
  BY <1>1 DEF Kept
<1>3. \A e \in history[r] : \E s \in State : e = <<0, s>>
  <2>1. history[r] \subseteq (0..0) \X State
    BY <1>1 DEF Typed
  <2> QED BY <2>1
<1> QED BY <1>1, <1>2, <1>3, Writer

LEMMA KeptCreate ==
  ASSUME Typed, Placed, Kept, NEW rec \in Recorded \cup {Partial}, rec.hist = << >>,
         Current < MaxRuns, record' = [record EXCEPT ![Current + 1] = rec],
         UNCHANGED <<history, threads>>
  PROVE  Kept'
<1>1. PICK n \in Run : n = Current + 1
  BY LifecycleAssumption DEF Placed, Run
<1>2. record[n] = Absent
  <2>1. n \notin Created
    BY <1>1, LifecycleAssumption DEF Placed
  <2> QED BY <2>1 DEF Created
<1>3. history[n] = {} /\ \A w \in Worker : pc[w] \in Writing => expected[w] # n
  BY <1>2, NoVersions, RecordForm
<1>4. record'[n] = rec /\ \A r \in Run \ {n} : record'[r] = record[r]
  BY <1>1 DEF Typed
<1>5. \A r \in Run \ {n} : Version(r)' = Version(r)
  BY <1>4 DEF Version
<1>6. (\A r \in Run, i \in Nat :
         i \in 1..Len(record[r].hist) => <<i - 1, record[r].hist[i]>> \in history[r])'
  <2> SUFFICES ASSUME NEW r \in Run, NEW i \in Nat, i \in 1..Len(record'[r].hist)
               PROVE  <<i - 1, record'[r].hist[i]>> \in history[r]
    OBVIOUS
  <2>1. r # n
    <3>1. Len(<< >>) = 0
      OBVIOUS
    <3> QED BY <3>1, <1>4
  <2> QED BY <2>1, <1>4 DEF Kept
<1>7. (\A r \in Run, s \in State : <<Version(r), s>> \in history[r] => s = record[r].state)'
  <2> SUFFICES ASSUME NEW r \in Run, NEW s \in State, <<Version(r)', s>> \in history[r]
               PROVE  s = record'[r].state
    OBVIOUS
  <2>1. r # n
    BY <1>3
  <2> QED BY <2>1, <1>4, <1>5 DEF Kept
<1>8. (\A w \in Worker : pc[w] \in {"temporary", "replace"} =>
         <<Version(expected[w]), record[expected[w]].state>> \in history[expected[w]])'
  <2> SUFFICES ASSUME NEW w \in Worker, pc[w] \in {"temporary", "replace"}
               PROVE  <<Version(expected[w])', record'[expected[w]].state>> \in history[expected[w]]
    BY DEF threads
  <2>1. expected[w] \in Run \ {n}
    BY <1>3, Writer DEF Writing
  <2>2. <<Version(expected[w]), record[expected[w]].state>> \in history[expected[w]]
    BY DEF Kept
  <2>3. expected' = expected
    BY DEF threads
  <2> QED BY <2>1, <2>2, <2>3, <1>4, <1>5
<1> QED BY <1>6, <1>7, <1>8 DEF Kept

LEMMA KeptHistory ==
  ASSUME Typed, Placed, Kept, NEW w \in Worker, WriteHistory(w)
  PROVE  Kept'
<1>1. PICK r \in Run : r = expected[w] /\ record[r] \in Recorded /\ record[r].state \in State
                       /\ Version(r) \in Nat
  BY Writer DEF WriteHistory, Writing
<1>2. UNCHANGED record /\ \A q : Version(q)' = Version(q)
  BY RecordFrame DEF WriteHistory
<1>a. pc \in [Worker -> Places]
  BY DEF Typed
<1>3. CASE Ends(w, "FAILED") /\ UNCHANGED history
  <2>1. \A v \in Worker : pc'[v] \in {"temporary", "replace"} => v # w /\ pc'[v] = pc[v]
    BY <1>3, <1>a DEF Ends
  <2>2. \A v \in Worker \ {w} : expected'[v] = expected[v]
    BY <1>3, Ending DEF Outcomes
  <2> QED BY <1>2, <1>3, <2>1, <2>2, KeptFrame
<1>4. CASE /\ ~\E s \in State : <<Version(r), s>> \in history[r]
           /\ history' = [history EXCEPT ![r] = @ \cup {<<Version(r), record[r].state>>}]
           /\ Goes(w, "temporary")
  <2>1. /\ history'[r] = history[r] \cup {<<Version(r), record[r].state>>}
        /\ \A q \in Run \ {r} : history'[q] = history[q]
    BY <1>4 DEF Typed
  <2>2. \A q \in Run : history[q] \subseteq history'[q]
    BY <2>1
  <2>3. (\A q \in Run, i \in Nat :
           i \in 1..Len(record[q].hist) => <<i - 1, record[q].hist[i]>> \in history[q])'
    BY <1>2, <2>2 DEF Kept
  <2>4. (\A q \in Run, v \in Nat, s, t \in State :
           <<v, s>> \in history[q] /\ <<v, t>> \in history[q] => s = t)'
    BY <1>4, <2>1 DEF Kept
  <2>5. (\A q \in Run, s \in State : <<Version(q), s>> \in history[q] => s = record[q].state)'
    BY <1>2, <1>4, <2>1 DEF Kept
  <2>6. expected' = expected /\ pc[w] \in Writing
        /\ \A v \in Worker : pc'[v] \in {"temporary", "replace"} => v = w
    <3>1. pc[w] \in Writing
      BY DEF WriteHistory, Writing
    <3>2. \A v \in Worker \ {w} : pc[v] \notin {"temporary", "replace"}
      BY <3>1 DEF Placed, Writing
    <3> QED BY <1>4, <1>a, <3>1, <3>2 DEF Goes
  <2>7. (\A v \in Worker : pc[v] \in {"temporary", "replace"} =>
           <<Version(expected[v]), record[expected[v]].state>> \in history[expected[v]])'
    <3> SUFFICES ASSUME NEW v \in Worker, pc'[v] \in {"temporary", "replace"}
                 PROVE  <<Version(r)', record'[r].state>> \in history'[r]
      BY <1>1, <2>6
    <3> QED BY <1>2, <2>1
  <2> QED BY <2>3, <2>4, <2>5, <2>7 DEF Kept
<1> QED BY <1>1, <1>3, <1>4 DEF WriteHistory

LEMMA KeptReplace ==
  ASSUME Typed, Placed, Kept, NEW w \in Worker, ReplaceRecord(w)
  PROVE  Kept'
<1>1. PICK r \in Run : r = expected[w] /\ record[r] \in Recorded /\ target[w] \in State
  BY Writer DEF ReplaceRecord, Writing
<1>2. Replaced(record[r], target[w]).hist = Append(record[r].hist, record[r].state)
  BY <1>1, Replacing
<1>3. /\ record'[r].hist = Append(record[r].hist, record[r].state)
      /\ \A q \in Run \ {r} : record'[q] = record[q]
  BY <1>1, <1>2, PlacedReplace
<1>4. /\ record[r].hist \in Seq(State) /\ record[r].state \in State
      /\ Version(r) \in Nat /\ Len(record[r].hist) = Version(r)
  BY <1>1, RecordForm DEF Version
<1>5. /\ Version(r)' = Version(r) + 1 /\ \A q \in Run \ {r} : Version(q)' = Version(q)
  <2>1. Len(record'[r].hist) = Len(record[r].hist) + 1
    BY <1>3, <1>4, AppendProperties
  <2> QED BY <1>3, <1>4, <2>1 DEF Version
<1>6. history' = history /\ <<Version(r), record[r].state>> \in history[r]
  BY <1>1 DEF ReplaceRecord, Kept
<1>7. (\A q \in Run, i \in Nat :
         i \in 1..Len(record[q].hist) => <<i - 1, record[q].hist[i]>> \in history[q])'
  <2> SUFFICES ASSUME NEW q \in Run, NEW i \in Nat, i \in 1..Len(record'[q].hist)
               PROVE  <<i - 1, record'[q].hist[i]>> \in history[q]
    BY <1>6
  <2>1. CASE q # r
    BY <2>1, <1>3 DEF Kept
  <2>2. CASE q = r /\ i = Version(r) + 1
    <3>1. record'[r].hist[i] = record[r].state
      BY <1>3, <1>4, <2>2, AppendProperties
    <3> QED BY <2>2, <3>1, <1>4, <1>6
  <2>3. CASE q = r /\ i # Version(r) + 1
    <3>1. i \in 1..Len(record[r].hist)
      BY <2>3, <1>3, <1>4, AppendProperties
    <3>2. record'[r].hist[i] = record[r].hist[i]
      BY <1>3, <1>4, <3>1, AppendProperties
    <3> QED BY <2>3, <3>1, <3>2 DEF Kept
  <2> QED BY <2>1, <2>2, <2>3
<1>8. (\A q \in Run, s \in State : <<Version(q), s>> \in history[q] => s = record[q].state)'
  <2> SUFFICES ASSUME NEW q \in Run, NEW s \in State, <<Version(q)', s>> \in history[q]
               PROVE  s = record'[q].state
    BY <1>6
  <2>1. q # r
    <3>1. <<Version(r) + 1, s>> \notin history[r]
      BY <1>4 DEF Typed
    <3> QED BY <3>1, <1>5
  <2> QED BY <2>1, <1>3, <1>5 DEF Kept
<1>9. \A v \in Worker : pc'[v] \notin {"temporary", "replace"}
  <2>1. pc[w] \in Writing /\ pc'[w] = "idle" /\ \A v \in Worker \ {w} : pc'[v] = pc[v]
    BY Ending DEF ReplaceRecord, Writing, Outcomes
  <2> QED BY <2>1 DEF Placed, Writing
<1>10. (\A q \in Run, v \in Nat, s, t \in State :
          <<v, s>> \in history[q] /\ <<v, t>> \in history[q] => s = t)'
  BY <1>6 DEF Kept
<1> QED BY <1>7, <1>8, <1>9, <1>10 DEF Kept

LEMMA KeptStep ==
  ASSUME Typed, Placed, Kept, [Next]_vars
  PROVE  Kept'
<1>a. pc \in [Worker -> Places]
  BY DEF Typed
<1>1. ASSUME NEW d \in Day, NEW admitted \in BOOLEAN, GoCreate(d, admitted) PROVE Kept'
  <2> DEFINE rec == [day |-> d, state |-> IF admitted THEN "PREFLIGHT" ELSE "HUMAN_ACTION_REQUIRED",
                     hist |-> << >>]
  <2>1. rec \in Recorded /\ rec.hist = << >>
    BY DEF Recorded, State, Active, Settled, Authority
  <2>2. /\ Current < MaxRuns /\ record' = [record EXCEPT ![Current + 1] = rec]
        /\ UNCHANGED <<history, threads>>
    BY <1>1 DEF GoCreate
  <2> HIDE DEF rec
  <2> QED BY <2>1, <2>2, KeptCreate
<1>2. CASE GoCreateTorn
  <2>1. Partial.hist = << >>
    BY DEF Partial
  <2> QED BY <1>2, <2>1, KeptCreate DEF GoCreateTorn
<1>3. ASSUME NEW w \in Worker, NEW p, p \notin {"temporary", "replace"},
             UNCHANGED <<record, history>>, pc' = [pc EXCEPT ![w] = p],
             \A v \in Worker \ {w} : expected'[v] = expected[v]
      PROVE  Kept'
  <2>1. \A v \in Worker : pc'[v] \in {"temporary", "replace"} => v # w /\ pc'[v] = pc[v]
    BY <1>3, <1>a
  <2> QED BY <1>3, <2>1, KeptFrame
<1>4. CASE GoStart \/ Resume \/ (\E d \in Day : SelectDay(d)) \/ Crash \/ UNCHANGED vars
  <2>1. UNCHANGED <<record, history>>
    BY <1>4 DEF GoStart, Resume, SelectDay, Crash, vars, store
  <2>2. CASE UNCHANGED threads
    BY <2>1, <2>2, KeptFrame DEF threads
  <2>3. ASSUME NEW r \in Run \cup {None}, Launch(r) PROVE Kept'
    <3>1. PICK w \in Worker : /\ pc' = [pc EXCEPT ![w] = "work"]
                              /\ expected' = [expected EXCEPT ![w] = r]
      BY <2>3 DEF Launch
    <3>2. \A v \in Worker \ {w} : expected'[v] = expected[v]
      BY <3>1 DEF Typed
    <3> QED BY <2>1, <3>1, <3>2, <1>3
  <2>4. CASE Crash
    BY <2>1, <2>4, KeptFrame DEF Crash
  <2>5. going \in Run \cup {None} /\ snap.run \in Run \cup {None}
    BY DEF Typed
  <2> QED BY <1>4, <2>2, <2>3, <2>4, <2>5 DEF GoStart, Resume, SelectDay, vars
<1>5. ASSUME NEW w \in Worker,
             \/ DayTask(w) \/ DayReturns(w) \/ Notify(w) \/ Settle(w) \/ BindEvidence(w)
             \/ Telemetry(w) \/ Project(w) \/ Advance(w)
             \/ ReplaceRaises(w) \/ TelemetryTorn(w)
      PROVE  Kept'
  <2>1. UNCHANGED <<record, history>>
    BY <1>5 DEF DayTask, DayReturns, Notify, Settle, BindEvidence, Telemetry, Project, Advance,
                ReplaceRaises, TelemetryTorn, store
  <2>2. ASSUME NEW o, Ends(w, o) PROVE Kept'
    <3>1. \A v \in Worker \ {w} : expected'[v] = expected[v]
      BY <2>2 DEF Ends, Typed
    <3> QED BY <1>3, <2>1, <2>2, <3>1 DEF Ends
  <2>3. ASSUME NEW p, p \notin {"temporary", "replace"}, Goes(w, p) PROVE Kept'
    BY <1>3, <2>1, <2>3 DEF Goes
  <2>4. CASE DayTask(w) \/ DayReturns(w) \/ Advance(w)
    <3>1. CASE UNCHANGED threads
      BY <2>1, <3>1, KeptFrame DEF threads
    <3>2. CASE pc' = [pc EXCEPT ![w] = "notify"] /\ UNCHANGED expected
      BY <1>3, <2>1, <3>2
    <3>3. CASE pc' = [pc EXCEPT ![w] = "history"] /\ UNCHANGED expected
      BY <1>3, <2>1, <3>3
    <3> QED BY <2>4, <3>1, <3>2, <3>3 DEF DayTask, DayReturns, Advance
  <2>5. CASE Notify(w) \/ Settle(w)
    BY <2>2, <2>3, <2>5 DEF Notify, Settle
  <2>6. CASE BindEvidence(w) \/ Telemetry(w)
    BY <2>2, <2>3, <2>6 DEF BindEvidence, Telemetry
  <2>7. CASE Project(w) \/ ReplaceRaises(w) \/ TelemetryTorn(w)
    BY <2>2, <2>3, <2>7 DEF Project, ReplaceRaises, TelemetryTorn
  <2> QED BY <1>5, <2>4, <2>5, <2>6, <2>7
<1>6. ASSUME NEW w \in Worker, WriteTemporary(w) PROVE Kept'
  <2>1. UNCHANGED <<record, history>>
    BY <1>6 DEF WriteTemporary
  <2>2. CASE Ends(w, "FAILED")
    <3>1. \A v \in Worker \ {w} : expected'[v] = expected[v]
      BY <2>2 DEF Ends, Typed
    <3> QED BY <1>3, <2>1, <2>2, <3>1 DEF Ends
  <2>3. CASE Goes(w, "replace")
    <3>1. \A v \in Worker \ {w} : pc'[v] = pc[v]
      BY <2>3, <1>a DEF Goes
    <3> QED BY <1>6, <2>1, <2>3, <3>1, KeptFrame DEF WriteTemporary, Goes
  <2> QED BY <1>6, <2>2, <2>3 DEF WriteTemporary
<1> QED BY <1>1, <1>2, <1>4, <1>5, <1>6, Steps, KeptHistory, KeptReplace

LEMMA KeptInvariant == Spec => [](Typed /\ Placed /\ Kept)
<1>1. Init => Kept
  BY DEF Init, Kept, Absent
<1>2. Typed /\ Placed /\ Kept /\ [Next]_vars => Kept'
  BY KeptStep
<1> QED BY <1>1, <1>2, TypedInvariant, PTL DEF Spec
-----------------------------------------------------------------------------
(* What versions() reads back from the files is all the states a record has had. *)
LogOf(rec) == IF rec \in {Absent, Partial} THEN << >> ELSE Append(rec.hist, rec.state)

LEMMA ReadBack ==
  Typed /\ Kept => \A r \in Run : ReadVersions(r) = LogOf(record[r])
<1> SUFFICES ASSUME Typed, Kept, NEW r \in Run, record[r] \notin {Absent, Partial}
             PROVE  ReadVersions(r) = Append(record[r].hist, record[r].state)
  BY DEF ReadVersions, LogOf
<1> DEFINE h == record[r].hist
           n == Len(record[r].hist)
<1>1. h \in Seq(State) /\ record[r].state \in State /\ n \in Nat
  BY RecordForm, LenProperties
<1>2. ASSUME NEW i \in 1..(n + 1), i # n + 1 PROVE StoredState(r, i) = h[i]
  <2>1. i \in 1..n /\ i \in Nat /\ i - 1 \in Nat
    BY <1>1, <1>2
  <2>2. <<i - 1, h[i]>> \in history[r] /\ h[i] \in State
    BY <1>1, <2>1, ElementOfSeq DEF Kept
  <2>3. \A s \in State : <<i - 1, s>> \in history[r] => s = h[i]
    BY <2>1, <2>2 DEF Kept
  <2> HIDE DEF h
  <2>4. (CHOOSE s \in State : <<i - 1, s>> \in history[r]) = h[i]
    BY <2>2, <2>3
  <2> QED BY <1>2, <2>2, <2>4 DEF StoredState
<1>3. StoredState(r, n + 1) = record[r].state
  BY DEF StoredState
<1> DEFINE a == Append(h, record[r].state)
<1>4. /\ a \in Seq(State) /\ Len(a) = n + 1 /\ a[n + 1] = record[r].state
      /\ \A i \in 1..n : a[i] = h[i]
  BY <1>1, AppendProperties
<1>5. a = [i \in 1..(n + 1) |-> a[i]]
  <2> HIDE DEF a
  <2> QED BY <1>1, <1>4
<1>6. \A i \in 1..(n + 1) : a[i] = StoredState(r, i)
  <2> SUFFICES ASSUME NEW i \in 1..(n + 1) PROVE a[i] = StoredState(r, i)
    OBVIOUS
  <2>1. CASE i = n + 1
    BY <2>1, <1>3, <1>4
  <2>2. CASE i # n + 1
    BY <2>2, <1>1, <1>2, <1>4
  <2> QED BY <2>1, <2>2
<1>7. ReadVersions(r) = [i \in 1..(n + 1) |-> StoredState(r, i)]
  BY DEF ReadVersions
<1> HIDE DEF a
<1> QED BY <1>5, <1>6, <1>7 DEF a

(* The logs of the abstract specification, and what a step does to them.        *)
logs == [r \in Run |-> ReadVersions(r)]

LEMMA LogStep ==
  ASSUME Typed, Placed, Kept, Typed', Kept', [Next]_vars
  PROVE  [Log!Next]_logs
<1>1. \A r \in Run : logs[r] = LogOf(record[r])
  BY ReadBack DEF logs
<1>2. \A r \in Run : logs'[r] = LogOf(record'[r])
  <2>1. (Typed /\ Kept => \A r \in Run : ReadVersions(r) = LogOf(record[r]))'
    BY ReadBack, PTL
  <2>2. (\A r \in Run : ReadVersions(r) = LogOf(record[r]))'
    BY <2>1
  <2>3. \A r \in Run : ReadVersions(r)' = LogOf(record'[r])
    BY <2>2 DEF LogOf, Absent, Partial
  <2> QED BY <2>3 DEF logs
<1>3. DOMAIN logs = Run /\ DOMAIN logs' = Run
  BY DEF logs
<1>4. logs = [r \in Run |-> logs[r]] /\ logs' = [r \in Run |-> logs'[r]]
  BY DEF logs
<1>5. ASSUME UNCHANGED record PROVE UNCHANGED logs
  BY <1>1, <1>2, <1>4, <1>5
<1>6. ASSUME NEW n \in Run, record[n] = Absent, NEW rec \in Recorded, rec.hist = << >>,
             \A r \in Run : record'[r] = IF r = n THEN rec ELSE record[r]
      PROVE  Log!Create(n)
  <2>1. rec.state \in State /\ rec \notin {Absent, Partial}
    BY DEF Recorded, State, Active, Settled, Authority, Absent, Partial
  <2>2. logs'[n] = <<rec.state>> /\ logs[n] = << >>
    <3>1. Append(<< >>, rec.state) = <<rec.state>>
      OBVIOUS
    <3> QED BY <1>1, <1>2, <1>6, <2>1, <3>1 DEF LogOf
  <2>3. \A r \in Run \ {n} : logs'[r] = logs[r]
    BY <1>1, <1>2, <1>6
  <2>4. logs' = [logs EXCEPT ![n] = <<rec.state>>]
    <3> HIDE DEF logs
    <3> QED BY <1>3, <1>4, <2>2, <2>3
  <2> QED BY <2>1, <2>2, <2>4 DEF Log!Create, logs
<1>7. ASSUME NEW w \in Worker, ReplaceRecord(w) PROVE \E n \in Run : Log!Extend(n)
  <2>1. PICK n \in Run : n = expected[w] /\ record[n] \in Recorded /\ target[w] \in State
    BY <1>7, Writer DEF ReplaceRecord, Writing
  <2>2. \A r \in Run : record'[r] = IF r = n THEN Replaced(record[n], target[w]) ELSE record[r]
    BY <1>7, <2>1, PlacedReplace
  <2>3. /\ record[n] \notin {Absent, Partial}
        /\ Replaced(record[n], target[w]) \notin {Absent, Partial}
        /\ Replaced(record[n], target[w]).hist = Append(record[n].hist, record[n].state)
        /\ Replaced(record[n], target[w]).state = target[w]
    BY <2>1, RecordForm, Replacing
  <2>4. logs[n] = Append(record[n].hist, record[n].state)
    BY <1>1, <2>3 DEF LogOf
  <2>5. logs'[n] = Append(logs[n], target[w])
    BY <1>2, <2>2, <2>3, <2>4 DEF LogOf
  <2>6. logs[n] # << >>
    <3>1. record[n].hist \in Seq(State) /\ record[n].state \in State
      BY <2>1, RecordForm
    <3>2. Len(logs[n]) = Len(record[n].hist) + 1 /\ Len(record[n].hist) \in Nat
      BY <2>4, <3>1, AppendProperties, LenProperties
    <3> QED BY <3>2
  <2>7. \A r \in Run \ {n} : logs'[r] = logs[r]
    BY <1>1, <1>2, <2>2
  <2>8. logs' = [logs EXCEPT ![n] = Append(logs[n], target[w])]
    <3> HIDE DEF logs
    <3> QED BY <1>3, <1>4, <2>5, <2>7
  <2> QED BY <2>1, <2>6, <2>8 DEF Log!Extend, logs
<1>8. ASSUME NEW d \in Day, NEW admitted \in BOOLEAN, GoCreate(d, admitted)
      PROVE  \E n \in Run : Log!Create(n)
  <2> DEFINE rec == [day |-> d, state |-> IF admitted THEN "PREFLIGHT" ELSE "HUMAN_ACTION_REQUIRED",
                     hist |-> << >>]
  <2>1. rec \in Recorded /\ rec.hist = << >>
    BY DEF Recorded, State, Active, Settled, Authority
  <2>2. PICK n \in Run : n = Current + 1 /\ Current < MaxRuns
    BY <1>8, LifecycleAssumption DEF Placed, Run, GoCreate
  <2>3. record' = [record EXCEPT ![n] = rec]
    BY <1>8, <2>2 DEF GoCreate
  <2>4. record[n] = Absent
    <3>1. n \notin Created
      BY <2>2, LifecycleAssumption DEF Placed
    <3> QED BY <3>1 DEF Created
  <2> HIDE DEF rec
  <2>5. \A r \in Run : record'[r] = IF r = n THEN rec ELSE record[r]
    BY <2>3 DEF Typed
  <2> QED BY <1>6, <2>1, <2>4, <2>5
<1>9. ASSUME GoCreateTorn PROVE UNCHANGED logs
  <2>1. PICK n \in Run : n = Current + 1 /\ Current < MaxRuns
    BY <1>9, LifecycleAssumption DEF Placed, Run, GoCreateTorn
  <2>2. record[n] = Absent
    <3>1. n \notin Created
      BY <2>1, LifecycleAssumption DEF Placed
    <3> QED BY <3>1 DEF Created
  <2>3. record' = [record EXCEPT ![n] = Partial]
    BY <1>9, <2>1 DEF GoCreateTorn
  <2>4. \A r \in Run : LogOf(record'[r]) = LogOf(record[r])
    BY <2>2, <2>3 DEF LogOf, Typed
  <2> QED BY <1>1, <1>2, <1>4, <2>4
<1>10. \/ UNCHANGED record \/ GoCreateTorn \/ (\E w \in Worker : ReplaceRecord(w))
       \/ \E d \in Day, admitted \in BOOLEAN : GoCreate(d, admitted)
  BY Steps DEF GoStart, Resume, SelectDay, Crash, vars, store,
               DayTask, DayReturns, Notify, Settle, BindEvidence, Telemetry, Project, Advance,
               WriteHistory, WriteTemporary, ReplaceRaises, TelemetryTorn
<1> QED BY <1>5, <1>7, <1>8, <1>9, <1>10 DEF Log!Next

(* The record and the version files of a run are a log: its run is created once, *)
(* in a state admission chose, and every state it has had stays readable in its *)
(* order, whichever file of an update a crash or a failure comes before.        *)
THEOREM FilesAreALog == Spec => ImplementsRunLog
<1>1. Init => Log!Init
  <2> SUFFICES ASSUME Init PROVE Log!Init
    OBVIOUS
  <2>1. \A r \in Run : ReadVersions(r) = << >>
    BY DEF Init, ReadVersions
  <2> QED BY <2>1 DEF Log!Init
<1>2. Typed /\ Placed /\ Kept /\ Typed' /\ Kept' /\ [Next]_vars => [Log!Next]_logs
  BY LogStep
<1> QED BY <1>1, <1>2, KeptInvariant, PTL DEF Spec, ImplementsRunLog, Log!Spec, logs
-----------------------------------------------------------------------------
(* One settlement at a time.  A step of the one thread at work that writes no   *)
(* run file and no telemetry has only its own place to answer for.              *)
LEMMA LoneMove ==
  ASSUME Lone, NEW w \in Worker, pc[w] # "idle",
         \A v \in Worker \ {w} : pc'[v] = pc[v],
         UNCHANGED <<record, telemetry>>, Settling(w)'
  PROVE  Lone'
<1>1. \A v \in Worker \ {w} : pc'[v] = "idle"
  BY DEF Lone
<1>2. \A v \in Worker \ {w} : Settling(v)'
  BY <1>1 DEF Settling, Writing
<1>3. Created' = Created /\ Current' = Current /\ \A r : HasTelemetry(r)' = HasTelemetry(r)
  BY RecordFrame DEF HasTelemetry
<1> QED BY <1>1, <1>2, <1>3 DEF Lone

LEMMA LoneEnds ==
  ASSUME Typed, Lone, NEW w \in Worker, pc[w] # "idle", NEW o, Ends(w, o),
         UNCHANGED <<record, telemetry>>
  PROVE  Lone'
<1>1. pc'[w] = "idle" /\ \A v \in Worker \ {w} : pc'[v] = pc[v]
  BY DEF Typed, Ends
<1>2. Settling(w)'
  BY <1>1 DEF Settling, Writing
<1> QED BY <1>1, <1>2, LoneMove

LEMMA LoneIdle ==
  ASSUME Lone, \A w \in Worker : pc'[w] = "idle", UNCHANGED <<record, telemetry>>
  PROVE  Lone'
<1>1. \A v \in Worker : Settling(v)'
  BY DEF Settling, Writing
<1>2. Created' = Created /\ Current' = Current /\ \A r : HasTelemetry(r)' = HasTelemetry(r)
  BY RecordFrame DEF HasTelemetry
<1> QED BY <1>1, <1>2 DEF Lone

(* The thread go() or resume() starts finds no other one at work.               *)
LEMMA LoneLaunch ==
  ASSUME Typed, Lone, Idle, NEW r \in Run \cup {None}, Launch(r), snap'.state = "PREFLIGHT",
         UNCHANGED <<record, telemetry>>
  PROVE  Lone'
<1>1. PICK w \in Worker : pc' = [pc EXCEPT ![w] = "work"]
  BY DEF Launch
<1>2. pc'[w] = "work" /\ \A v \in Worker \ {w} : pc'[v] = "idle"
  BY <1>1 DEF Typed, Idle
<1>3. \A v \in Worker : Settling(v)'
  <2>1. Settling(w)'
    BY <1>2 DEF Settling, Writing, Active
  <2>2. \A v \in Worker \ {w} : Settling(v)'
    BY <1>2 DEF Settling, Writing
  <2> QED BY <2>1, <2>2
<1>4. Created' = Created /\ Current' = Current /\ \A q : HasTelemetry(q)' = HasTelemetry(q)
  BY RecordFrame DEF HasTelemetry
<1> QED BY <1>2, <1>3, <1>4 DEF Lone

(* Go leaves a terminal record behind, and no thread.                           *)
LEMMA LoneCreate ==
  ASSUME Typed, Placed, Lone, Idle, GoPermitted, NEW rec \in Recorded \cup {Partial},
         rec.state # "COMPLETE", Current < MaxRuns,
         record' = [record EXCEPT ![Current + 1] = rec], UNCHANGED <<threads, telemetry>>
  PROVE  Lone'
<1>1. /\ Placed' /\ Current' = Current + 1 /\ record'[Current + 1] = rec
      /\ \A r \in Created : record'[r] = record[r]
  BY PlacedCreate
<1>2. Current \in 0..MaxRuns /\ Created = 1..Current /\ Created' = 1..(Current + 1)
      /\ Current + 1 \in Run /\ MaxRuns \in Nat
  BY <1>1, LifecycleAssumption DEF Placed, Run
<1>3. \A r \in Run \ {Current + 1} : record'[r] = record[r]
  BY <1>2 DEF Typed
<1>4. \A w \in Worker : pc'[w] = "idle"
  BY DEF Idle, threads
<1>5. \A w \in Worker : Settling(w)'
  BY <1>4 DEF Settling, Writing
<1>6. (\A r \in Run : record[r].state = "COMPLETE" => HasTelemetry(r))'
  <2> SUFFICES ASSUME NEW r \in Run, record'[r].state = "COMPLETE" PROVE HasTelemetry(r)'
    OBVIOUS
  <2>1. r # Current + 1
    BY <1>1
  <2> QED BY <2>1, <1>3 DEF Lone, HasTelemetry
<1>7. (\A r \in Created : r # Current => record[r].state \in TERMINAL_STATES \cup {"PARTIAL"})'
  <2> SUFFICES ASSUME NEW r \in Created', r # Current + 1
               PROVE  record'[r].state \in TERMINAL_STATES \cup {"PARTIAL"}
    BY <1>1
  <2>1. r \in Created /\ record'[r] = record[r]
    BY <1>1, <1>2
  <2>2. CASE r = Current
    BY <2>1, <2>2, <1>2 DEF GoPermitted, None
  <2>3. CASE r # Current
    BY <2>1, <2>3 DEF Lone
  <2> QED BY <2>2, <2>3
<1> QED BY <1>4, <1>5, <1>6, <1>7 DEF Lone

LEMMA LoneReplace ==
  ASSUME Typed, Placed, Lone, NEW w \in Worker, ReplaceRecord(w)
  PROVE  Lone'
<1>1. PICK r \in Run : r = expected[w] /\ record[r] \in Recorded /\ target[w] \in State
  BY Writer DEF ReplaceRecord, Writing
<1>2. /\ pc[w] = "replace" /\ r = Current /\ target[w] = snap.state
      /\ snap.state = "COMPLETE" => HasTelemetry(r)
  BY <1>1 DEF ReplaceRecord, Lone, Settling, Writing
<1>3. /\ Current' = Current /\ Created' = Created
      /\ \A q \in Run \ {r} : record'[q] = record[q]
      /\ record'[r].state = target[w]
  BY <1>1, PlacedReplace, Replacing
<1>4. \A v \in Worker : pc'[v] = "idle"
  <2>1. pc'[w] = "idle" /\ \A v \in Worker \ {w} : pc'[v] = pc[v]
    BY DEF ReplaceRecord, Ends, Typed
  <2> QED BY <1>2, <2>1 DEF Lone
<1>5. \A v \in Worker : Settling(v)'
  BY <1>4 DEF Settling, Writing
<1>6. \A q : HasTelemetry(q)' = HasTelemetry(q)
  BY DEF ReplaceRecord, HasTelemetry
<1>7. (\A q \in Run : record[q].state = "COMPLETE" => HasTelemetry(q))'
  BY <1>2, <1>3, <1>6 DEF Lone
<1>8. (\A q \in Created : q # Current => record[q].state \in TERMINAL_STATES \cup {"PARTIAL"})'
  BY <1>2, <1>3 DEF Lone, Created
<1> QED BY <1>4, <1>5, <1>7, <1>8 DEF Lone

LEMMA LoneWorker ==
  ASSUME Typed, Placed, Lone, NEW w \in Worker,
         \/ DayTask(w) \/ DayReturns(w) \/ Notify(w) \/ Settle(w) \/ BindEvidence(w)
         \/ Telemetry(w) \/ Project(w) \/ Advance(w) \/ WriteHistory(w)
         \/ WriteTemporary(w) \/ ReplaceRaises(w) \/ TelemetryTorn(w)
  PROVE  Lone'
<1>a. pc \in [Worker -> Places] /\ Settling(w)
  BY DEF Typed, Lone
<1>b. pc[w] # "idle" /\ UNCHANGED record
  BY DEF DayTask, DayReturns, Notify, Settle, BindEvidence, Telemetry, Project, Advance,
         WriteHistory, WriteTemporary, ReplaceRaises, TelemetryTorn, store
<1>c. Current' = Current /\ UNCHANGED record
  BY <1>b, RecordFrame
<1>d. ASSUME NEW p, Goes(w, p)
      PROVE  pc'[w] = p /\ expected' = expected /\ target' = target
             /\ \A v \in Worker \ {w} : pc'[v] = pc[v]
  BY <1>a, <1>d DEF Goes
<1>1. CASE DayTask(w)
  <2>1. pc' = pc /\ snap'.state = "WORKING" /\ pc[w] = "work"
    BY <1>1 DEF DayTask, threads, Typed
  <2>2. Settling(w)'
    BY <2>1 DEF Settling, Writing, Active
  <2> QED BY <1>1, <1>b, <2>1, <2>2, LoneMove DEF DayTask, store
<1>2. CASE DayReturns(w)
  <2>1. /\ pc'[w] = "notify" /\ snap'.state \in Settled
        /\ \A v \in Worker \ {w} : pc'[v] = pc[v]
    BY <1>2, <1>a DEF DayReturns, Typed
  <2>2. Settling(w)'
    BY <2>1 DEF Settling, Writing
  <2> QED BY <1>2, <1>b, <2>1, <2>2, LoneMove DEF DayReturns, store
<1>3. CASE Notify(w)
  <2>1. UNCHANGED <<record, telemetry, snap>>
    BY <1>3 DEF Notify, store
  <2>2. CASE Goes(w, "settle")
    <3>1. snap.state \in Settled
      BY <1>3, <1>a DEF Notify, Settling
    <3>2. Settling(w)'
      BY <1>d, <2>1, <2>2, <3>1 DEF Settling, Writing
    <3> QED BY <1>b, <1>d, <2>1, <2>2, <3>2, LoneMove
  <2>3. ASSUME NEW o, Ends(w, o) PROVE Lone'
    BY <1>b, <2>1, <2>3, LoneEnds
  <2> QED BY <1>3, <2>2, <2>3 DEF Notify
<1>4. CASE Settle(w)
  <2>1. UNCHANGED <<record, telemetry, snap>> /\ pc[w] = "settle"
    BY <1>4 DEF Settle, store
  <2>2. ASSUME NEW o, Ends(w, o) PROVE Lone'
    BY <1>b, <2>1, <2>2, LoneEnds
  <2>3. ASSUME NEW p, p = IF snap.state = "COMPLETE" THEN "bind" ELSE "project", Goes(w, p),
               ~Unreadable, ~(IsCurrent(expected[w]) /\ record[expected[w]].state = "COMPLETE")
        PROVE  Lone'
    <3>1. snap.state \in Settled
      BY <1>a, <2>1 DEF Settling
    <3>2. ~(expected[w] = Current /\ record[expected[w]].state = "COMPLETE")
      BY <2>3 DEF IsCurrent
    <3>3. Settling(w)'
      BY <1>c, <1>d, <2>1, <2>3, <3>1, <3>2 DEF Settling, Writing
    <3> QED BY <1>b, <1>d, <2>1, <2>3, <3>3, LoneMove
  <2> QED BY <1>4, <2>2, <2>3 DEF Settle
<1>5. CASE BindEvidence(w)
  <2>1. UNCHANGED <<record, telemetry>> /\ pc[w] = "bind"
    BY <1>5 DEF BindEvidence, store
  <2>2. ASSUME NEW o, Ends(w, o) PROVE Lone'
    BY <1>b, <2>1, <2>2, LoneEnds
  <2>3. ASSUME Goes(w, "telemetry"), snap' = [snap EXCEPT !.bound = TRUE] PROVE Lone'
    <3>1. snap.state \in Settled /\ snap.state = "COMPLETE" /\ snap'.state = snap.state
          /\ ~(expected[w] = Current /\ record[expected[w]].state = "COMPLETE")
      BY <1>a, <2>1, <2>3 DEF Settling, Typed
    <3>2. Settling(w)'
      BY <1>c, <1>d, <2>1, <2>3, <3>1 DEF Settling, Writing
    <3> QED BY <1>b, <1>d, <2>1, <2>3, <3>2, LoneMove
  <2> QED BY <1>5, <2>2, <2>3 DEF BindEvidence
<1>6. CASE Telemetry(w)
  <2>1. pc[w] = "telemetry" /\ UNCHANGED <<record, snap, tasks>>
    BY <1>6 DEF Telemetry
  <2>2. ASSUME NEW o, Ends(w, o), UNCHANGED telemetry PROVE Lone'
    BY <1>b, <2>2, LoneEnds
  <2>3. ASSUME Goes(w, "project"), TelemetryOf(expected[w]) # None,
               telemetry' = [telemetry EXCEPT ![expected[w]] = TelemetryOf(expected[w])]
        PROVE  Lone'
    <3>1. expected[w] \in Run /\ TelemetryOf(expected[w]) \notin {None, Torn}
      <4>1. expected[w] \in Run
        BY <2>1 DEF Placed
      <4>2. tasks[expected[w]] \in 0..MaxTasks
        BY <4>1 DEF Typed
      <4> QED BY <2>3, <4>1, <4>2, LifecycleAssumption DEF TelemetryOf, Torn
    <3>2. telemetry'[expected[w]] = TelemetryOf(expected[w])
          /\ \A r \in Run \ {expected[w]} : telemetry'[r] = telemetry[r]
      BY <2>3, <3>1 DEF Typed
    <3>3. \A r \in Run : HasTelemetry(r) => HasTelemetry(r)'
      BY <3>1, <3>2 DEF HasTelemetry
    <3>4. snap.state \in Settled
          /\ ~(expected[w] = Current /\ record[expected[w]].state = "COMPLETE")
      BY <1>a, <2>1 DEF Settling
    <3>5. Settling(w)'
      <4>1. HasTelemetry(expected[w])'
        BY <1>d, <2>3, <3>1, <3>2 DEF HasTelemetry
      <4> QED BY <1>c, <1>d, <2>1, <2>3, <3>4, <4>1 DEF Settling, Writing
    <3>6. \A v \in Worker \ {w} : pc'[v] = "idle"
      BY <1>b, <1>d, <2>3 DEF Lone
    <3>7. \A v \in Worker \ {w} : Settling(v)'
      BY <3>6 DEF Settling, Writing
    <3>8. (\A r \in Run : record[r].state = "COMPLETE" => HasTelemetry(r))'
      BY <1>c, <3>3 DEF Lone
    <3>9. Created' = Created
      BY <1>c, RecordFrame
    <3> QED BY <1>c, <3>5, <3>6, <3>7, <3>8, <3>9 DEF Lone
  <2> QED BY <1>6, <2>2, <2>3 DEF Telemetry
<1>7. CASE Project(w)
  <2>1. UNCHANGED <<record, telemetry, snap>> /\ pc[w] = "project"
    BY <1>7 DEF Project, store
  <2>2. ASSUME NEW o, Ends(w, o) PROVE Lone'
    BY <1>b, <2>1, <2>2, LoneEnds
  <2>3. ASSUME Goes(w, "advance"), IsCurrent(expected[w]) PROVE Lone'
    <3>1. /\ snap.state \in Settled /\ expected[w] = Current
          /\ record[Current].state # "COMPLETE"
          /\ snap.state = "COMPLETE" => HasTelemetry(expected[w])
      BY <1>a, <2>1, <2>3 DEF Settling, IsCurrent
    <3>2. \A r : HasTelemetry(r)' = HasTelemetry(r)
      BY <2>1 DEF HasTelemetry
    <3>3. Settling(w)'
      <4>1. snap'.state = "COMPLETE" => HasTelemetry(expected[w])'
        BY <1>d, <2>1, <2>3, <3>1 DEF HasTelemetry
      <4> QED BY <1>c, <1>d, <2>1, <2>3, <3>1, <4>1 DEF Settling, Writing
    <3> QED BY <1>b, <1>d, <2>1, <2>3, <3>3, LoneMove
  <2> QED BY <1>7, <2>2, <2>3 DEF Project
<1>8. CASE Advance(w)
  <2>1. /\ pc[w] = "advance" /\ pc'[w] = "history" /\ target'[w] = snap.state
        /\ \A v \in Worker \ {w} : pc'[v] = pc[v]
        /\ UNCHANGED <<record, telemetry, snap, expected>>
    BY <1>8, <1>a DEF Advance, store, Typed
  <2>2. Settling(w)'
    <3>1. snap'.state = "COMPLETE" => HasTelemetry(expected[w])'
      BY <1>a, <2>1 DEF HasTelemetry, Settling, Writing
    <3> QED BY <1>a, <1>c, <2>1, <3>1 DEF Settling, Writing
  <2> QED BY <1>b, <2>1, <2>2, LoneMove
<1>9. CASE WriteHistory(w) \/ WriteTemporary(w)
  <2>1. UNCHANGED <<record, telemetry, snap>> /\ pc[w] \in {"history", "temporary"}
    BY <1>9 DEF WriteHistory, WriteTemporary
  <2>2. ASSUME NEW o, Ends(w, o) PROVE Lone'
    BY <1>b, <2>1, <2>2, LoneEnds
  <2>3. ASSUME NEW p \in {"temporary", "replace"}, Goes(w, p) PROVE Lone'
    <3>1. snap'.state = "COMPLETE" => HasTelemetry(expected[w])'
      BY <1>a, <1>d, <2>1, <2>3 DEF HasTelemetry, Settling, Writing
    <3>2. Settling(w)'
      BY <1>a, <1>c, <1>d, <2>1, <2>3, <3>1 DEF Settling, Writing
    <3> QED BY <1>b, <1>d, <2>1, <2>3, <3>2, LoneMove
  <2> QED BY <1>9, <2>2, <2>3 DEF WriteHistory, WriteTemporary
<1>10. CASE ReplaceRaises(w)
  BY <1>10, <1>b, LoneEnds DEF ReplaceRaises
<1>11. CASE TelemetryTorn(w)
  <2>1. /\ pc'[w] = "idle" /\ \A v \in Worker \ {w} : pc'[v] = pc[v]
        /\ telemetry[expected[w]] = None /\ expected[w] \in Run
        /\ telemetry' = [telemetry EXCEPT ![expected[w]] = Torn]
    BY <1>11, <1>a DEF TelemetryTorn, Ends, Placed
  <2>2. \A v \in Worker : pc'[v] = "idle"
    BY <1>b, <2>1 DEF Lone
  <2>3. \A v \in Worker : Settling(v)'
    BY <2>2 DEF Settling, Writing
  <2>4. \A r \in Run : HasTelemetry(r) => HasTelemetry(r)'
    BY <2>1 DEF HasTelemetry, Typed
  <2>5. (\A r \in Run : record[r].state = "COMPLETE" => HasTelemetry(r))'
    BY <1>c, <2>4 DEF Lone
  <2>6. Created' = Created
    BY <1>c, RecordFrame
  <2> QED BY <1>c, <2>2, <2>3, <2>5, <2>6 DEF Lone
<1> QED BY <1>1, <1>2, <1>3, <1>4, <1>5, <1>6, <1>7, <1>8, <1>9, <1>10, <1>11

LEMMA SoloStep ==
  ASSUME Typed, Placed, Solo, [Next]_vars
  PROVE  Solo'
<1> SUFFICES ASSUME ~overlapped' PROVE Lone'
  BY DEF Solo
<1>a. overlapped \in BOOLEAN
  BY DEF Typed
<1>b. overlapped => overlapped'
  BY <1>a, Steps
     DEF GoCreate, GoCreateTorn, GoStart, Resume, SelectDay, Crash, Requested, vars,
         DayTask, DayReturns, Notify, Settle, BindEvidence, Telemetry, Project, Advance,
         WriteHistory, WriteTemporary, ReplaceRecord, ReplaceRaises, TelemetryTorn
<1>c. Lone /\ ~overlapped
  BY <1>b DEF Solo
<1>d. Requested => Idle
  BY DEF Requested
<1>1. ASSUME NEW d \in Day, NEW admitted \in BOOLEAN, GoCreate(d, admitted) PROVE Lone'
  <2> DEFINE rec == [day |-> d, state |-> IF admitted THEN "PREFLIGHT" ELSE "HUMAN_ACTION_REQUIRED",
                     hist |-> << >>]
  <2>1. rec \in Recorded /\ rec.state # "COMPLETE"
    BY DEF Recorded, State, Active, Settled, Authority
  <2>2. /\ GoPermitted /\ Current < MaxRuns /\ record' = [record EXCEPT ![Current + 1] = rec]
        /\ UNCHANGED <<threads, telemetry>> /\ Idle
    BY <1>1, <1>d DEF GoCreate
  <2> HIDE DEF rec
  <2> QED BY <1>c, <2>1, <2>2, LoneCreate
<1>2. CASE GoCreateTorn
  <2>1. Partial.state # "COMPLETE"
    BY DEF Partial
  <2> QED BY <1>2, <1>c, <1>d, <2>1, LoneCreate DEF GoCreateTorn
<1>3. CASE GoStart
  <2>1. UNCHANGED <<record, telemetry>> /\ going \in Run
    BY <1>3 DEF GoStart, store, Typed
  <2>2. CASE StartPermitted(going)
    <3>1. snap.state = "IDLE"
      BY <2>2 DEF StartPermitted
    <3>2. Idle
      BY <1>c, <3>1 DEF Lone, Settling, Idle, Active, Settled, Authority
    <3>3. snap'.state = "PREFLIGHT" /\ Launch(going)
      BY <1>3, <2>2 DEF GoStart
    <3> QED BY <1>c, <2>1, <3>2, <3>3, LoneLaunch
  <2>3. CASE ~StartPermitted(going)
    <3>1. UNCHANGED <<pc, target, expected, snap>>
      BY <1>3, <2>3 DEF GoStart, threads
    <3> QED BY <1>c, <2>1, <3>1, RecordFrame DEF Lone, Settling, HasTelemetry
  <2> QED BY <2>2, <2>3
<1>4. CASE Resume
  <2>1. Idle /\ Launch(snap.run) /\ UNCHANGED <<record, telemetry>> /\ snap.run \in Run \cup {None}
    BY <1>4, <1>d DEF Resume, store, Typed
  <2>2. snap'.state = "PREFLIGHT"
    BY <1>4 DEF Resume, Typed
  <2> QED BY <1>c, <2>1, <2>2, LoneLaunch
<1>5. ASSUME NEW d \in Day, SelectDay(d) PROVE Lone'
  BY <1>5, <1>c, <1>d, LoneIdle DEF SelectDay, Idle, store, threads
<1>6. CASE Crash
  BY <1>6, <1>c, LoneIdle DEF Crash, store
<1>7. CASE UNCHANGED vars
  <2>1. UNCHANGED <<record, telemetry, pc, target, expected, snap>>
    BY <1>7 DEF vars, store, threads
  <2> QED BY <1>c, <2>1, RecordFrame DEF Lone, Settling, HasTelemetry
<1> QED BY <1>1, <1>2, <1>3, <1>4, <1>5, <1>6, <1>7, <1>c, Steps, LoneWorker, LoneReplace

LEMMA SoloInvariant == Spec => [](Typed /\ Placed /\ Solo)
<1>1. Init => Solo
  BY DEF Init, Solo, Lone, Settling, Writing, Created, Absent
<1>2. Typed /\ Placed /\ Solo /\ [Next]_vars => Solo'
  BY SoloStep
<1> QED BY <1>1, <1>2, TypedInvariant, PTL DEF Spec

(* A completion has its telemetry on disk, as long as no request overtakes a    *)
(* settlement: evidence, telemetry and the record are written in that order.    *)
THEOREM CompletionHasTelemetry == Spec => []CompleteHasTelemetry
<1>1. Solo => CompleteHasTelemetry
  BY DEF Solo, Lone, HasTelemetry, CompleteHasTelemetry
<1> QED BY <1>1, SoloInvariant, PTL

(* Go leaves no run behind that waits for something: only the current one is    *)
(* open.                                                                        *)
THEOREM OneRunOpen == Spec => []OnlyCurrentIsOpen
<1>1. Solo => OnlyCurrentIsOpen
  BY DEF Solo, Lone, OnlyCurrentIsOpen
<1> QED BY <1>1, SoloInvariant, PTL

(* A record that has become COMPLETE is never written again: not by a second    *)
(* settlement of its run, not by Go, and not by a crash.                        *)
THEOREM CompletionIsFinal == Spec => CompleteIsFinal
<1> DEFINE Kind == overlapped
                     \/ \A r \in Run : record[r].state = "COMPLETE" => record'[r] = record[r]
<1>1. Typed /\ Placed /\ Solo /\ [Next]_vars => Kind
  <2> SUFFICES ASSUME Typed, Placed, Solo, [Next]_vars, ~overlapped,
                      NEW r \in Run, record[r].state = "COMPLETE"
               PROVE  record'[r] = record[r]
    OBVIOUS
  <2>1. ASSUME NEW d \in Day, NEW admitted \in BOOLEAN, GoCreate(d, admitted)
        PROVE  record'[r] = record[r]
    <3>1. r # Current + 1
      <4>1. r \in Created
        BY DEF Created, Absent
      <4> QED BY <4>1, LifecycleAssumption DEF Placed
    <3> QED BY <2>1, <3>1 DEF GoCreate, Typed
  <2>2. CASE GoCreateTorn
    <3>1. r # Current + 1
      <4>1. r \in Created
        BY DEF Created, Absent
      <4> QED BY <4>1, LifecycleAssumption DEF Placed
    <3> QED BY <2>2, <3>1 DEF GoCreateTorn, Typed
  <2>3. ASSUME NEW w \in Worker, ReplaceRecord(w) PROVE record'[r] = record[r]
    <3>1. expected[w] # r
      BY <2>3 DEF Solo, Lone, Settling, ReplaceRecord, Writing
    <3> QED BY <2>3, <3>1, PlacedReplace
  <2>4. \/ UNCHANGED record \/ GoCreateTorn \/ (\E w \in Worker : ReplaceRecord(w))
        \/ \E d \in Day, admitted \in BOOLEAN : GoCreate(d, admitted)
    BY Steps DEF GoStart, Resume, SelectDay, Crash, vars, store,
                 DayTask, DayReturns, Notify, Settle, BindEvidence, Telemetry, Project, Advance,
                 WriteHistory, WriteTemporary, ReplaceRaises, TelemetryTorn
  <2> QED BY <2>1, <2>2, <2>3, <2>4
<1>2. Kind => [Kind]_vars
  OBVIOUS
<1> QED BY <1>1, <1>2, SoloInvariant, PTL DEF Spec, CompleteIsFinal
-----------------------------------------------------------------------------
(* Whose run it is.                                                             *)
LEMMA OwnedStep ==
  ASSUME Typed, Placed, Owned, [Next]_vars
  PROVE  Owned'
<1>a. Current \in Nat
  BY LifecycleAssumption DEF Placed
<1>1. ASSUME NEW d \in Day, NEW admitted \in BOOLEAN, GoCreate(d, admitted) PROVE Owned'
  <2> DEFINE rec == [day |-> d, state |-> IF admitted THEN "PREFLIGHT" ELSE "HUMAN_ACTION_REQUIRED",
                     hist |-> << >>]
  <2>1. rec \in Recorded
    BY DEF Recorded, State, Active, Settled, Authority
  <2>2. /\ Current < MaxRuns /\ record' = [record EXCEPT ![Current + 1] = rec]
        /\ UNCHANGED threads
    BY <1>1 DEF GoCreate
  <2> HIDE DEF rec
  <2>3. Current' = Current + 1
    BY <2>1, <2>2, PlacedCreate
  <2>4. going' \in {None, Current + 1} /\ UNCHANGED snap
    BY <1>1 DEF GoCreate
  <2> QED BY <1>a, <2>3, <2>4 DEF Owned
<1>2. CASE GoCreateTorn
  <2>1. Current' = Current + 1
    BY <1>2, PlacedCreate DEF GoCreateTorn
  <2>2. going' = None /\ UNCHANGED snap
    BY <1>2 DEF GoCreateTorn, GoPermitted
  <2> QED BY <1>a, <2>1, <2>2 DEF Owned
<1>3. ASSUME UNCHANGED record,
             \/ UNCHANGED <<snap, going>>
             \/ GoStart \/ Resume \/ (\E d \in Day : SelectDay(d)) \/ Crash
             \/ \E w \in Worker : DayTask(w) \/ DayReturns(w) \/ BindEvidence(w)
      PROVE  Owned'
  <2>1. Current' = Current
    BY <1>3, RecordFrame
  <2>2. CASE UNCHANGED <<snap, going>>
    BY <2>1, <2>2 DEF Owned
  <2>3. CASE GoStart
    <3>1. CASE UNCHANGED snap
      BY <2>1, <2>3, <3>1 DEF GoStart, Owned
    <3>2. CASE snap'.run = going
      BY <1>a, <2>1, <2>3, <3>2 DEF GoStart, Owned
    <3> QED BY <2>3, <3>1, <3>2 DEF GoStart
  <2>4. CASE Resume
    <3>1. snap'.run = snap.run /\ snap.state # "IDLE" /\ UNCHANGED going
      BY <2>4 DEF Resume, Typed, Authority
    <3> QED BY <2>1, <3>1 DEF Owned
  <2>5. ASSUME NEW d \in Day, SelectDay(d) PROVE Owned'
    <3>1. snap'.run = None /\ snap'.state = "IDLE" /\ UNCHANGED going
      BY <2>5 DEF SelectDay, EmptySnapshot
    <3> QED BY <1>a, <2>1, <3>1 DEF Owned, None
  <2>6. CASE Crash
    <3>1. /\ snap'.run = snap.run /\ going' = None
          /\ snap'.state # "IDLE" => snap.state # "IDLE"
      BY <2>6 DEF Crash, Typed, Active
    <3> QED BY <2>1, <3>1 DEF Owned
  <2>7. ASSUME NEW w \in Worker, DayTask(w) \/ DayReturns(w) \/ BindEvidence(w) PROVE Owned'
    <3>1. UNCHANGED going /\ snap'.run = snap.run
          /\ (snap.run # None \/ snap'.state = snap.state \/ snap.state # "IDLE")
      BY <2>7 DEF DayTask, DayReturns, BindEvidence, Typed, Active
    <3> QED BY <2>1, <3>1 DEF Owned
  <2> QED BY <1>3, <2>2, <2>3, <2>4, <2>5, <2>6, <2>7
<1>4. ASSUME NEW w \in Worker, ReplaceRecord(w) PROVE Owned'
  BY <1>4, PlacedReplace DEF ReplaceRecord, Owned
<1>5. CASE UNCHANGED vars
  BY <1>3, <1>5 DEF vars, store
<1>6. ASSUME NEW w \in Worker,
             \/ DayTask(w) \/ DayReturns(w) \/ Notify(w) \/ Settle(w) \/ BindEvidence(w)
             \/ Telemetry(w) \/ Project(w) \/ Advance(w) \/ WriteHistory(w)
             \/ WriteTemporary(w) \/ ReplaceRaises(w) \/ TelemetryTorn(w)
      PROVE  Owned'
  <2>1. UNCHANGED record
    BY <1>6 DEF DayTask, DayReturns, Notify, Settle, BindEvidence, Telemetry, Project, Advance,
                WriteHistory, WriteTemporary, ReplaceRaises, TelemetryTorn, store
  <2>2. \/ UNCHANGED <<snap, going>> \/ DayTask(w) \/ DayReturns(w) \/ BindEvidence(w)
    BY <1>6 DEF Notify, Settle, Telemetry, Project, Advance,
                WriteHistory, WriteTemporary, ReplaceRaises, TelemetryTorn
  <2> QED BY <1>3, <2>1, <2>2
<1>7. CASE GoStart \/ Resume \/ (\E d \in Day : SelectDay(d)) \/ Crash
  <2>1. UNCHANGED record
    BY <1>7 DEF GoStart, Resume, SelectDay, Crash, store
  <2> QED BY <1>3, <1>7, <2>1
<1> QED BY <1>1, <1>2, <1>4, <1>5, <1>6, <1>7, Steps

(* Outside an update no version or temporary file waits for one.                *)
LEMMA NothingWaits ==
  ASSUME Lone, Calm, \A w \in Worker : pc[w] \notin {"temporary", "replace"}
  PROVE  /\ temporary = {}
         /\ \A r \in Run, s \in State : <<Version(r), s>> \notin history[r]
BY DEF Calm

(* A step of the one thread at work before it has written its version file.     *)
LEMMA CalmMove ==
  ASSUME Lone, Calm, NEW w \in Worker, pc[w] \notin {"idle", "temporary", "replace"},
         \A v \in Worker \ {w} : pc'[v] = pc[v],
         UNCHANGED <<record, history, temporary, telemetry, going>>,
         Follows(w)', pc'[w] = "idle" => SettledIsRecorded'
  PROVE  Calm'
<1>1. \A v \in Worker \ {w} : pc[v] = "idle"
  BY DEF Lone
<1>2. temporary = {} /\ \A r \in Run, s \in State : <<Version(r), s>> \notin history[r]
  BY <1>1, NothingWaits
<1>3. Unreadable' = Unreadable /\ \A r : Version(r)' = Version(r)
  BY RecordFrame
<1>4. \A v \in Worker : Follows(v)'
  <2>1. \A v \in Worker \ {w} : Follows(v)'
    BY <1>1 DEF Follows
  <2> QED BY <2>1
<1>5. SettledIsRecorded'
  <2>1. CASE pc'[w] # "idle"
    BY <2>1 DEF SettledIsRecorded, Idle
  <2> QED BY <2>1
<1>6. (\A r \in Run, s \in State : <<Version(r), s>> \in history[r] =>
         \E v \in Worker : pc[v] \in {"temporary", "replace"} /\ expected[v] = r)'
  BY <1>2, <1>3
<1> QED BY <1>2, <1>3, <1>4, <1>5, <1>6 DEF Calm

(* What a settlement relies on: its run is the Day's.                           *)
LEMMA CalmPlace ==
  ASSUME Typed, Placed, Lone, Owned, Calm, NEW w \in Worker, pc[w] # "idle"
  PROVE  /\ expected[w] = snap.run /\ snap.run # None /\ expected[w] \in Run
         /\ \A v \in Worker \ {w} : pc[v] = "idle"
         /\ Settling(w) /\ Follows(w) /\ ~Unreadable
         /\ expected[w] = Current => record[expected[w]].state # "COMPLETE"
<1>1. expected[w] = snap.run /\ snap.run # None /\ Follows(w) /\ Settling(w) /\ ~Unreadable
  BY DEF Calm, Lone, Follows
<1>2. expected[w] \in Run
  BY <1>1 DEF Typed
<1>3. expected[w] = Current => record[expected[w]].state # "COMPLETE"
  BY <1>1 DEF Follows
<1> QED BY <1>1, <1>2, <1>3 DEF Lone

LEMMA CalmWorker ==
  ASSUME Typed, Placed, Lone, Owned, Calm, NEW w \in Worker,
         \/ DayTask(w) \/ DayReturns(w) \/ Notify(w) \/ Settle(w) \/ BindEvidence(w)
         \/ Telemetry(w) \/ Project(w) \/ Advance(w)
  PROVE  Calm'
<1>a. /\ pc[w] \notin {"idle", "temporary", "replace"}
      /\ UNCHANGED <<record, history, temporary, going>>
  BY DEF DayTask, DayReturns, Notify, Settle, BindEvidence, Telemetry, Project, Advance, store
<1>b. /\ expected[w] = snap.run /\ snap.run # None /\ expected[w] \in Run
      /\ Settling(w) /\ Follows(w) /\ ~Unreadable
      /\ expected[w] = Current => record[expected[w]].state # "COMPLETE"
  BY <1>a, CalmPlace
<1>c. Current' = Current
  BY <1>a, RecordFrame
<1>d. pc \in [Worker -> Places] /\ expected \in [Worker -> Run \cup {None}]
  BY DEF Typed
<1>e. ASSUME NEW p, Goes(w, p) \/ (pc' = [pc EXCEPT ![w] = p] /\ UNCHANGED expected),
             snap'.run = snap.run,
             p \in {"telemetry", "project"} /\ snap'.state = "COMPLETE" => snap'.bound,
             p \notin {"idle"}, UNCHANGED telemetry
      PROVE  Calm'
  <2>1. pc'[w] = p /\ expected' = expected /\ \A v \in Worker \ {w} : pc'[v] = pc[v]
    BY <1>d, <1>e DEF Goes
  <2>2. Follows(w)'
    BY <1>a, <1>b, <1>c, <1>e, <2>1 DEF Follows
  <2> QED BY <1>a, <1>e, <2>1, <2>2, CalmMove
<1>f. ASSUME NEW o, Ends(w, o), UNCHANGED <<snap, telemetry>>,
             \/ Current # expected[w]
             \/ snap.state = "COMPLETE" /\ o \in {"EVIDENCE", "TELEMETRY"}
      PROVE  Calm'
  <2>1. pc'[w] = "idle" /\ \A v \in Worker \ {w} : pc'[v] = pc[v]
    BY <1>d, <1>f DEF Ends
  <2>2. Follows(w)'
    BY <2>1 DEF Follows
  <2>3. SettledIsRecorded'
    BY <1>b, <1>c, <1>f DEF SettledIsRecorded, Ends
  <2> QED BY <1>a, <1>f, <2>1, <2>2, <2>3, CalmMove
<1>1. CASE DayTask(w)
  <2>1. pc' = pc /\ expected' = expected /\ snap'.run = snap.run /\ UNCHANGED telemetry
        /\ pc[w] = "work"
    BY <1>1 DEF DayTask, threads, store, Typed
  <2>2. Follows(w)'
    BY <1>a, <1>b, <1>c, <2>1 DEF Follows
  <2> QED BY <1>a, <2>1, <2>2, CalmMove
<1>2. CASE DayReturns(w)
  <2>1. pc' = [pc EXCEPT ![w] = "notify"] /\ expected' = expected /\ snap'.run = snap.run
        /\ UNCHANGED telemetry
    BY <1>2 DEF DayReturns, store, Typed
  <2>2. pc'[w] = "notify" /\ \A v \in Worker \ {w} : pc'[v] = pc[v]
    BY <1>d, <2>1
  <2>3. Follows(w)'
    BY <1>a, <1>b, <1>c, <2>1, <2>2 DEF Follows
  <2> QED BY <1>a, <2>1, <2>2, <2>3, CalmMove
<1>3. CASE Notify(w)
  <2>1. snap.state \in Settled
    BY <1>3, <1>b DEF Notify, Settling
  <2>2. snap.state \notin Active
    BY <2>1 DEF Settled, Active, Authority
  <2>3. Goes(w, "settle") /\ UNCHANGED <<snap, telemetry>>
    BY <1>3, <1>b, <2>2 DEF Notify, store
  <2> QED BY <1>e, <2>3
<1>4. CASE Settle(w)
  <2>1. UNCHANGED <<snap, telemetry>>
    BY <1>4 DEF Settle, store
  <2>2. ~(IsCurrent(expected[w]) /\ record[expected[w]].state = "COMPLETE")
    BY <1>b DEF IsCurrent
  <2>3. Goes(w, IF snap.state = "COMPLETE" THEN "bind" ELSE "project")
    BY <1>4, <1>b, <2>2 DEF Settle
  <2>4. CASE snap.state = "COMPLETE"
    <3>1. Goes(w, "bind")
      BY <2>3, <2>4
    <3> QED BY <1>e, <2>1, <3>1
  <2>5. CASE snap.state # "COMPLETE"
    <3>1. Goes(w, "project") /\ snap'.state # "COMPLETE"
      BY <2>1, <2>3, <2>5
    <3> QED BY <1>e, <2>1, <3>1
  <2> QED BY <2>4, <2>5
<1>5. CASE BindEvidence(w)
  <2>1. UNCHANGED telemetry /\ snap.state = "COMPLETE"
    BY <1>5, <1>b DEF BindEvidence, store, Settling
  <2>2. CASE ~IsCurrent(expected[w])
    <3>1. Current # expected[w]
      BY <1>b, <2>2 DEF IsCurrent
    <3> QED BY <1>5, <1>b, <1>f, <2>1, <2>2, <3>1 DEF BindEvidence
  <2>3. CASE Ends(w, "EVIDENCE") /\ UNCHANGED snap
    BY <1>f, <2>1, <2>3
  <2>4. CASE snap' = [snap EXCEPT !.bound = TRUE] /\ Goes(w, "telemetry")
    <3>1. snap'.run = snap.run /\ snap'.bound
      BY <2>4 DEF Typed
    <3> QED BY <1>e, <2>1, <2>4, <3>1
  <2> QED BY <1>5, <1>b, <2>2, <2>3, <2>4 DEF BindEvidence
<1>6. CASE Telemetry(w)
  <2>1. /\ pc[w] = "telemetry" /\ snap.state = "COMPLETE" /\ UNCHANGED snap /\ snap.bound
        /\ telemetry[expected[w]] # Torn
    BY <1>6, <1>b DEF Telemetry, Settling, Follows, Calm
  <2>2. CASE Ends(w, "TELEMETRY") /\ UNCHANGED telemetry
    BY <1>f, <2>1, <2>2
  <2>3. CASE /\ telemetry' = [telemetry EXCEPT ![expected[w]] = TelemetryOf(expected[w])]
             /\ Goes(w, "project")
    <3>1. TelemetryOf(expected[w]) # Torn
      BY <1>b, LifecycleAssumption DEF TelemetryOf, Typed, Torn
    <3>2. \A r \in Run : telemetry'[r] # Torn
      BY <1>b, <2>3, <3>1 DEF Calm, Typed
    <3>3. /\ pc'[w] = "project" /\ expected' = expected
          /\ \A v \in Worker \ {w} : pc'[v] = pc[v]
      BY <1>d, <2>3 DEF Goes
    <3>4. Follows(w)'
      BY <1>a, <1>b, <1>c, <2>1, <3>3 DEF Follows
    <3>5. \A v \in Worker \ {w} : Follows(v)'
      BY <1>a, <3>3 DEF Follows, Lone
    <3>6. temporary = {} /\ \A r \in Run, s \in State : <<Version(r), s>> \notin history[r]
      BY <1>a, NothingWaits DEF Lone
    <3>7. Unreadable' = Unreadable /\ \A r : Version(r)' = Version(r)
      BY <1>a, RecordFrame
    <3>8. (\A r \in Run, s \in State : <<Version(r), s>> \in history[r] =>
             \E v \in Worker : pc[v] \in {"temporary", "replace"} /\ expected[v] = r)'
      BY <1>a, <3>6, <3>7
    <3>9. SettledIsRecorded'
      BY <3>3 DEF SettledIsRecorded, Idle
    <3> QED BY <1>a, <3>2, <3>4, <3>5, <3>6, <3>7, <3>8, <3>9 DEF Calm
  <2> QED BY <1>6, <1>b, <2>1, <2>2, <2>3 DEF Telemetry
<1>7. CASE Project(w)
  <2>1. UNCHANGED <<snap, telemetry>> /\ (snap.state = "COMPLETE" => snap.bound)
    BY <1>7, <1>b DEF Project, store, Follows
  <2>2. CASE ~IsCurrent(expected[w])
    <3>1. Current # expected[w]
      BY <1>b, <2>2 DEF IsCurrent
    <3> QED BY <1>7, <1>b, <1>f, <2>1, <2>2, <3>1 DEF Project
  <2>3. CASE IsCurrent(expected[w])
    <3>1. Goes(w, "advance")
      BY <1>7, <1>b, <2>1, <2>3 DEF Project
    <3> QED BY <1>e, <2>1, <3>1
  <2> QED BY <2>2, <2>3
<1>8. CASE Advance(w)
  BY <1>8, <1>e DEF Advance, store
<1> QED BY <1>1, <1>2, <1>3, <1>4, <1>5, <1>6, <1>7, <1>8

(* The update itself: with nothing left of an earlier one it cannot fail.       *)
LEMMA CalmWrite ==
  ASSUME Typed, Placed, Kept, Lone, Owned, Calm, NEW w \in Worker,
         WriteHistory(w) \/ WriteTemporary(w) \/ ReplaceRecord(w)
  PROVE  Calm'
<1>a. pc[w] \in {"history", "temporary", "replace"} /\ pc[w] \in Writing
  BY DEF WriteHistory, WriteTemporary, ReplaceRecord, Writing
<1>1. PICK r \in Run : /\ r = expected[w] /\ r = snap.run /\ r = Current
                       /\ record[r] \in Recorded /\ record[r].state # "COMPLETE"
                       /\ Version(r) \in Nat
                       /\ target[w] = snap.state /\ target[w] \in State
                       /\ \A v \in Worker \ {w} : pc[v] = "idle"
                       /\ Settling(w) /\ Follows(w) /\ ~Unreadable
  <2>1. expected[w] = Current /\ target[w] = snap.state
    BY <1>a DEF Lone, Settling
  <2> QED BY <1>a, <2>1, CalmPlace, Writer
<1>b. pc \in [Worker -> Places] /\ expected \in [Worker -> Run \cup {None}]
  BY DEF Typed
<1>2. going = None
  BY <1>1 DEF Owned
<1>c. \A v \in Worker \ {w} : pc'[v] = "idle"
  BY <1>1, <1>b DEF WriteHistory, WriteTemporary, ReplaceRecord, Goes, Ends
<1>d. \A v \in Worker \ {w} : Follows(v)'
  BY <1>c DEF Follows
<1>3. CASE WriteHistory(w)
  <2>1. UNCHANGED record /\ Unreadable' = Unreadable /\ Current' = Current
        /\ \A q : Version(q)' = Version(q)
    BY <1>3, RecordFrame DEF WriteHistory
  <2>2. temporary = {} /\ \A q \in Run, s \in State : <<Version(q), s>> \notin history[q]
    BY <1>1, <1>3, NothingWaits DEF WriteHistory
  <2>3. /\ history' = [history EXCEPT ![r] = @ \cup {<<Version(r), record[r].state>>}]
        /\ Goes(w, "temporary")
    BY <1>1, <1>3, <2>2 DEF WriteHistory
  <2>4. pc'[w] = "temporary" /\ expected' = expected
    BY <1>b, <2>3 DEF Goes
  <2>5. (\A q \in Run, s \in State : <<Version(q), s>> \in history[q] =>
           \E v \in Worker : pc[v] \in {"temporary", "replace"} /\ expected[v] = q)'
    <3> SUFFICES ASSUME NEW q \in Run, NEW s \in State, <<Version(q)', s>> \in history'[q]
                 PROVE  q = r
      BY <1>1, <2>4
    <3> QED BY <2>1, <2>2, <2>3 DEF Typed
  <2>6. Follows(w)'
    BY <1>1, <1>3, <2>1, <2>4 DEF Follows, WriteHistory
  <2>7. SettledIsRecorded'
    BY <2>4 DEF SettledIsRecorded, Idle
  <2> QED BY <1>1, <1>2, <1>3, <1>d, <2>1, <2>2, <2>5, <2>6, <2>7 DEF Calm, WriteHistory
<1>4. CASE WriteTemporary(w)
  <2>1. UNCHANGED record /\ Unreadable' = Unreadable /\ Current' = Current
        /\ \A q : Version(q)' = Version(q)
    BY <1>4, RecordFrame DEF WriteTemporary
  <2>2. temporary = {}
    <3>1. \A v \in Worker : pc[v] # "replace"
      BY <1>1, <1>4 DEF WriteTemporary
    <3> QED BY <3>1 DEF Calm
  <2>3. temporary' = {r} /\ Goes(w, "replace")
    BY <1>1, <1>4, <2>2 DEF WriteTemporary
  <2>4. pc'[w] = "replace" /\ expected' = expected
    BY <1>b, <2>3 DEF Goes
  <2>5. \A q \in Run, s \in State : <<Version(q), s>> \in history[q] => q = r
    BY <1>1 DEF Calm
  <2>6. (\A q \in Run, s \in State : <<Version(q), s>> \in history[q] =>
           \E v \in Worker : pc[v] \in {"temporary", "replace"} /\ expected[v] = q)'
    <3>1. history' = history
      BY <1>4 DEF WriteTemporary
    <3> QED BY <1>1, <2>1, <2>4, <2>5, <3>1
  <2>7. (\A q \in temporary : \E v \in Worker : pc[v] = "replace" /\ expected[v] = q)'
    BY <1>1, <2>3, <2>4
  <2>8. Follows(w)'
    BY <1>1, <1>4, <2>1, <2>4 DEF Follows, WriteTemporary
  <2>9. SettledIsRecorded'
    BY <2>4 DEF SettledIsRecorded, Idle
  <2> QED BY <1>1, <1>2, <1>4, <1>d, <2>1, <2>6, <2>7, <2>8, <2>9 DEF Calm, WriteTemporary
<1>5. CASE ReplaceRecord(w)
  <2>1. /\ Current' = Current /\ Created' = Created
        /\ \A q \in Run \ {r} : record'[q] = record[q]
        /\ record'[r] = Replaced(record[r], target[w])
    BY <1>1, <1>5, PlacedReplace
  <2>2. /\ record'[r].state = target[w] /\ record'[r] # Partial
        /\ record'[r].hist = Append(record[r].hist, record[r].state)
    BY <1>1, <2>1, Replacing
  <2>3. /\ record[r].hist \in Seq(State) /\ record[r].state \in State
        /\ Version(r) = Len(record[r].hist)
    BY <1>1, RecordForm DEF Version
  <2>4. Version(r)' = Version(r) + 1 /\ \A q \in Run \ {r} : Version(q)' = Version(q)
    BY <2>1, <2>2, <2>3, AppendProperties DEF Version
  <2>5. pc'[w] = "idle"
    BY <1>5, <1>b DEF ReplaceRecord, Ends
  <2>6. \A v \in Worker : pc'[v] = "idle" /\ Follows(v)'
    BY <1>c, <1>d, <2>5 DEF Follows
  <2>7. (\A q \in Run, s \in State : <<Version(q), s>> \notin history[q])'
    <3> SUFFICES ASSUME NEW q \in Run, NEW s \in State, <<Version(q)', s>> \in history[q]
                 PROVE  FALSE
      BY <1>5 DEF ReplaceRecord
    <3>1. CASE q = r
      <4>1. <<Version(r) + 1, s>> \notin history[r]
        BY <1>1 DEF Typed
      <4> QED BY <3>1, <4>1, <2>4
    <3>2. CASE q # r
      <4>1. \E v \in Worker : pc[v] \in {"temporary", "replace"} /\ expected[v] = q
        BY <3>2, <2>4 DEF Calm
      <4> QED BY <4>1, <3>2, <1>1
    <3> QED BY <3>1, <3>2
  <2>8. temporary' = {}
    <3>1. \A q \in temporary : q = r
      BY <1>1 DEF Calm
    <3> QED BY <3>1, <1>1, <1>5 DEF ReplaceRecord
  <2>9. ~Unreadable'
    BY <1>1, <2>1, <2>2 DEF Unreadable, Partial
  <2>10. SettledIsRecorded'
    BY <1>1, <1>5, <2>1, <2>2 DEF SettledIsRecorded, ReplaceRecord
  <2>11. UNCHANGED <<telemetry, going>>
    BY <1>5 DEF ReplaceRecord
  <2> QED BY <1>2, <2>6, <2>7, <2>8, <2>9, <2>10, <2>11 DEF Calm
<1> QED BY <1>3, <1>4, <1>5

(* With no thread at work the files of an update are all in place.              *)
LEMMA CalmIdle ==
  ASSUME Calm, \A w \in Worker : pc'[w] = "idle" /\ pc[w] = "idle",
         UNCHANGED <<record, history, temporary, telemetry, going>>, SettledIsRecorded'
  PROVE  Calm'
<1>1. Unreadable' = Unreadable /\ \A r : Version(r)' = Version(r)
  BY RecordFrame
<1>2. temporary = {} /\ \A r \in Run, s \in State : <<Version(r), s>> \notin history[r]
  BY DEF Calm
<1>3. (\A r \in Run, s \in State : <<Version(r), s>> \in history[r] =>
         \E v \in Worker : pc[v] \in {"temporary", "replace"} /\ expected[v] = r)'
  BY <1>1, <1>2
<1>4. \A w \in Worker : Follows(w)'
  BY DEF Follows
<1> QED BY <1>1, <1>2, <1>3, <1>4 DEF Calm

LEMMA CalmCreate ==
  ASSUME Typed, Placed, Kept, Owned, Calm, Idle,
         NEW d \in Day, NEW admitted \in BOOLEAN, GoCreate(d, admitted)
  PROVE  Calm'
<1> DEFINE rec == [day |-> d, state |-> IF admitted THEN "PREFLIGHT" ELSE "HUMAN_ACTION_REQUIRED",
                   hist |-> << >>]
<1>1. rec \in Recorded /\ rec.hist = << >> /\ rec.state # "COMPLETE" /\ rec # Partial
  <2>1. rec.state # "PARTIAL"
    OBVIOUS
  <2> QED BY <2>1 DEF Recorded, State, Active, Settled, Authority, Partial
<1>2. /\ Current < MaxRuns /\ record' = [record EXCEPT ![Current + 1] = rec]
      /\ UNCHANGED <<history, temporary, telemetry, snap, threads>>
      /\ going' \in {None, Current + 1}
  BY DEF GoCreate
<1> HIDE DEF rec
<1>3. PICK n \in Run : n = Current + 1
  BY <1>2, LifecycleAssumption DEF Placed, Run
<1>4. Current' = n /\ record'[n] = rec /\ \A r \in Run \ {n} : record'[r] = record[r]
  <2>1. Current' = Current + 1 /\ record'[Current + 1] = rec
    BY <1>1, <1>2, PlacedCreate
  <2> QED BY <2>1, <1>2, <1>3 DEF Typed
<1>5. history[n] = {}
  <2>1. n \notin Created
    BY <1>3, LifecycleAssumption DEF Placed
  <2>2. record[n] = Absent
    BY <2>1 DEF Created
  <2> QED BY <2>2, NoVersions, RecordForm
<1>6. \A w \in Worker : pc'[w] = "idle" /\ pc[w] = "idle"
  BY <1>2 DEF Idle, threads
<1>7. temporary = {} /\ \A r \in Run, s \in State : <<Version(r), s>> \notin history[r]
  BY <1>6 DEF Calm
<1>8. (\A r \in Run, s \in State : <<Version(r), s>> \notin history[r])'
  <2> SUFFICES ASSUME NEW r \in Run, NEW s \in State, <<Version(r)', s>> \in history[r]
               PROVE  FALSE
    BY <1>2
  <2>1. r # n
    BY <1>5
  <2>2. Version(r)' = Version(r)
    BY <2>1, <1>4 DEF Version
  <2> QED BY <2>2, <1>7
<1>9. ~Unreadable'
  BY <1>1, <1>4 DEF Calm, Unreadable, Partial
<1>10. \A w \in Worker : Follows(w)'
  BY <1>6 DEF Follows
<1>11. going' # None => record'[going'].state # "COMPLETE"
  BY <1>1, <1>2, <1>3, <1>4
<1>12. SettledIsRecorded'
  <2>1. snap'.run # Current'
    BY <1>2, <1>3, <1>4, LifecycleAssumption DEF Owned, Placed
  <2> QED BY <2>1 DEF SettledIsRecorded
<1> QED BY <1>2, <1>7, <1>8, <1>9, <1>10, <1>11, <1>12 DEF Calm

LEMMA CalmLaunch ==
  ASSUME Typed, Calm, Idle, NEW r \in Run, Launch(r), snap'.run = r,
         r = Current => record[r].state # "COMPLETE",
         UNCHANGED <<record, history, temporary, telemetry>>, going' \in {going, None}
  PROVE  Calm'
<1>1. PICK w \in Worker : /\ pc' = [pc EXCEPT ![w] = "work"]
                          /\ expected' = [expected EXCEPT ![w] = r]
  BY DEF Launch
<1>2. /\ pc'[w] = "work" /\ expected'[w] = r
      /\ \A v \in Worker \ {w} : pc'[v] = "idle"
      /\ \A v \in Worker : pc[v] = "idle"
  BY <1>1 DEF Typed, Idle
<1>3. Unreadable' = Unreadable /\ Current' = Current /\ \A q : Version(q)' = Version(q)
  BY RecordFrame
<1>4. temporary = {} /\ \A q \in Run, s \in State : <<Version(q), s>> \notin history[q]
  BY <1>2 DEF Calm
<1>5. (\A q \in Run, s \in State : <<Version(q), s>> \in history[q] =>
         \E v \in Worker : pc[v] \in {"temporary", "replace"} /\ expected[v] = q)'
  BY <1>3, <1>4
<1>6. \A v \in Worker : Follows(v)'
  <2>1. r # None
    BY DEF Run, None
  <2>2. Follows(w)'
    BY <1>2, <1>3, <2>1 DEF Follows
  <2>3. \A v \in Worker \ {w} : Follows(v)'
    BY <1>2 DEF Follows
  <2> QED BY <2>2, <2>3
<1>7. SettledIsRecorded'
  BY <1>2 DEF SettledIsRecorded, Idle
<1>8. going' # None => record'[going'].state # "COMPLETE"
  BY DEF Calm
<1> QED BY <1>3, <1>4, <1>5, <1>6, <1>7, <1>8 DEF Calm

LEMMA QuietStep ==
  ASSUME Typed, Placed, Kept, Solo, Owned, Quiet, [Next]_vars
  PROVE  Quiet'
<1> SUFFICES ASSUME ~overlapped', crashes' = 0 PROVE Calm'
  BY DEF Quiet
<1>a. overlapped \in BOOLEAN /\ crashes \in Nat
  BY LifecycleAssumption DEF Typed
<1>b. (overlapped => overlapped') /\ (crashes # 0 => crashes' # 0)
  <2>1. overlapped => overlapped'
    BY <1>a, Steps
       DEF GoCreate, GoCreateTorn, GoStart, Resume, SelectDay, Crash, Requested, vars,
           DayTask, DayReturns, Notify, Settle, BindEvidence, Telemetry, Project, Advance,
           WriteHistory, WriteTemporary, ReplaceRecord, ReplaceRaises, TelemetryTorn
  <2>2. crashes' = crashes \/ crashes' = crashes + 1
    BY Steps
       DEF GoCreate, GoCreateTorn, GoStart, Resume, SelectDay, Crash, vars,
           DayTask, DayReturns, Notify, Settle, BindEvidence, Telemetry, Project, Advance,
           WriteHistory, WriteTemporary, ReplaceRecord, ReplaceRaises, TelemetryTorn
  <2> QED BY <1>a, <2>1, <2>2
<1>c. Lone /\ Calm /\ ~overlapped /\ crashes = 0
  BY <1>b DEF Solo, Quiet
<1>d. Requested => Idle
  BY DEF Requested
<1>e. ~GoCreateTorn /\ ~Crash /\ \A w \in Worker : ~ReplaceRaises(w) /\ ~TelemetryTorn(w)
  BY <1>c DEF GoCreateTorn, Crash, ReplaceRaises, TelemetryTorn
<1>1. ASSUME NEW d \in Day, NEW admitted \in BOOLEAN, GoCreate(d, admitted) PROVE Calm'
  BY <1>1, <1>c, <1>d, CalmCreate DEF GoCreate
<1>2. CASE GoStart
  <2>1. /\ UNCHANGED <<record, history, temporary, telemetry>> /\ going \in Run /\ going' = None
        /\ UNCHANGED <<overlapped, crashes, audit>>
    BY <1>2 DEF GoStart, store, Typed
  <2>2. CASE StartPermitted(going)
    <3>1. snap.state = "IDLE"
      BY <2>2 DEF StartPermitted
    <3>2. Idle
      BY <1>c, <3>1 DEF Lone, Settling, Idle, Active, Settled, Authority
    <3>3. snap'.run = going /\ Launch(going)
      BY <1>2, <2>2 DEF GoStart
    <3>4. record[going].state # "COMPLETE"
      BY <1>2, <1>c DEF GoStart, Calm
    <3> QED BY <1>c, <2>1, <3>2, <3>3, <3>4, CalmLaunch
  <2>3. CASE ~StartPermitted(going)
    <3>1. UNCHANGED <<pc, target, expected, snap>>
      BY <1>2, <2>3 DEF GoStart, threads
    <3>2. /\ Unreadable' = Unreadable /\ Current' = Current /\ \A r : Version(r)' = Version(r)
      BY <2>1, RecordFrame
    <3>3. SettledIsRecorded'
      BY <1>c, <2>1, <3>1, <3>2 DEF Calm, SettledIsRecorded, Idle
    <3>4. (\A w \in Worker : Follows(w))'
      BY <1>c, <2>1, <3>1, <3>2 DEF Calm, Follows
    <3>5. (\A r \in Run, s \in State : <<Version(r), s>> \in history[r] =>
             \E v \in Worker : pc[v] \in {"temporary", "replace"} /\ expected[v] = r)'
      BY <1>c, <2>1, <3>1, <3>2 DEF Calm
    <3> QED BY <1>c, <2>1, <3>1, <3>2, <3>3, <3>4, <3>5 DEF Calm
  <2> QED BY <2>2, <2>3
<1>3. CASE Resume
  <2>1. /\ Idle /\ Launch(snap.run) /\ snap'.run = snap.run
        /\ UNCHANGED <<record, history, temporary, telemetry, going>>
        /\ snap.state \notin {"IDLE", "COMPLETE"}
    BY <1>3, <1>d DEF Resume, store, Typed, Authority
  <2>2. snap.run \in Run
    BY <2>1 DEF Owned, Typed
  <2>3. snap.run = Current => record[snap.run].state # "COMPLETE"
    BY <1>c, <2>1, <2>2 DEF Calm, SettledIsRecorded, Owned
  <2> QED BY <1>c, <2>1, <2>2, <2>3, CalmLaunch
<1>4. ASSUME NEW d \in Day, SelectDay(d) PROVE Calm'
  <2>1. /\ Idle /\ UNCHANGED <<record, history, temporary, telemetry, going, pc>>
        /\ snap'.run = None
    BY <1>4, <1>d DEF SelectDay, EmptySnapshot, store, threads
  <2>2. SettledIsRecorded'
    BY <2>1 DEF SettledIsRecorded
  <2> QED BY <1>c, <2>1, <2>2, CalmIdle DEF Idle
<1>5. CASE UNCHANGED vars
  <2>1. UNCHANGED <<record, history, temporary, telemetry, going, pc, expected, snap, audit,
                    overlapped, crashes>>
    BY <1>5 DEF vars, store, threads
  <2>2. Unreadable' = Unreadable /\ Current' = Current /\ \A r : Version(r)' = Version(r)
    BY <2>1, RecordFrame
  <2>3. SettledIsRecorded'
    BY <1>c, <2>1, <2>2 DEF Calm, SettledIsRecorded, Idle
  <2>4. (\A w \in Worker : Follows(w))'
    BY <1>c, <2>1, <2>2 DEF Calm, Follows
  <2>5. (\A r \in Run, s \in State : <<Version(r), s>> \in history[r] =>
           \E v \in Worker : pc[v] \in {"temporary", "replace"} /\ expected[v] = r)'
    BY <1>c, <2>1, <2>2 DEF Calm
  <2> QED BY <1>c, <2>1, <2>2, <2>3, <2>4, <2>5 DEF Calm
<1>6. ASSUME NEW w \in Worker,
             \/ DayTask(w) \/ DayReturns(w) \/ Notify(w) \/ Settle(w) \/ BindEvidence(w)
             \/ Telemetry(w) \/ Project(w) \/ Advance(w) \/ WriteHistory(w)
             \/ WriteTemporary(w) \/ ReplaceRecord(w)
      PROVE  Calm'
  BY <1>6, <1>c, CalmWorker, CalmWrite
<1> QED BY <1>1, <1>2, <1>3, <1>4, <1>5, <1>6, <1>e, Steps

(* With no thread at work, nothing overtaken, crashed or raised, the record of  *)
(* the Day's run shows what the Day has come to; only evidence that has gone    *)
(* stale, or missing task facts, keep a completion from being recorded.         *)
THEOREM SettlementIsRecorded == Spec => []SettledIsRecorded
<1>1. Init => Owned /\ Quiet
  <2> SUFFICES ASSUME Init PROVE Owned /\ Quiet
    OBVIOUS
  <2>1. Created = {} /\ Current = 0
    BY DEF Init, Created, Current, None
  <2>2. Owned
    BY <2>1 DEF Init, EmptySnapshot, Owned, None
  <2>3. snap.run = None /\ temporary = {} /\ going = None
        /\ \A w \in Worker : pc[w] = "idle"
    BY DEF Init, EmptySnapshot
  <2>4. ~Unreadable /\ \A r \in Run : telemetry[r] # Torn /\ history[r] = {}
    BY LifecycleAssumption DEF Init, Unreadable, Partial, Absent, Torn, None
  <2>5. SettledIsRecorded /\ \A w \in Worker : Follows(w)
    BY <2>3 DEF SettledIsRecorded, Follows
  <2> QED BY <2>2, <2>3, <2>4, <2>5 DEF Quiet, Calm
<1>2. Typed /\ Placed /\ Kept /\ Solo /\ Owned /\ Quiet /\ [Next]_vars => Owned' /\ Quiet'
  BY OwnedStep, QuietStep
<1>3. Quiet => SettledIsRecorded
  BY DEF Quiet, Calm, SettledIsRecorded
<1> QED BY <1>1, <1>2, <1>3, KeptInvariant, SoloInvariant, PTL DEF Spec
=============================================================================
