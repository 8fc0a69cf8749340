---------------------------- MODULE RunLifecycle ----------------------------
(* The durable record of a product run: RunCoordinator.go, the settlement of a  *)
(* Day into its run (RunProductComposition, RunExecutionComposition), and the   *)
(* files of JsonRunStore and JsonRunTelemetryStore.                             *)
(*                                                                              *)
(* Go, the Day's requests and the settlement of a worker that has returned run  *)
(* in different threads under different locks, and every store is a directory   *)
(* of files: the process may die between any two writes.  The Day itself is     *)
(* reduced to the state its snapshot shows and the run it is bound to           *)
(* (DayController has the rest); runs are numbered in the order of go_at.       *)
EXTENDS Integers, Sequences

CONSTANTS
  MaxRuns,        \* bound: runs ever created
  Day,            \* the Days an operator may ask for
  Worker,         \* Day worker threads
  CanSelect,      \* is select_day called by anyone? (no route does)
  MaxTasks,       \* bound: engine tasks a run has records of
  MaxResume,      \* bound: resumes of a Day
  MaxCrash        \* bound: restarts, and updates that raise

None == 0
Torn == MaxTasks + 1
Run == 1..MaxRuns

ASSUME LifecycleAssumption ==
  /\ MaxRuns \in Nat /\ MaxTasks \in Nat /\ MaxResume \in Nat /\ MaxCrash \in Nat
  /\ CanSelect \in BOOLEAN

VARIABLES
  record,     \* the run files; None is no file, Partial a file create() did not finish
  history,    \* the version files of each run: <<version, state>>
  temporary,  \* the runs whose update left its temporary file
  telemetry,  \* the telemetry file of each run: the task records it sums up
  tasks,      \* engine task records bound to each run
  snap,       \* the Day's saved snapshot: run, day, state, evidence bound to the run
  going,      \* the run go() has created and not yet handed to the executor
  pc,         \* where each worker thread is
  expected,   \* its expected_run_id
  target,     \* the state its projection is about to record
  audit,      \* the outcome of the last settlement
  overlapped, \* has a request ever come before the last worker was settled?
  resumes,
  crashes

store == <<record, history, temporary, telemetry>>
threads == <<pc, expected, target>>
vars == <<store, tasks, snap, going, threads, audit, overlapped, resumes, crashes>>
-----------------------------------------------------------------------------
Active == {"PREFLIGHT", "WORKING"}
Authority == {"HUMAN_ACTION_REQUIRED"}
Settled == {"COMPLETE", "STOPPED", "PAUSED", "FAILED_UNRECOVERABLE"} \cup Authority
State == {"IDLE"} \cup Active \cup Settled
TERMINAL_STATES == {"COMPLETE", "STOPPED", "FAILED_UNRECOVERABLE"}

Outcomes == {"NONE", "DAY_SNAPSHOT_RUN_ID_MISMATCH", "DAY_WORKER_NOT_SETTLED", "RUN_NOT_CURRENT",
             "EVIDENCE", "TELEMETRY", "VALIDATOR_EVIDENCE_INCOMPLETE", "REPLAY_CONFLICT",
             "ALREADY_PROJECTED", "PROJECTED", "FAILED"}

Partial == [day |-> None, state |-> "PARTIAL", hist |-> <<>>]
Absent == [day |-> None, state |-> "ABSENT", hist |-> <<>>]

Created == {r \in Run : record[r] # Absent}
Unreadable == \E r \in Run : record[r] = Partial

(* store.current(): the last record, and an exception while any is unreadable.  *)
Current == IF Created = {} THEN None ELSE CHOOSE r \in Created : \A q \in Created : q <= r
IsCurrent(r) == ~Unreadable /\ Current = r

Version(r) == Len(record[r].hist)

EmptySnapshot == [run |-> None, day |-> None, state |-> "IDLE", bound |-> FALSE]

Init ==
  /\ record = [r \in Run |-> Absent]
  /\ history = [r \in Run |-> {}]
  /\ temporary = {}
  /\ telemetry = [r \in Run |-> None]
  /\ tasks = [r \in Run |-> 0]
  /\ snap = EmptySnapshot
  /\ going = None
  /\ pc = [w \in Worker |-> "idle"]
  /\ expected = [w \in Worker |-> None]
  /\ target = [w \in Worker |-> "IDLE"]
  /\ audit = "NONE"
  /\ overlapped = FALSE /\ resumes = 0 /\ crashes = 0

Idle == \A w \in Worker : pc[w] = "idle"

(* Nobody waits for a worker's settlement; an operator merely may.              *)
Requested == overlapped' = (overlapped \/ ~Idle)

(* Mutant: go() does not look at the state of the current record.               *)
GoWheneverReadable == going = None /\ ~Unreadable

(* Start a worker thread for the run the snapshot is bound to.                  *)
Launch(r) ==
  \E w \in Worker :
    /\ pc[w] = "idle"
    /\ pc' = [pc EXCEPT ![w] = "work"]
    /\ expected' = [expected EXCEPT ![w] = r]
    /\ UNCHANGED target
-----------------------------------------------------------------------------
(* go(), up to the file it creates: refused while the current record is not     *)
(* terminal; a blocked admission leaves a record in an authority state.         *)
GoPermitted ==
  /\ going = None /\ ~Unreadable
  /\ Current # None => record[Current].state \in TERMINAL_STATES

GoCreate(d, admitted) ==
  /\ GoPermitted /\ Current < MaxRuns /\ Requested
  /\ LET r == Current + 1 IN
       /\ record' = [record EXCEPT ![r] =
            [day |-> d, state |-> IF admitted THEN "PREFLIGHT" ELSE "HUMAN_ACTION_REQUIRED",
             hist |-> <<>>]]
       /\ going' = IF admitted THEN r ELSE None
  /\ UNCHANGED <<history, temporary, telemetry, tasks, snap, threads, audit, resumes, crashes>>

(* create() raises between the exclusive open and the end of the write.         *)
GoCreateTorn ==
  /\ GoPermitted /\ Current < MaxRuns /\ crashes < MaxCrash /\ Requested
  /\ record' = [record EXCEPT ![Current + 1] = Partial]
  /\ crashes' = crashes + 1
  /\ UNCHANGED <<history, temporary, telemetry, tasks, snap, going, threads, audit, resumes>>

(* start(day, run_id) as go()'s executor: what start() refuses, go() ignores.   *)
StartPermitted(r) ==
  /\ snap.run \in {None, r}
  /\ snap.state = "IDLE"

GoStart ==
  /\ going # None
  /\ IF StartPermitted(going)
       THEN /\ snap' = [run |-> going, day |-> record[going].day, state |-> "PREFLIGHT",
                        bound |-> FALSE]
            /\ Launch(going)
       ELSE UNCHANGED <<snap, threads>>
  /\ going' = None
  /\ UNCHANGED <<store, tasks, audit, overlapped, resumes, crashes>>

(* resume(): a worker for the run the snapshot is bound to.                     *)
Resume ==
  /\ resumes < MaxResume /\ Requested
  /\ snap.state \in {"PAUSED", "STOPPED"} \cup Authority
  /\ snap' = [snap EXCEPT !.state = "PREFLIGHT"]
  /\ resumes' = resumes + 1
  /\ Launch(snap.run)
  /\ UNCHANGED <<store, tasks, going, audit, crashes>>

(* select_day(): another Day after a COMPLETE one starts from a clean snapshot. *)
SelectDay(d) ==
  /\ CanSelect /\ Requested
  /\ snap.state = "COMPLETE" /\ d # snap.day
  /\ snap' = [EmptySnapshot EXCEPT !.day = d]
  /\ UNCHANGED <<store, tasks, going, threads, audit, resumes, crashes>>
-----------------------------------------------------------------------------
(* The Day's own work, reduced to what it leaves: task records of the run, and  *)
(* a settled state when it returns.                                             *)
DayTask(w) ==
  /\ pc[w] = "work" /\ snap.run # None /\ tasks[snap.run] < MaxTasks
  /\ snap' = [snap EXCEPT !.state = "WORKING"]
  /\ tasks' = [tasks EXCEPT ![snap.run] = @ + 1]
  /\ UNCHANGED <<store, going, threads, audit, overlapped, resumes, crashes>>

DayReturns(w) ==
  /\ pc[w] = "work" /\ snap.state \in Active
  /\ \E s \in Settled \ {"PAUSED"} : snap' = [snap EXCEPT !.state = s, !.bound = FALSE]
  /\ pc' = [pc EXCEPT ![w] = "notify"]
  /\ UNCHANGED <<store, tasks, going, expected, target, audit, overlapped, resumes, crashes>>
-----------------------------------------------------------------------------
(* The settlement thread, one step from one read of shared state to the next.   *)
Goes(w, next) ==
  /\ pc' = [pc EXCEPT ![w] = next]
  /\ UNCHANGED <<expected, target>>

Ends(w, outcome) ==
  /\ audit' = outcome
  /\ pc' = [pc EXCEPT ![w] = "idle"]
  /\ target' = [target EXCEPT ![w] = "IDLE"]
  /\ expected' = [expected EXCEPT ![w] = None]

(* _execute_and_notify_settlement, under the program's lock.                    *)
Notify(w) ==
  /\ pc[w] = "notify"
  /\ IF expected[w] = None THEN Ends(w, audit)
     ELSE IF snap.run # expected[w] THEN Ends(w, "DAY_SNAPSHOT_RUN_ID_MISMATCH")
     ELSE IF snap.state \in Active THEN Ends(w, "DAY_WORKER_NOT_SETTLED")
     ELSE Goes(w, "settle") /\ UNCHANGED audit
  /\ UNCHANGED <<store, tasks, snap, going, overlapped, resumes, crashes>>

(* _terminal_telemetry: the sum of the run's task records, None without any.    *)
TelemetryOf(r) == tasks[r]

(* Mutant: a COMPLETE record is settled once more like any other.               *)
SettleAgain(w) ==
  /\ pc[w] = "settle"
  /\ Goes(w, IF snap.state = "COMPLETE" THEN "bind" ELSE "project")
  /\ UNCHANGED audit
  /\ UNCHANGED <<store, tasks, snap, going, overlapped, resumes, crashes>>

(* Mutant: a Day that is not COMPLETE is not projected.                         *)
SettleOnlyComplete(w) ==
  /\ pc[w] = "settle"
  /\ IF snap.state = "COMPLETE" THEN Goes(w, "bind") /\ UNCHANGED audit
                                ELSE Ends(w, "NONE")
  /\ UNCHANGED <<store, tasks, snap, going, overlapped, resumes, crashes>>

(* verify_bound_day_evidence: nothing is bound twice.                           *)
VerifiedBound(r) == IsCurrent(r) /\ snap.run = r /\ snap.bound

(* settle_terminal_run: a record that is COMPLETE is compared, never rewritten. *)
Settle(w) ==
  LET r == expected[w] IN
  /\ pc[w] = "settle"
  /\ \/ Unreadable /\ Ends(w, "FAILED")
     \/ /\ IsCurrent(r) /\ record[r].state = "COMPLETE"
        /\ \/ /\ snap.state = "COMPLETE" /\ VerifiedBound(r)
              /\ telemetry[r] = TelemetryOf(r) /\ telemetry[r] # None
              /\ Ends(w, "ALREADY_PROJECTED")
           \/ Ends(w, "REPLAY_CONFLICT")
     \/ /\ ~Unreadable /\ ~(IsCurrent(r) /\ record[r].state = "COMPLETE")
        /\ Goes(w, IF snap.state = "COMPLETE" THEN "bind" ELSE "project")
        /\ UNCHANGED audit
  /\ UNCHANGED <<store, tasks, snap, going, overlapped, resumes, crashes>>

(* One thread at a time is in bind_day_evidence or project_day_state (_lock).   *)
Writing == {"advance", "history", "temporary", "replace"}
Unlocked(w) == \A v \in Worker \ {w} : pc[v] \notin Writing

(* Mutant: the settlement projects before it writes telemetry.                  *)
BindThenProject(w) ==
  LET r == expected[w] IN
  /\ pc[w] = "bind" /\ Unlocked(w)
  /\ IF ~IsCurrent(r) THEN Ends(w, "RUN_NOT_CURRENT") /\ UNCHANGED snap
     ELSE IF snap.run # r THEN Ends(w, "DAY_SNAPSHOT_RUN_ID_MISMATCH") /\ UNCHANGED snap
     ELSE /\ snap' = [snap EXCEPT !.bound = TRUE]
          /\ Goes(w, "project") /\ UNCHANGED audit
  /\ UNCHANGED <<store, tasks, going, overlapped, resumes, crashes>>

(* bind_day_evidence: the evidence may have gone stale since the Day validated  *)
(* it; all criteria are bound, and saved, or none.                              *)
BindEvidence(w) ==
  LET r == expected[w] IN
  /\ pc[w] = "bind" /\ Unlocked(w)
  /\ IF Unreadable THEN Ends(w, "FAILED") /\ UNCHANGED snap
     ELSE IF ~IsCurrent(r) THEN Ends(w, "RUN_NOT_CURRENT") /\ UNCHANGED snap
     ELSE IF snap.run # r THEN Ends(w, "DAY_SNAPSHOT_RUN_ID_MISMATCH") /\ UNCHANGED snap
     ELSE \/ Ends(w, "EVIDENCE") /\ UNCHANGED snap
          \/ /\ snap' = [snap EXCEPT !.bound = TRUE]
             /\ Goes(w, "telemetry") /\ UNCHANGED audit
  /\ UNCHANGED <<store, tasks, going, overlapped, resumes, crashes>>

(* record_telemetry: created once, then only the same facts are accepted.       *)
RecordsTelemetry(r) == telemetry[r] \in {None, TelemetryOf(r)}

(* reconcile_terminal_telemetry; a file that was not finished cannot be read.   *)
Telemetry(w) ==
  LET r == expected[w] IN
  /\ pc[w] = "telemetry"
  /\ IF Unreadable \/ telemetry[r] = Torn THEN Ends(w, "FAILED") /\ UNCHANGED telemetry
     ELSE IF \/ ~IsCurrent(r) \/ snap.run # r
             \/ snap.state \notin Settled \ {"PAUSED", "STOPPED"}
             \/ TelemetryOf(r) = None \/ ~RecordsTelemetry(r)
       THEN Ends(w, "TELEMETRY") /\ UNCHANGED telemetry
       ELSE /\ telemetry' = [telemetry EXCEPT ![r] = TelemetryOf(r)]
            /\ Goes(w, "project") /\ UNCHANGED audit
  /\ UNCHANGED <<record, history, temporary, tasks, snap, going, overlapped, resumes, crashes>>

(* JsonRunTelemetryStore.create raises before its file is complete.             *)
TelemetryTorn(w) ==
  /\ pc[w] = "telemetry" /\ crashes < MaxCrash /\ telemetry[expected[w]] = None
  /\ crashes' = crashes + 1
  /\ telemetry' = [telemetry EXCEPT ![expected[w]] = Torn]
  /\ Ends(w, "FAILED")
  /\ UNCHANGED <<record, history, temporary, tasks, snap, going, overlapped, resumes>>

(* project_day_state: its checks.                                               *)
Project(w) ==
  LET r == expected[w] IN
  /\ pc[w] = "project" /\ Unlocked(w)
  /\ IF Unreadable THEN Ends(w, "FAILED")
     ELSE IF ~IsCurrent(r) THEN Ends(w, "RUN_NOT_CURRENT")
     ELSE IF snap.run # r THEN Ends(w, "DAY_SNAPSHOT_RUN_ID_MISMATCH")
     ELSE IF snap.state = "COMPLETE" /\ ~snap.bound
       THEN Ends(w, "VALIDATOR_EVIDENCE_INCOMPLETE")
     ELSE Goes(w, "advance") /\ UNCHANGED audit
  /\ UNCHANGED <<store, tasks, snap, going, overlapped, resumes, crashes>>

(* _advance reads the Day's state again, and the store is asked to record it.   *)
Advance(w) ==
  /\ pc[w] = "advance"
  /\ target' = [target EXCEPT ![w] = snap.state]
  /\ pc' = [pc EXCEPT ![w] = "history"]
  /\ UNCHANGED <<store, tasks, snap, going, expected, audit, overlapped, resumes, crashes>>

Replaced(rec, s) == [rec EXCEPT !.state = s, !.hist = Append(@, rec.state)]

(* Mutant: the record is replaced before its version is kept.                   *)
ReplaceBeforeHistory(w) ==
  LET r == expected[w] IN
  /\ pc[w] = "history"
  /\ record' = [record EXCEPT ![r] = Replaced(@, target[w])]
  /\ Ends(w, "PROJECTED")
  /\ UNCHANGED <<history, temporary, telemetry, tasks, snap, going, overlapped, resumes, crashes>>

(* Mutant: the version file is named after the version to come.                 *)
HistoryOfNext(w) ==
  LET r == expected[w] IN
  /\ pc[w] = "history"
  /\ history' = [history EXCEPT ![r] = @ \cup {<<Version(r) + 1, record[r].state>>}]
  /\ Goes(w, "temporary") /\ UNCHANGED audit
  /\ UNCHANGED <<record, temporary, telemetry, tasks, snap, going, overlapped, resumes, crashes>>

(* JsonRunStore.update: the version file and the temporary one are opened       *)
(* exclusively, and the record is replaced last.                                *)
WriteHistory(w) ==
  LET r == expected[w] IN
  /\ pc[w] = "history"
  /\ IF \E s \in State : <<Version(r), s>> \in history[r]
       THEN Ends(w, "FAILED") /\ UNCHANGED history
       ELSE /\ history' = [history EXCEPT ![r] = @ \cup {<<Version(r), record[r].state>>}]
            /\ Goes(w, "temporary") /\ UNCHANGED audit
  /\ UNCHANGED <<record, temporary, telemetry, tasks, snap, going, overlapped, resumes, crashes>>

(* A leftover temporary file is removed by the update that failed on it.        *)
WriteTemporary(w) ==
  LET r == expected[w] IN
  /\ pc[w] = "temporary"
  /\ IF r \in temporary
       THEN temporary' = temporary \ {r} /\ Ends(w, "FAILED")
       ELSE temporary' = temporary \cup {r} /\ Goes(w, "replace") /\ UNCHANGED audit
  /\ UNCHANGED <<record, history, telemetry, tasks, snap, going, overlapped, resumes, crashes>>

ReplaceRecord(w) ==
  LET r == expected[w] IN
  /\ pc[w] = "replace"
  /\ record' = [record EXCEPT ![r] = Replaced(@, target[w])]
  /\ temporary' = temporary \ {r}
  /\ Ends(w, "PROJECTED")
  /\ UNCHANGED <<history, telemetry, tasks, snap, going, overlapped, resumes, crashes>>

(* os.replace may raise; finally removes the temporary file only.               *)
ReplaceRaises(w) ==
  /\ pc[w] = "replace" /\ crashes < MaxCrash
  /\ crashes' = crashes + 1
  /\ temporary' = temporary \ {expected[w]}
  /\ Ends(w, "FAILED")
  /\ UNCHANGED <<record, history, telemetry, tasks, snap, going, overlapped, resumes>>

(* A restart: threads are gone, and a saved success is evaluated again.         *)
Crash ==
  /\ crashes < MaxCrash
  /\ crashes' = crashes + 1
  /\ pc' = [w \in Worker |-> "idle"]
  /\ expected' = [w \in Worker |-> None]
  /\ target' = [w \in Worker |-> "IDLE"]
  /\ going' = None
  /\ \/ snap' = IF snap.state \in Active THEN [snap EXCEPT !.state = "PAUSED"] ELSE snap
     \/ /\ snap.state = "COMPLETE"
        /\ snap' = [snap EXCEPT !.state = "PAUSED", !.bound = FALSE]
  /\ UNCHANGED <<store, tasks, audit, overlapped, resumes>>
-----------------------------------------------------------------------------
SettlementStep(w) ==
  \/ Notify(w) \/ Settle(w) \/ BindEvidence(w) \/ Telemetry(w) \/ Project(w)
  \/ Advance(w) \/ WriteHistory(w) \/ WriteTemporary(w) \/ ReplaceRecord(w)

Next ==
  \/ \E d \in Day : \E admitted \in BOOLEAN : GoCreate(d, admitted)
  \/ GoCreateTorn
  \/ GoStart
  \/ Resume
  \/ \E d \in Day : SelectDay(d)
  \/ \E w \in Worker : \/ DayTask(w) \/ DayReturns(w)
                       \/ SettlementStep(w) \/ ReplaceRaises(w) \/ TelemetryTorn(w)
  \/ Crash

Spec == Init /\ [][Next]_vars
-----------------------------------------------------------------------------
TypeOK ==
  /\ \A r \in Run :
       /\ record[r].state \in State \cup {"ABSENT", "PARTIAL"}
       /\ record[r].day \in Day \cup {None}
       /\ record[r].hist \in Seq(State)
       /\ history[r] \subseteq (0..Version(r)) \X State
       /\ telemetry[r] \in 0..Torn /\ tasks[r] \in 0..MaxTasks
  /\ temporary \subseteq Run
  /\ snap \in [run : Run \cup {None}, day : Day \cup {None}, state : State, bound : BOOLEAN]
  /\ going \in Run \cup {None}
  /\ pc \in [Worker -> {"idle", "work", "notify", "settle", "bind", "telemetry", "project"}
                       \cup Writing]
  /\ expected \in [Worker -> Run \cup {None}] /\ target \in [Worker -> State]
  /\ audit \in Outcomes /\ overlapped \in BOOLEAN
  /\ resumes \in 0..MaxResume /\ crashes \in 0..MaxCrash

(* A COMPLETE record has its telemetry: the settlement binds evidence, writes   *)
(* telemetry and only then projects, whatever fails or dies in between.         *)
CompleteHasTelemetry ==
  overlapped \/ \A r \in Run : record[r].state = "COMPLETE" => telemetry[r] \notin {None, Torn}

(* At most the current run is open: an older record is terminal, so that Go     *)
(* never leaves a run behind that still waits for something.                    *)
OnlyCurrentIsOpen ==
  overlapped \/ \A r \in Created : r # Current => record[r].state \in TERMINAL_STATES \cup {"PARTIAL"}

(* A record that has become COMPLETE is never replaced again.                   *)
CompleteIsFinal ==
  [][overlapped \/ \A r \in Run : record[r].state = "COMPLETE" => record'[r] = record[r]]_vars

(* When no thread is at work and nothing has crashed or raised, the current     *)
(* run's record shows what its Day has come to; only stale evidence or missing  *)
(* task facts keep a completion from being recorded.                            *)
SettledIsRecorded ==
  Idle /\ crashes = 0 /\ ~overlapped /\ snap.run # None /\ snap.run = Current =>
    \/ record[Current].state = snap.state
    \/ snap.state = "COMPLETE" /\ audit \in {"EVIDENCE", "TELEMETRY"}

(* The record and the version files of a run are its log: created once, only    *)
(* appended to, also over a crash between the files of an update (which leaves  *)
(* the present version twice, in its version file and in the record).           *)
StoredState(r, i) ==
  IF i = Len(record[r].hist) + 1 THEN record[r].state
  ELSE IF \E s \in State : <<i - 1, s>> \in history[r]
    THEN CHOOSE s \in State : <<i - 1, s>> \in history[r] ELSE "LOST"
ReadVersions(r) ==
  IF record[r] \in {Absent, Partial} THEN <<>>
  ELSE [i \in 1..(Len(record[r].hist) + 1) |-> StoredState(r, i)]
Log == INSTANCE RunLog WITH log <- [r \in Run |-> ReadVersions(r)]
ImplementsRunLog == Log!Spec
-----------------------------------------------------------------------------
(* What the repository says of runs, checked by runs that expect a violation.   *)

(* RC-02: Go after a terminal run installs a clean snapshot bound to the new    *)
(* run; an admitted run that go() has handed over owns the Day.                 *)
AdmittedRunOwnsTheDay ==
  \A r \in Run : record[r].state = "PREFLIGHT" /\ going = None /\ crashes = 0 /\ r = Current
    => snap.run = r
=============================================================================
