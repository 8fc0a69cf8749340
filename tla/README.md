# TLA+ models of the AI Control Center

The AI Control Center drives a 14-day plan for a local LLM: a controller process
evaluates the day's contract, runs registered actions, repairs engineering
failures within bounded authority and stops for a person when authority is
missing. Beside it stand the product run that records what a Day came to, the
reviewer bus, the guarded task engine and its Git completion, the autonomous
continuation, the scheduler of configured Day plans and the controls of a run.
Paths below are relative to the repository; `P` is
`backend/control/local_llm_day_program.py`.

- [The system](#the-system) – components, their state, how they interact, what is hard
- [Modules](#modules) – what each models and how it corresponds to the code
- [Runs](#runs) – what TLC checks, with which bounds
- [Findings](#findings) – where the code does not do what the repository says
- [Proofs](#proofs) – what holds for every value of the constants, and why
- [Not modelled](#not-modelled) and [plan](#plan)

## The system

| Component | State it keeps | Operations | Correct when |
|---|---|---|---|
| Day controller (`P`, `day_state_machine.py`, `day_action_registry.py`, `models/local_llm_day.py`) | the snapshot (state, blocker, attempts, work items, evidence, gaps, episode ids), its file, `_stop`, the worker thread, `_operator_external_resume_episode_id` | start, resume, repair_and_go, stop, register_retained_evidence; the worker's loop; restore at startup | no action runs twice on one input; COMPLETE is backed by evidence; a blocker stops work until it is resolved; every run ends and is reported |
| Repair episodes and solution catalogue (`P` 781-1047, `solution_catalog.py`, `external_review.py`) | one record per episode, review artifacts, catalogue entries, each in a file of its own | bounded local proposals, expert solver, one advisory review, bounded builder, accept, block; operator's one retry | limits and the deadline survive restarts; a review is submitted once; escalation is one-way; a verified repair is accepted |
| Product run lifecycle (`run_store.py`, `run_composition.py`, `run_execution_composition.py`, `run_product_composition.py`, `run_telemetry_store.py`) | one record per run with a version history, telemetry | go, start and resume of its worker, settlement: bind evidence, telemetry, projection | one current run; a record says COMPLETE only with its telemetry; a settled Day reaches its record |
| Admission of a run (`preflight_authority.py`, `day_git.py`, `prepare_intent` of `P`) | authority grants, prerequisite observations, fact records | record a grant or an observation, resolve facts, admit | a run is admitted only under what was recorded for the project it was admitted on |
| Reviewer bus (`reviewer_bus.py`, `reviewer_files.py`, `reviewer_recovery.py`) | report registry, outstanding and pending replies, processed marks, recovery records | poll, match a reply, continue Codex, post the next report, recover a report, repair a refused one | one post and one continuation per report, also over a crash |
| Run review, human decision, repair recovery (`run_execution_composition.py`, `review_control.py`, `human_decision.py`, `repair_recovery.py`) | controllers in memory over one durable record | request, apply and verify a review; bind, receive and confirm a decision; begin and record a repair | an answer is applied once and only to what it answers; no run completes past its review |
| Engine: guarded tasks (`orchestrator/engine.py`, `state_machine.py`, `token_budget.py`, `faults.py`) | one StateManager and one usage counter for all requests, task records | run_task, run_fault_repair, smokes, mock, discovery | budgets and retries are bounded; the workflow is left where the next task can start |
| Engine: continuation (`orchestrator/engine.py`, `next_action.py`, `goal_policy.py`, `week1_program.py`, `local_runtime.py`) | goals, Week 1 records, experiments, Zero-Touch runs | propose and execute goals, run a Week 1 Day, continue_autonomously, Zero-Touch | a request for a person is final; the next phase is asked for on real grounds |
| Git completion (`git_completion.py`, `day_git.py`) | the branch, index and worktree, recorded results | complete verified work, validate the completion | verified work is committed and reported once |
| Legacy Day Runner (`orchestrator/day_runner.py`, `models/day.py`, `agents/day_providers.py`) | a plan of tasks with counters and limits | start, resume, stop, the loop of architect, engine and evaluator | the plan's limits hold over stops, resumes and restarts |
| Action executor and evidence adapters (`day_action_executor.py`, `retained_evidence.py`, `evidence_registry.py`, `evidence_completion.py`, `day_research.py`) | artifacts | execute a registered action, validate artifacts | only declared evidence of valid content is accepted |
| Codex runner (`runners/codex.py`) | a subprocess | run | external to the models |
| API and frontend (`app.py`, `frontend/app.js`), read models (`daily_operation.py`, telemetry views) | none | forward requests, render | controls shown are transitions accepted |

**How they interact.** An API request enters the engine and, for the Day, the
controller, under the controller's `RLock`. The request starts a daemon worker
thread that calls the action executor, the repair builder, the reviewer and
`git` synchronously. The worker does *not* take the lock: requests and worker
share one snapshot object, and either may save it. The snapshot, the episodes,
the catalogue, the review artifacts and the run records are separate files
without a common transaction. When a worker started by start or resume returns,
it saves the settled snapshot under the lock and calls the settlement notifier,
through which the run product projects the Day's state on its record. The engine's
requests (tasks, completion, continuation, Day plans) run on FastAPI's threads
with no lock between them; they meet in the engine's data, in one StateManager and
in the work tree. The reviewer bus is one thread of its own that talks to GitHub
and to Codex; a recovery tick follows each of its polls. The run controls hold the
composition's lock, keep their controllers in memory and write one durable record,
which the Day's projection writes too.

**What is hard.**

- *Interleaving*: a request between two steps of the worker; a second worker
  over the same snapshot, because a request is admitted by the snapshot's state
  and not by the thread's end.
- *Crashes between two saves*, of the same store or of two stores.
- *Stale facts*: evidence whose artifact changed, a completion read back, a
  diagnosis from an evaluation that has been superseded.
- *Termination*: the worker's loop has no iteration bound; it ends because no
  input is attempted twice and no strategy is repaired twice.
- *At most once*: actions and review submissions are paid for and have effects;
  they are announced in a file before the call.
- *Commands that time out with their work done*: a POST, a commit, a push.
- *Facts looked up before a long command and used after it*: limits, candidates,
  earlier records, the project's fingerprint.
- *Several writers of one record*, each with its own memory, which a restart loses.
- *Exceptions as control*: an illegal transition raises, and the worker's
  handler turns any exception into a permanent failure.

The list of hazards with their lines, and the properties that cover each, is
`hazards` in `PROJECT.json`.

## Modules

### DayStates

`day_state_machine.py`: the states, the classes ACTIVE and AUTHORITY, and
`TRANSITIONS`, which `_transition` checks on every move.

### DayController

`LocalLLMDayProgram` for one Day other than Day 1 (Day 1 has rules of its own)
and one product run.

| TLA+ | Code |
|---|---|
| `snap`, `disk` | `self.snapshot`; what the last `_save` wrote |
| `episodes` | `RepairEpisodeStore`, saved at once on every change |
| `stopEvent`, `opEpisode` | `_stop`, `_operator_external_resume_episode_id` |
| `lockHolder` | the request that is between two of its own saves |
| `pc[w]` and the locals `inv found job key goal back result notifies` | where worker `w` is in `_execute`, and its local variables |
| `projected` | the state last projected on the run record |
| `repo gen sources retained resolved contractOK` | the world: repository fingerprint, artifacts behind evidence, authoritative sources, retained artifacts, prerequisite of the blocker, contract file |
| `execs` | how often each fingerprint reached the executor (observation only) |

A worker action ends where the code has written the snapshot or is about to
read state that another thread may have changed. Thus a crash or a request can
fall between any two saves. Two saves with nothing observable between them are
one step where their separation leaves only data no one reads: the state and the
attempt of `_execute_registered_action` (both precede the executor call, and a
crash between them leaves an attempt not begun), and the episode record and the
snapshot that names it in `_supervise_repair` (a crash between them leaves a
record nothing refers to; `episodes` holds the records a snapshot has named).
`_fail` is a step of its own (`Fail`), after which its callers look at the shared
state again (`Recheck`) as the code does. Requests hold the lock and are one step,
except the operator's retry of a review, which saves two stores and then
transitions: `OperatorResume`, `OperatorUnblock`, `OperatorLaunch`.

A resumed repair goes on with its episode only when the failure is the one the episode
was opened for (`OpenRepair`): `_supervise_repair` compares the fingerprint of item,
work order and failure excerpt, and opens another episode with a new deadline when they
differ. A strategy can be repaired more than once (the action fails again on another
input), each time under the same item id, and a resume takes the first item that bears
it. `matches` says whether the present episode was opened for that item, `left` whether
an unfinished one was left behind. A verified repair goes through the solution
catalogue, which refuses a record without a diagnosis; the exception fails the Day
(`CatalogRefuses`, here and in RepairEpisode).

Evidence is a record `<<type, generation>>`: valid while the artifact behind the
type is still of that generation. A fingerprint of an action's input is
`<<template, repository, authority resolution>>`. The executor returns any kind
of outcome with any part of the evidence its template declares. The *content* of
evidence, criteria and work orders is left out.

### RepairEpisode and RepairLadder

RepairEpisode opens the step DayController takes in `RepairVerdict`: one episode
from `_supervise_repair` to its end. `ep` is the object in the worker's hands,
`saved` the record in the episode file, and they differ exactly where the code
has not saved. `item` and `day` are the parts of the Day's snapshot a repair
writes. `runs` counts what was handed to the outside, `opened` is when the repair
was first opened, both for the properties only. Every action ends at a save or at
a call to the outside; `AddToCatalog`, `CloseEpisode` and `AcceptItem` are the three saves of
`_accept_repair` in their order. `Crash` is a restart, which marks the episode
interrupted if the Day was in REPAIR_SUPERVISOR; `Resume` comes back to
the head of `_supervise_repair` with what the file holds; `GrantReview` is the
operator's retry of a review that failed at its provider.

RepairLadder is what an episode promises seen only through its file: bounded
tries, one way up, an end, which the operator undoes once and never after a
verified one. It has no crash and no resume: RepairEpisode implements it under
the mapping `Ladder`, so crashes and resumes change nothing it can see.

### RunLifecycle and RunLog

RunLifecycle is the durable record of a product run, with the Day reduced to the
state its snapshot shows and the run it is bound to.

| TLA+ | Code |
|---|---|
| `record`, `history`, `temporary` | the run file, the version files, the `.json.tmp` of `JsonRunStore` |
| `telemetry`, `tasks` | the telemetry file; the engine's task records of the run |
| `going`, `GoCreate`, `GoStart` | `RunCoordinator.go` between the record it creates and the executor it starts |
| `pc`, `expected`, `target`, `audit` | a worker and its settlement: `expected_run_id`, the state it is about to project, how the settlement ended |
| `BindEvidence`, `Telemetry`, `Project`, `WriteHistory`, `WriteTemporary`, `ReplaceRecord` | the settlement and the three writes of an update, each a place for a crash |
| `overlapped` | has a request come before the last worker was settled? (for the properties) |

RunLog is what a run store promises: a run is created once and its states are only
appended to. RunLifecycle implements it under the mapping `Log`, which reads the
record and the version files as `versions()` does, also with a half-finished update.

### The components of the suite

Each of the following is a module of its own, parameterised by its constants, and
ControlCenter instantiates all of them. They share no state a property is
about, so a behaviour of ControlCenter picks one of them (`part`) and the other
variables stay as they begin: the state spaces add up instead of multiplying. The
header of each module says where its steps begin and end.

- **ReviewerBus** (`ReviewerBusWatcher`). `registry`, `outstanding`, `pending`,
  `processed`, `excluded` are the watcher's saved fields, `cycle` is where the poll
  is and what it has read, `posted`, `replies`, `replyIds`, `edits` are GitHub. A poll
  is `Fetch`, `Sync`, `DropPendingFile`, `SyncFiles`, `Choose`, `ContinueCodex`,
  `PostReport`, `Resolve`, `MarkApplied`; `RecoverOutstanding` is the operator's
  request. A reply can be edited, taken away or replaced at any time, a file as well as
  a comment (`ReplyChanges`); a comment is known by its id, a file by its text. Every
  change of the watcher is saved at once; `Restart` falls between any two.
- **TransportRecovery** (`TransportRecovery`, `reviewer_files.py`). `phase`,
  `child`, `attempts` are the record; `request` and `comments` the branch and the
  pull request; `inFlight` a POST that timed out and may still arrive
  (`ArrivesLate`). `Tick`, `CreateRequest`, `Post` are the tick between its
  external calls. What the bus does with a replacement is reduced to the state of
  its entry: `BusReads` (its reply file is synchronized, or its wait confirmed) does
  not ask the recovery, `BusContinues` (Codex is given the reply, and the reply marked)
  does.
- **TaskWorkflow** (`run_task`, `run_fault_repair`, `run_project_smoke`,
  `run_codex_smoke`, `run_mock`). `workflow` is the shared StateManager with its
  transition table, `spent` the usage, `saved` the last save, `call[c]` the request
  a thread serves, from one external command to the next. `Raises` is an error no
  handler catches. `cause` collects, for the property, what kept a call from its
  regular end.
- **GitCompletion** (`complete_verified_work`, `GitCompletionService`,
  `run_git_completion_validation`). `branch`, `remote`, `index`, `worktree`, `base`
  are the repository; `results` the recorded completions. Each git command may
  fail, and may time out with its work done.
- **Continuation** (goals, experiments, `run_week1_day`, `continue_autonomously`,
  Zero-Touch). `week`, `experiment`, `goals`, `zeroTouch`, `candidate` are the
  engine's data; a request is one step up to its external command and one after it. A Day of
  Week 1 is `BeginsWeek1Day` (the check of the earlier records), `RunsProgram` (the
  files it reads), on Day 4 the experiment, and `RecordsDay`: requests run on threads
  without a lock, so another one can come between check and record.
- **PlanRunner** (`DayRunner`). `plan` is the snapshot, `keptPlan` the last save,
  `loop[d]` where each loop is; `Turn`, `ArchitectChooses`, `TaskReturns`,
  `EvaluatorAnswers` go from one external call to the next. `epoch` tells a task of
  an old queue from one of the present queue; `used` counts the Codex calls really
  made; `blind` says that some call could not be seen (two loops, a restart or an
  exception during a task).
- **RunControls** (`RunExecutionComposition` with `ReviewControl`,
  `HumanDecisionControl`, `RepairRecoveryController`). One operation is one step,
  under the composition's lock. `control` is the durable record, `review`, `repair`,
  `heard`, `confirming` the controllers' memory, which `Restart` loses. At this
  commit only tests call these operations.
- **RunPreflight** (`prepare_intent`, `AuthorityFactResolver`, `day_admission`). A
  Go looks at the project for the intent, the head, the required paths, the status
  and the fingerprint; `ProjectMoves`, `RecordGrant`, `RecordObservation` and
  `ClockMoves` fall between any two of these.

### MC modules and configurations

MCDayController gives small registries: `edit`, a worktree template that needs
what the read-only `collect` collects, and evidence without a template that only
an authority supplies. MCRunLifecycle adds the symmetry of the worker threads.
MCControlCenter gives ControlCenter its two reports; the other constants are in its
configuration. RepairEpisode is small enough to be checked as it is.

## Runs

| Run | Instance | Shows |
|---|---|---|
| day_restart | one gap with a worktree template; 1 crash, 1 repository change, 1 artifact change, contract may change | no action twice, what reached the executor is on disk, completion backed, the unfinished repair is the one the snapshot names and a strategy's first repair is never left behind, a Day with a repair route left fails only under a changed contract or on a record the catalogue refuses, a restart never believes a stale completion, the work of a started worker runs out |
| day_loop | two gaps, one only an authority can close and one retained artifact may close; 1 resolved blocker; fairness | a worker that runs returns; what returned is projected; a blocked Day names its blocker; nothing runs past one |
| repair_episode | 2 proposals, 3 tries, deadline 2 ticks, 2 crashes; fairness | the eight properties of an episode, RepairLadder among them: limits, the one submission, one way up, no more work than the limits allow and one piece for each crash, an end |
| run_lifecycle | 2 runs, 2 Days, 2 workers, 1 resume, 1 crash or failed write, up to 2 task records | a COMPLETE record has its telemetry and is final, at most the current run is open, a settled Day reaches its record, and the files implement RunLog |
| control_center | the eight components of the suite, one per behaviour, with the bounds below; fairness of the transport recovery | the 14 properties below |
| day_race_twice, day_register, day_operator_crash, day_repair_and_go, day_repair_anew, repair_lost, run_go_again | as small as the disagreement needs | the findings |

The properties of control_center, by component:

| Component | Property | Says |
|---|---|---|
| all | TypesOK | the type invariants |
| TransportRecovery | PostedAtMostOnce | the trigger comment is posted once, over restarts, lost answers and retries |
| | EscalatedIsNotApplied | Codex does not apply a replacement given up, whenever its answer comes; the poll may still acknowledge it or confirm its wait |
| | RecoveryEnds | every refused report is resolved or escalated, with or without GitHub |
| ReviewerBus | ProcessedIsNotContinued | a processed report is never given to Codex again |
| | HumanWaitEndsByConfirmation | a wait for a human ends only by an applied confirmation that names it, or by an authorised recovery |
| | AppliesWhatWasBound | a reply file that has changed since it was validated is never applied, and a pending comment stays the same comment, though an edited one is applied as it reads now |
| TaskWorkflow | NextTaskCanStart | only four named causes leave the workflow where no task can start |
| GitCompletion | CompletedOnce | one commit for one piece of work, one request that reports it, and what is reported pushed is on origin |
| Continuation | DecisionNeedsRepeat | Day 7 asks for the next phase only over a repeated Day |
| | AttentionIsFinal | after a request for a person only a request that had passed its check before adds a record |
| PlanRunner | CodexLimitKept | the Codex calls really made stay within the plan's limit, over stops, resumes and restarts, unless a call could not be seen |
| RunControls | ReviewedBeforeComplete | no run is recorded COMPLETE with its review unverified, but for a foreign blocker and a restart together |
| RunPreflight | AdmittedAsGranted | a run is admitted only under a grant and an observation for the very project its admission saw |

**Bounds.** `MaxRepo`, `MaxGen`, `MaxAuth` bound changes of the world, `MaxCrash`
the restarts, `MaxTime` the clock. One change of each kind is enough to make a
fingerprint or a record stale, and a Day does the same with the second change as
with the first because it keeps only the latest inventory; one crash reaches each
gap between two saves, and RepairEpisode takes two, so that a crash of a *resumed*
episode and one after an operator's retry occur. day_restart and day_repair_anew need
a change of the repository, without which no strategy is repaired a second time. Three tries with two proposals
reach the duplicate, the refused and the exhausted local phase; a deadline of two
ticks expires in every place of the local loop. `execs` saturates at 2: beyond "more than
once" nothing is told apart. `EagerOperator` selects whether a request may come
before the last worker has returned: the pass of `ActionAtMostOnce` needs it
FALSE, and day_race_twice shows that the code does not ensure it. That what reached the
executor is on disk also with overlapping workers is the theorem ExecutedRecorded,
which has no condition; day_restart checks it over crashes.

run_lifecycle needs two runs (an older and a current record), two workers (a
settlement overtaken by the next worker) and one crash, which reaches each gap
between two file writes; a second crash meets the same files. Its three properties
on COMPLETE and open records are stated while `overlapped` is FALSE; with
overlapping settlements TLC violates two of them, which the hazards record.

The suite's bounds, each the smallest with which its case happens:

| Component | Bounds | Reaches |
|---|---|---|
| TransportRecovery | deadline 2, 2 replacements by hand, 2 restarts | the late POST of either attempt, a second replacement after the record's own, a restart before and after the POST |
| ReviewerBus | 2 reports: the first with a file reply, the second with a comment that confirms the first; 1 change of a reply, 3 Codex runs, 1 restart | a file changed after it was bound, a pending comment edited, removed or replaced, a confirmation and a recovery in either order, a repeated continuation |
| TaskWorkflow | 2 threads, 2 calls, task retry 2, fault retry 1, budget retry 2, daily limit 1, 3 Codex runs, 1 restart | overlap of any two kinds of call, a refused retry, a limit met in the middle of a call |
| GitCompletion | 2 threads, 3 requests, 1 change by others, 1 restart | two requests at every pair of git commands and a third after them |
| Continuation | 2 threads, 1 goal, 4 requests, 1 restart | a Day repeated, two requests past the same check, of which one asks for a person |
| PlanRunner | 2 loops, 2 tasks, limits 1 or 2, no failed task allowed, 1 restart | each limit met, a task of an old queue in a new plan |
| RunControls | one response, failure and message each; 2 attempts, revision 1, 2 messages heard, 1 restart | every pair of writers of the record around a review, a repeated message |
| RunPreflight | 2 contents, 1 Go, 2 grants and observations, 1 change, clock 1 | a change between any two looks, an ambiguous or expired grant |

Requests, restarts and changes by others beyond these numbers do the same steps
over the same kinds of state; that nothing new appears with them is an expectation,
not a result; the [proofs](#proofs) are what makes it one, for the safety properties.

**Fairness.** `WF_vars(WorkerStep(w))` and `WF_vars(Work)`: a started Python
thread runs until it returns or the process dies. Calls to the executor, the
reviewer and the builder are assumed to return, as their callers assume (they
carry timeouts of their own). No fairness is assumed of requests, of the clock,
of the world or of crashes, and `WorkerReturns` is checked without crashes (a
crash trivially ends a worker). `EpisodeEnds` holds without the clock's help.
The transport recovery has weak fairness of `Poll`, `TickSteps` and
`ClockAdvances`: the watcher's thread polls and ticks for as long as it runs, its
calls to GitHub have timeouts, and the wall clock advances. No success of a call
is assumed. The other components have no fairness: a caller may always stay away.

**Deadlock** is not checked: a Day that is COMPLETE, or that waits for a person,
a run that has ended and a component without further requests have nothing to do
once the bounded world has stopped changing.

Every property has a mutant of the code in the module it is about (the definitions
commented "Mutant"), which the property's run refutes; they show that each
property depends on the line it is meant to protect.

## Findings

1. *Two workers execute the same action* (day_race_twice). The snapshot enters a
   resting state before the worker has returned, so a resume in its tail starts a
   second worker; the first one, looking at the shared state again, finds it
   active and goes on.
2. *Registering evidence fails the Day for good* (day_register). Evidence
   registered between evaluation and diagnosis closes the last gap; the worker
   takes the first of no diagnoses, and the exception handler enters
   FAILED_UNRECOVERABLE.
3. *A Day that waits for nothing* (day_operator_crash). A crash in the middle of
   an operator's review retry leaves EXTERNAL_ACTION_REQUIRED without a blocker:
   Resume is not offered, and the advice still names a blocker.
4. *repair_and_go does not report* (day_repair_and_go). Its worker does not call
   the settlement notifier, so the run record keeps its old state.
5. *A resumed repair starts anew* (day_repair_anew). The second repair of a strategy is
   recorded under the id of the first; resumed after a crash, it is taken for the first
   item's, the failures differ, and a new episode with a new deadline is opened. The
   interrupted one stays unfinished. The specification says the deadline is not reset.
6. *A verified repair is lost* (repair_lost). The episode's final outcome is
   saved before the work item; after a crash in between, the episode can no longer
   be resumed and the item stays FAILED.
7. *A second Go owns nothing* (run_go_again). After a STOPPED run, go() admits and
   records a second run; start() refuses it, because the Day's snapshot still names
   the first run, and its PREFLIGHT record then blocks every later go().

### Where the document leaves it open

Two disagreements with `docs/DAY_RUNNER_EXECUTION_SPEC.md` lie on cases that
`FailureHasCause` names and lets pass:

- *No repair route left.* When a repair has tried every bounded route, the Day goes to
  HUMAN_ACTION_REQUIRED (`P:976`). The state description ("no safe repair route remains
  -> `FAILED_UNRECOVERABLE`", line 154) and the pseudo-code (lines 750-751) ask for
  the failure; lines 166 and 895 of the same document allow it only when no human or
  external authority route exists, which is what the code follows. The property says
  nothing of this case, so that it holds on either reading.
- *A verified repair the catalogue refuses.* A proposal (`local_ollama_repair.py:74`) or
  a review's guidance (`external_review.py:194`) may come without a diagnosis;
  `_accept_repair` builds the catalogue entry from it before anything of the repair is
  recorded (`P:1020`), `SolutionCatalogEntry` wants a root cause, and its
  ValidationError reaches the handler at `P:1161`, which fails the Day. Line 152 sends a
  verified repair to REVALIDATING. `CatalogRefuses` is this step; the property accepts
  it as the one failure besides a changed contract.

### Behaviour to know of

The models also have the following behaviour of the code. No document of the
repository contradicts it, so it is no finding; no property excludes it either.

- *Day controller.* With two workers over one snapshot, one may complete the Day, the
  contract then change, and the other's preflight empty the evidence in memory while
  the state is still COMPLETE; the first one's settlement saves that. A restart does
  not believe it (`RestartRevalidates`).
- *Task engine.* A retry of a task that is blocked (call limit, budget, missing
  context, router) is a transition RUNNING_TEST → HUMAN_REVIEW, which the table does
  not have: the request raises without a record and no task can start any more,
  also after a restart, which comes back to the last save. The results of two
  overlapping calls mix. A commit made by Codex hides a change outside the scope
  from a guard that compares `git status`; the smoke does not look at dirty files
  that have gone.
- *Git completion.* A recorded BLOCKED or COMMITTED result is never retried and yet
  stays the first candidate, so continue_autonomously stays with it. Files are
  compared by name only.
- *Continuation.* Overlapping requests for a Day of Week 1 all pass the check for a
  record that asks for a person, and each adds its own after it. A refused Week 1 Day
  raises KeyError (`engine.py:560`). Zero-Touch is COMPLETE whatever its experiment
  came to.
- *Day plans.* A task refused by the evaluator's limit, or cut off by a restart,
  stays RUNNING; a plan in HUMAN_REVIEW cannot be left.
- *Run controls.* A repair, a human decision or a projection replaces the review's
  blocker; with a restart, which forgets the review, the run can become COMPLETE. A
  review whose continuation failed stays APPLIED. A decision of an old revision can
  be confirmed after a newer one was bound. begin_repair resets exhausted attempts.
  A late confirmation or review moves a COMPLETE record back.
- *Admission.* An unreadable grant after a first match hides that the grants are
  ambiguous. Grants are create-only, so a stored one cannot be revoked. Only Day 6
  has required paths, so no other Day is ever admitted. Day 1's intent fingerprint
  includes `conftest.py` (`engine.py:191`) and its admission's does not.
- *Run record.* After a crash between the version file and the record, every later
  update of the run is refused.
- *Reviewer bus.* A pending comment that was edited is read again and applied as it
  reads then. Between the continuation and its mark, a restart repeats Codex and
  the post. A crash inside the mark can leave a confirmation whose target no longer
  waits, which blocks the bus.

## Proofs

Every invariant and every action property that a passing run checks is also a
theorem, checked by TLAPS for every value of the constants. No assumption is made
but the typing of the constants (the named `...Assumption`s, which the runs
evaluate too) and what the tables say.

A proof module EXTENDS or INSTANCEs the modules it is about; it has one lemma per
action, or per group of actions, and the step of the inductive invariant combines
them. The four modules about ControlCenter are a chain by EXTENDS (Reviewer_proofs,
PlanRunner_proofs, Engine_proofs, RunGates_proofs), each using the lemmas of those
before it; the last one puts the components' types together.

### The Day controller (DayController_proofs, DayStages_proofs)

| Theorem | States | Under |
|---|---|---|
| TypeCorrect | TypeOK | – |
| ExecutedRecorded | ExecutedIsRecorded | – |
| Revalidates | RestartRevalidates | – |
| AtMostOnce | ActionAtMostOnce | `~EagerOperator` |
| NotBlocked | NoActionWhileBlocked | `~EagerOperator` |
| OneRepair | OneUnfinishedRepair | `~EagerOperator` |
| FailsForCause | FailureHasCause | `~EagerOperator`, nothing to register |
| NamesBlocker | AuthorityNamesItsBlocker | `~EagerOperator`, no crash |
| Projected | ReturnedIsProjected | `~EagerOperator`, one worker thread |
| CompletionBacked | CompletionIsBacked | `~EagerOperator`, or a contract and repository that stay |
| RunsOut | WorkRunsOut | `~EagerOperator` |

`~EagerOperator` says that no request is accepted before the last worker has
returned. The code does not ensure it, and findings 1, 2 and 3 show that the
conditions of AtMostOnce, FailsForCause and NamesBlocker are needed: with an eager
operator, with a record to register or with a crash, TLC violates them. So is that
of CompletionBacked: with an eager operator and a contract that changes, TLC finds a
COMPLETE snapshot without evidence (see
[behaviour to know of](#behaviour-to-know-of)) in an instance too large to be one of
the runs. Under `~EagerOperator` threads never overlap, so that Projected's single
thread is no loss.

- `JobOK`: a worker at a step that uses its job, key or result has a real one.
  `TypeOK` alone is not inductive, because the steps apply functions to the job.
- `Logged`, for ExecutedRecorded: every attempt on disk is in memory too, so that a
  later save cannot take it out, and a worker at `run` or `result` has its key's
  attempt on disk.
- `Serial`, for AtMostOnce: at most one worker is not idle, a request between its
  saves means that all have returned, a key at `begin` has no attempt yet, and one
  at `run` has not been executed.
- `Controlled`, for the blocker and failure properties: the table `Stage` gives the
  states the Day can have for each place of a worker (`Staged`), and what restarts
  depend on is on disk (`Durable`). Neither is inductive alone: that a transition is legal
  depends on the place, and what a restart puts there on the disk.
- `Repairs`, for OneRepair: an unfinished repair is the one the snapshot names, and
  somebody carries it (`Pending`): a restart or the operator marked it interrupted, a
  worker is at it (`Repairing`), or the Day has failed for good. An episode that was
  left behind, or is not for its strategy's first item, is of a strategy with two items
  (`Twice`): by `Repairing`, a worker that comes to a repair by a failure of its own
  finds no episode unfinished, so only a resume can leave one.
- For RunsOut, a step is measured twice. `NothingBack`: what is left to be done (the
  inputs not attempted, the failures not repaired, the interruptions not taken up)
  only shrinks while a worker is under way. `StepsAhead` ranks the places of a worker
  by the steps left to it before it spends some of that or returns, at most fourteen;
  `WorkerAdvances` shows that each step spends or goes down in rank, and `Resuming`,
  that a worker on its way back to a repair has an interrupted one, is the invariant
  the rank needs. `WorkKept` excludes everything else that could happen meanwhile.
  With the fairness of a started thread this is why `WorkerReturns` holds; that last,
  temporal, step is the part left to TLC.
- `ContractFailed`, `Named` and `Backed` are the properties strengthened by the
  places between evaluation and diagnosis, by the request that holds the lock, and
  by the snapshot in memory.

### Repair episodes (RepairEpisode_proofs)

For every set of proposals, limit, deadline and number of crashes: `TypeCorrect`,
`Loadable` (the file stays within the schema it is read back with), `ReviewOnce`,
`WorkBounded`, the action properties `Escalation`, `Bounded` and `EndsInSteps`, and
`Refinement`, that Spec implements RepairLadder step by step. One inductive
invariant, `IInv`, has three parts besides the properties themselves: `Linked` (what the worker holds is what is saved, but for the flag a resume clears
and for the expert's verified answer until it is accepted), `Staged` (where the
worker is tells how far the saved episode has come; it makes the limit on tries
inductive, since the test of the loop and the recorded try are different steps), and
`Reviewed` (the announced phase, the artifact and the number of submissions go
together; it makes the single submission inductive).

WorkBounded adds a balance, `Counted`: the work handed out (`Spent`) is at most the
work whose outcome is on record (`Recorded`), the piece under way (`Pending`) and one
piece for each crash. Every step moves work from one of these to the next, and only a
crash loses the piece under way. Nothing takes work off the record: the operator's
retry, which clears the review's phase, needs a review that failed at its provider,
after which no builder was started. The record has room for the tries, one expert and
one builder (`RoomOnRecord`), which gives the bound.

EndsInSteps (RepairRunsOut) is a measure: three steps for each try that is left and
those ahead at the worker's place. A step that records a try may go back by two places
and still has less before it; that no try beyond the limit is recorded, and that a
running repair has a worker (`Carried`), is what the invariants are needed for.

### The run's record (RunLifecycle_proofs)

For every set of runs, Days and workers, any number of crashes, failed writes and
resumes: `LifecycleTypes`, `FilesAreALog` (the files implement RunLog),
`CompletionHasTelemetry`, `OneRunOpen`, `CompletionIsFinal` and
`SettlementIsRecorded`.

- `Typed` and `Placed`: a run file is missing, unfinished or a whole record; a
  writer's run has a whole one, the lock admits one writer, and runs are created in
  order.
- `Kept`: the version files hold every state a record has left, one per version, and
  the present one only while an update is under way or has failed. With it every one
  of the three writes of an update maps to an append or to a stutter of RunLog.
- `Solo`: unless settlements overlap, at most one worker settles, and `Settling` says
  what its settlement knows at each place: past `bind` the facts, past `telemetry`
  the file. It carries the telemetry property over the crash points.
- `Owned` and `Quiet`, for SettlementIsRecorded: which run the Day, a worker and a Go
  are about, and, while nothing has crashed or raised, that an update cannot fail and
  ends in the state of the Day.

### The components of the suite

Their theorems are about ControlCenter's Spec and the properties its run checks. The
lemma `...Part` of each component says that ControlCenter begins as the component does
and that each of its steps is a step of the component or leaves it alone;
`...Invariant` is the component's inductive invariant from it. The constants' typing
comes from `ControlCenterAssumption`.

### The reviewer's side (Reviewer_proofs)

TransportRecovery: `TriggeredOnce`, `GivenUpForGood` and `RecoveryTypes`, from
`Counted` (the counters and the phases), `Announced` (a POST is only ahead of a
record that says POSTING; before that phase is saved there was none) and `GivenUp`
(the property itself: only `BusContinues` applies, and it asks the recovery).

ReviewerBus: `BusKeepsTypes`, `ProcessedForGood`, `WaitEndsByConfirmation` and
`BoundIsApplied`, for any number of reports, edits, Codex runs and restarts. The
invariant follows a reply through the poll: `Fetched` (the reports read are still
there; their replies may not be), `Synchronized` and `Validated` (what the poll has established of a report
and of its reply; a pending file still reads as it was bound), `Bound` (a pending reply is
of an outstanding report that is not processed), `Handling` (the report handed to Codex is
the pending one), `Settled` (a processed report is never eligible again). The
properties relate a late step of the poll to what an early one has read, and each of
these parts carries that over one stretch of it. That a pending comment is replaced
only by itself comes from the poll's own comparison of ids (`PendingFits`). The bus takes
the least report of several; that there is one is the library's theorem on
well-founded relations (`LeastNat`).

### What stands before a run and beside it (RunGates_proofs)

`ReviewedFirst` and `RunControlsTypes` (RunControls): by `Remembered`, an unverified review is known both by
the record's blocker, until another control takes it over, and by the process,
until a restart; only both together make the property's exception. The types need
`RepairTypes`: a failure was tried at most as often as attempts were made, which
bounds the tries of an episode however often it is begun again.

`AdmittedUnderGrant` and `AdmissionTypes` (RunPreflight): `Matched` and `Resolved`
say of a Go under way that what it has found so far was recorded for the fingerprint
of its own intent; `OneGo`, that while it is under way no run is in PREFLIGHT, so the
fact record it writes is of no admitted run; `Backed` is the property with the fact
record. The types need that a head and a contract are no newer than the project's
moves allow, and that the sets of grants and observations, from whose size the id of a
new record comes, stay finite.

`SuiteTypes`: every variable of every component keeps its type (`TypesOK`). It puts
together the components' type theorems: `RecoveryTypes`, `BusKeepsTypes`, `PlanTypes`,
`ContinuationTypes`, `CompletionTypes`, `WorkflowTypes` and the two above.

### Day plans (PlanRunner_proofs)

`PlanTypes` and `LimitIsKept`. `Seen`: unless some call could not be seen, at most one
loop is at work, the count is what was used, what the loop's task may still use fits
in the limit, and the saved snapshot has the count too, except while the evaluator
is asked. The property alone is not inductive: a call is allowed by a number
looked up before the task that uses it.

### The engine (Engine_proofs)

For any number of threads, requests and restarts; only the types use the assumptions
on the constants:

- Continuation: `DecisionOverRepeats` and `AttentionEndsTheWeek`. `Weekly` adds to the two
  properties that only Days 4 and 6 can complete (`Completable`) and what a Day under way
  carries (`Began`): its check came before any record that asks for a person
  (`Checked`), and once it is about to be recorded, its status is one its Day can have,
  a request for a decision only over a repeat (`Recordable`). That Day 7 finds a
  repeat is then a pigeonhole argument: three completions of two Days (`ThreeRepeat`).
  `ContinuationTypes`: every record costs a request, so the records written and the
  Days under way are at most the requests made (`Enough`).
- GitCompletion: `CommittedOnce`. While nobody else touches it, the work is all in the
  worktree or all in the one commit (`InOnePlace`), and the commit is the claim of one
  request, which it holds until it reports it (`OneClaim`); `OnBranch` and `OnOrigin`
  place the reported commits. `CompletionTypes`: no request knows a base that was not
  there or a commit beyond the branch (`GitBounded`).
- TaskWorkflow: `WorkflowIsLeftStartable`. `Orderly`, as long as no cause has occurred:
  one call at a time; where it is determines the workflow's state, with the retry of
  a task in RUNNING_TEST; with no call, the workflow and what was saved are states a
  task can start from. `Reaches` and its lemmas give the state a path of transitions
  ends in. `WorkflowTypes`: however many transitions are refused, `Furthest` is one of
  the workflow's states, and a call past its prechecks has a retry left (`Held`).

### Only model-checked

- The liveness properties `WorkerReturns`, `EpisodeEnds`, `RecoveryEnds`: fairness and
  ENABLED are out of the prover's reach. `WorkRunsOut` and `RepairRunsOut` are the parts
  of the first two that are safety. The third rests on the clock alone: a tick after
  the deadline settles the record.
- The findings' runs: a counterexample needs no proof.

## Not modelled

- In DayController: Day 1's own rules, smoke, planning of work items (select_day is
  in RunLifecycle, prepare_intent in RunPreflight), and `_replacement_retry` (a registered template replaced by another).
- Exceptions raised by the executor, the inventory or a store: the handler sends
  them all to FAILED_UNRECOVERABLE, which would make the property about it say
  nothing; the exceptions the controller causes itself (illegal transitions, an
  empty list, a record the catalogue refuses) are modelled.
- I/O errors of the Day's stores, which the stores swallow. (RunLifecycle has those
  of the run and telemetry files.)
- The content of evidence, proposals, reviews, reports and work orders: parsing and
  validation. A report or a reply is valid, invalid in one way the code tells apart,
  or absent.
- The action executor, the evidence adapters, the Codex runner, the providers of
  architect and evaluator: calls whose outcome is any the caller distinguishes.
- The HTTP routes, the frontend and the read models: requests are actions here, and
  reading changes nothing.
- `run_escalation_validation` (it touches nothing another component reads), the
  dynamic work orders of the engine (external to DayController), the audit
  timeline, migrations of old state files, `checkpoint()` of `day_git.py` (inside one
  action of the executor).
- In RunControls: ids bound to another run, `ReviewControl.check_deadline` and
  `HumanDecisionControl.mark_delivery_failure`, which nothing calls.

## Plan

The modelling is done: DayStates, DayController, RepairLadder, RepairEpisode,
RunLog, RunLifecycle and the eight components of the suite. Every safety property
of the runs is proved. What would say more, in order of importance:

1. What overlapping workers leave: with an eager operator only the types,
   `ExecutedIsRecorded`, `RestartRevalidates` and, for a contract and repository that
   stay, `CompletionIsBacked` are theorems of the Day controller.
2. Fairness: that the worker's steps are enabled until it returns, from which the
   measures `WorkRunsOut` and `RepairRunsOut` would give the liveness properties. It
   needs a prover for ENABLED.
