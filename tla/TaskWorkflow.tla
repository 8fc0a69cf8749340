---------------------------- MODULE TaskWorkflow ----------------------------
(* The guarded task engine: run_task, run_fault_repair, run_project_smoke,      *)
(* run_codex_smoke and run_mock of backend/orchestrator/engine.py, with the     *)
(* StateManager of backend/orchestrator/state_machine.py they all share.        *)
(*                                                                              *)
(* A call is one request, on a thread of its own; nothing keeps two of them     *)
(* apart, and the state machine is one for all.  A step goes from one external  *)
(* command (git, a check, Codex) to the next.  A transition the table does not  *)
(* have raises InvalidTransition, and the handlers catch only some errors of    *)
(* the operating system: the call then ends where it is, without a record.      *)
EXTENDS FiniteSets, Naturals, Sequences

CONSTANTS
  Caller,        \* threads that serve a request
  MaxRetry,      \* max_retry of the configured task and of the fault
  BudgetRetry,   \* codex.max_retry of the budget
  DailyLimit,    \* the daily budget, in Codex runs
  MaxCalls,      \* bound: calls
  MaxSpent,      \* bound: Codex runs
  MaxRestart     \* bound: restarts

Kind == {"task", "fault", "smoke"}

TaskAssumption ==
  /\ IsFiniteSet(Caller) /\ MaxRetry \in [{"task", "fault"} -> Nat] /\ BudgetRetry \in Nat
  /\ DailyLimit \in Nat /\ MaxCalls \in Nat /\ MaxSpent \in Nat /\ MaxRestart \in Nat

VARIABLES
  workflow,      \* the state of the StateManager
  spent,         \* day_usage
  saved,         \* the state and the usage of the last save
  mockDone,      \* is the mock task COMPLETE?
  call,          \* what each thread is doing
  record,        \* the last record a call has appended
  calls, recoveries,
  cause          \* what has kept a call from its regular end: a restart, an
                 \* overlap of two calls, a blocked retry, an uncaught error

taskVars == <<workflow, spent, saved, mockDone, call, record, calls, recoveries, cause>>

Workflow == {"IDLE", "PLANNING", "PRECHECK", "RUNNING_TEST", "TRIAGE", "CODEX_FIX", "EVALUATING",
             "COMPLETE", "HUMAN_REVIEW", "FAILED", "STOPPED"}

(* A worktree: nothing changed; changes in scope, or out of it; out of it but   *)
(* committed by Codex; a change of its owner, dirty before the run, gone.       *)
Tree == {"clean", "in", "out", "committed", "lost"}

Idle == [at |-> "idle", kind |-> "task", retry |-> 0, tree |-> "clean", fixed |-> FALSE]
NoRecord == [result |-> "NONE", tree |-> "clean", fixed |-> FALSE]

Init ==
  /\ workflow = "IDLE" /\ spent = 0 /\ saved = [state |-> "IDLE", spent |-> 0]
  /\ mockDone = FALSE
  /\ call = [c \in Caller |-> Idle] /\ record = NoRecord
  /\ calls = 0 /\ recoveries = 0 /\ cause = {}

(* The transition table.                                                        *)
Transitions ==
  [IDLE         |-> {"PLANNING", "STOPPED"},
   PLANNING     |-> {"PRECHECK", "HUMAN_REVIEW", "STOPPED"},
   PRECHECK     |-> {"RUNNING_TEST", "HUMAN_REVIEW", "FAILED", "STOPPED"},
   RUNNING_TEST |-> {"COMPLETE", "TRIAGE", "EVALUATING", "FAILED", "STOPPED"},
   TRIAGE       |-> {"CODEX_FIX", "HUMAN_REVIEW", "FAILED", "STOPPED"},
   CODEX_FIX    |-> {"RUNNING_TEST", "HUMAN_REVIEW", "FAILED", "STOPPED"},
   EVALUATING   |-> {"COMPLETE", "CODEX_FIX", "HUMAN_REVIEW", "FAILED", "STOPPED"},
   COMPLETE     |-> {"IDLE"},
   HUMAN_REVIEW |-> {"IDLE", "STOPPED"},
   FAILED       |-> {"IDLE", "STOPPED"},
   STOPPED      |-> {"IDLE"}]

(* A sequence of transitions, and the state where an illegal one leaves it.     *)
Legal(s, path) == \A i \in 1..Len(path) : path[i] \in Transitions[(<<s>> \o path)[i]]

Furthest(s, path) ==
  LET n == CHOOSE n \in 0..Len(path) : /\ Legal(s, SubSeq(path, 1, n))
                                       /\ n = Len(path) \/ ~Legal(s, SubSeq(path, 1, n + 1))
  IN  (<<s>> \o path)[n + 1]

Startable == {"IDLE", "COMPLETE", "HUMAN_REVIEW", "FAILED", "STOPPED"}
Busy == \E c \in Caller : call[c].at # "idle"

At(c, kind, at) == call[c].kind = kind /\ call[c].at = at

(* The transitions of a step.  With all of them made the call goes on, appends  *)
(* its record and saves, or saves and starts Codex; else it is gone.            *)
GoesOn(c, path, next) ==
  /\ workflow' = Furthest(workflow, path)
  /\ call' = [call EXCEPT ![c] = IF Legal(workflow, path) THEN next ELSE Idle]
  /\ UNCHANGED <<saved, record>>

Ends(c, path, result) ==
  /\ workflow' = Furthest(workflow, path)
  /\ call' = [call EXCEPT ![c] = Idle]
  /\ IF Legal(workflow, path)
     THEN /\ record' = [result |-> result, tree |-> call[c].tree, fixed |-> call[c].fixed]
          /\ saved' = [state |-> workflow', spent |-> spent']
     ELSE UNCHANGED <<record, saved>>

StartsCodex(c, path) ==
  /\ workflow' = Furthest(workflow, path)
  /\ call' = [call EXCEPT ![c] = IF Legal(workflow, path) THEN [@ EXCEPT !.at = "codex"] ELSE Idle]
  /\ saved' = IF Legal(workflow, path) THEN [state |-> workflow', spent |-> spent] ELSE saved
  /\ UNCHANGED record

others == <<mockDone, calls, recoveries, cause>>
-----------------------------------------------------------------------------
(* A request: what is wrong with its configuration or its source checkout ends  *)
(* it with a record and no transition; else the workflow is reset and planned.  *)
Reset == IF workflow = "IDLE" THEN <<>> ELSE <<"IDLE">>

Begins(c, path, next) ==
  /\ call[c].at = "idle" /\ calls < MaxCalls /\ calls' = calls + 1
  /\ cause' = IF Busy THEN cause \cup {"overlap"} ELSE cause
  /\ GoesOn(c, Reset \o path, next)
  /\ UNCHANGED <<spent, mockDone, recoveries>>

NotConfigured(c, results) ==
  /\ call[c].at = "idle" /\ calls < MaxCalls /\ calls' = calls + 1
  /\ \E result \in results : record' = [NoRecord EXCEPT !.result = result]
  /\ saved' = [state |-> workflow, spent |-> spent]
  /\ UNCHANGED <<workflow, call, spent, mockDone, recoveries, cause>>

StartTask(c) ==
  \/ NotConfigured(c, {"FAILED", "HUMAN_REVIEW"})
  \/ Begins(c, <<"PLANNING">>, [Idle EXCEPT !.at = "worktree"])

StartFault(c) ==
  \/ NotConfigured(c, {"FAILED", "HUMAN_REVIEW"})
  \/ Begins(c, <<"PLANNING">>, [Idle EXCEPT !.kind = "fault", !.at = "worktree"])

(* A smoke asks for its budget first.                                           *)
StartSmoke(c) ==
  \/ NotConfigured(c, {"FAILED"})
  \/ /\ spent <= DailyLimit /\ BudgetRetry > 0
     /\ Begins(c, <<"PLANNING", "PRECHECK">>, [Idle EXCEPT !.kind = "smoke", !.at = "precheck"])

(* git worktree add, and the directory to work in.                              *)
TaskWorktree(c) ==
  /\ At(c, "task", "worktree") /\ UNCHANGED <<spent, others>>
  /\ \/ Ends(c, <<"HUMAN_REVIEW">>, "HUMAN_REVIEW")
     \/ \E fixed \in BOOLEAN :
          GoesOn(c, <<"PRECHECK">>, [call[c] EXCEPT !.fixed = fixed, !.at = "precheck"])

FaultWorktree(c) ==
  /\ At(c, "fault", "worktree") /\ UNCHANGED <<spent, others>>
  /\ \/ Ends(c, <<"HUMAN_REVIEW">>, "HUMAN_REVIEW")
     \/ GoesOn(c, <<"PRECHECK">>, [call[c] EXCEPT !.fixed = TRUE, !.at = "baseline"])

(* The clean worktree must pass before the fault is injected.                   *)
Baseline(c) ==
  /\ At(c, "fault", "baseline") /\ UNCHANGED <<spent, others>>
  /\ \/ Ends(c, <<"HUMAN_REVIEW">>, "HUMAN_REVIEW")
     \/ GoesOn(c, <<>>, [call[c] EXCEPT !.at = "precheck", !.fixed = FALSE])

(* The check before the repair.  A task that passes it is done; a fault or a    *)
(* fixture that passes it is not what it should be.                             *)
TaskPrecheck(c) ==
  /\ At(c, "task", "precheck") /\ UNCHANGED <<spent, others>>
  /\ \/ call[c].fixed /\ Ends(c, <<"RUNNING_TEST", "COMPLETE">>, "COMPLETE_NO_CHANGE")
     \/ Ends(c, <<"RUNNING_TEST", "TRIAGE", "HUMAN_REVIEW">>, "HUMAN_REVIEW")
     \/ Ends(c, <<"RUNNING_TEST", "TRIAGE", "FAILED">>, "FAILED")
     \/ GoesOn(c, <<"RUNNING_TEST", "TRIAGE">>, [call[c] EXCEPT !.at = "authorize"])

FaultPrecheck(c) ==
  /\ At(c, "fault", "precheck") /\ UNCHANGED <<spent, others>>
  /\ \/ Ends(c, <<"RUNNING_TEST", "FAILED">>, "FAILED")
     \/ Ends(c, <<"RUNNING_TEST", "TRIAGE", "HUMAN_REVIEW">>, "HUMAN_REVIEW")
     \/ GoesOn(c, <<"RUNNING_TEST", "TRIAGE">>, [call[c] EXCEPT !.at = "authorize"])

SmokePrecheck(c) ==
  /\ At(c, "smoke", "precheck") /\ UNCHANGED <<spent, others>>
  /\ \/ Ends(c, <<"FAILED">>, "FAILED")
     \/ StartsCodex(c, <<"RUNNING_TEST", "TRIAGE", "CODEX_FIX">>)
-----------------------------------------------------------------------------
(* TokenBudgetManager.check, for a call that has asked for nothing yet.         *)
Exceeded(retry) == retry >= BudgetRetry \/ spent > DailyLimit

(* The guards before a Codex run: for a task the call limit of a Day plan and   *)
(* the model router, for both the budget and the context files.  A task is      *)
(* still in RUNNING_TEST when its retry is blocked, and HUMAN_REVIEW is not     *)
(* reached from there.                                                          *)
AuthorizeTask(c) ==
  /\ At(c, "task", "authorize") /\ UNCHANGED <<spent, mockDone, calls, recoveries>>
  /\ \/ /\ Ends(c, <<"HUMAN_REVIEW">>, "HUMAN_REVIEW")
        /\ cause' = IF call[c].retry > 0 THEN cause \cup {"blocked_retry"} ELSE cause
     \/ /\ ~Exceeded(call[c].retry)
        /\ StartsCodex(c, IF workflow = "RUNNING_TEST" THEN <<"TRIAGE", "CODEX_FIX">> ELSE <<"CODEX_FIX">>)
        /\ UNCHANGED cause

AuthorizeFault(c) ==
  /\ At(c, "fault", "authorize") /\ UNCHANGED <<spent, others>>
  /\ \/ Ends(c, <<"HUMAN_REVIEW">>, "HUMAN_REVIEW")
     \/ ~Exceeded(call[c].retry) /\ StartsCodex(c, <<"CODEX_FIX">>)

(* What git status shows of the worktree after Codex, against what it showed    *)
(* before: a commit hides a change, and a smoke does not look for what is gone. *)
Changed(tree) == IF tree \in {"committed", "lost"} THEN "clean" ELSE tree

(* ScopeGuard.check of the changed files.                                       *)
ScopeAllowed(tree) == Changed(tree) # "out"

(* Codex: it fails, breaks the worktree or its scope, or it is checked; its     *)
(* usage is recorded in each case.                                              *)
Codex(c, trees) ==
  /\ spent < MaxSpent /\ spent' = spent + 1 /\ UNCHANGED others
  /\ \/ Ends(c, <<"FAILED">>, "FAILED")
     \/ Ends(c, <<"HUMAN_REVIEW">>, "HUMAN_REVIEW")
     \/ \E tree \in trees, fixed \in BOOLEAN :
          /\ ScopeAllowed(tree)
          /\ GoesOn(c, <<"RUNNING_TEST">>,
                    [call[c] EXCEPT !.at = "postcheck", !.tree = tree, !.fixed = fixed])

RunTaskCodex(c) == At(c, "task", "codex") /\ Codex(c, Tree \ {"lost"})
RunFaultCodex(c) == At(c, "fault", "codex") /\ Codex(c, Tree \ {"lost"})
RunSmokeCodex(c) == At(c, "smoke", "codex") /\ Codex(c, Tree)

(* The check after the repair.  A failed one is retried while max_retry allows: *)
(* a task stays in RUNNING_TEST for it, a fault returns to TRIAGE.  A fault is  *)
(* complete only with its file as it was.                                       *)
TaskPostcheck(c) ==
  /\ At(c, "task", "postcheck") /\ UNCHANGED <<spent, others>>
  /\ \/ call[c].fixed /\ Ends(c, <<"COMPLETE">>, "COMPLETE")
     \/ /\ call[c].retry >= MaxRetry["task"]
        /\ Ends(c, <<"TRIAGE", "HUMAN_REVIEW">>, "HUMAN_REVIEW")
     \/ /\ call[c].retry < MaxRetry["task"]
        /\ GoesOn(c, <<>>, [call[c] EXCEPT !.at = "authorize", !.retry = @ + 1])

(* Mutant: a fault, like a task, keeps its state for the retry.                 *)
FaultRetryInPlace == <<>>

FaultRetryPath == <<"TRIAGE">>

FaultPostcheck(c) ==
  /\ At(c, "fault", "postcheck") /\ UNCHANGED <<spent, others>>
  /\ \/ call[c].fixed /\ Ends(c, <<"EVALUATING", "HUMAN_REVIEW">>, "HUMAN_REVIEW")
     \/ call[c].fixed /\ Ends(c, <<"EVALUATING", "COMPLETE">>, "COMPLETE")
     \/ /\ call[c].retry >= MaxRetry["fault"]
        /\ Ends(c, <<"TRIAGE", "HUMAN_REVIEW">>, "HUMAN_REVIEW")
     \/ /\ call[c].retry < MaxRetry["fault"]
        /\ GoesOn(c, FaultRetryPath, [call[c] EXCEPT !.at = "authorize", !.retry = @ + 1])

SmokePostcheck(c) ==
  /\ At(c, "smoke", "postcheck") /\ UNCHANGED <<spent, others>>
  /\ \/ call[c].fixed /\ Ends(c, <<"COMPLETE">>, "COMPLETE")
     \/ ~call[c].fixed /\ Ends(c, <<"FAILED">>, "FAILED")

(* A command or a directory fails in a way its caller does not catch.           *)
Raises(c) ==
  /\ call[c].at \in {"worktree", "baseline", "precheck", "postcheck"}
  /\ call' = [call EXCEPT ![c] = Idle]
  /\ cause' = cause \cup {"raised"}
  /\ UNCHANGED <<workflow, spent, saved, mockDone, record, calls, recoveries>>
-----------------------------------------------------------------------------
(* run_codex_smoke: budget and save, but no workflow; only the usage of a run   *)
(* that completed is recorded.                                                  *)
CodexSmoke ==
  /\ spent < MaxSpent /\ ~Exceeded(0)
  /\ spent' \in {spent, spent + 1}
  /\ saved' = [state |-> workflow, spent |-> spent']
  /\ UNCHANGED <<workflow, call, record, others>>

(* run_mock: the whole workflow of the mock task, once, without a command.      *)
RunMock ==
  LET over == spent > DailyLimit
      path == Reset \o <<"PLANNING", "PRECHECK", "RUNNING_TEST", "TRIAGE", "CODEX_FIX">>
              \o IF over THEN <<"HUMAN_REVIEW">> ELSE <<"RUNNING_TEST", "EVALUATING", "COMPLETE">>
  IN
  /\ ~mockDone
  /\ workflow' = Furthest(workflow, path)
  /\ cause' = IF Busy THEN cause \cup {"overlap"} ELSE cause
  /\ mockDone' = (Legal(workflow, path) /\ ~over)
  /\ saved' = IF Legal(workflow, path) THEN [state |-> workflow', spent |-> spent] ELSE saved
  /\ UNCHANGED <<spent, call, record, calls, recoveries>>

(* discover_failing_task; every part of the engine saves the whole state.       *)
Discover ==
  /\ saved' = [state |-> workflow, spent |-> spent]
  /\ UNCHANGED <<workflow, spent, call, record, others>>

(* A restart: the threads are gone, the workflow is where it was saved.         *)
Restart ==
  /\ recoveries < MaxRestart /\ recoveries' = recoveries + 1
  /\ workflow' = saved.state /\ spent' = saved.spent
  /\ call' = [c \in Caller |-> Idle]
  /\ cause' = IF Busy THEN cause \cup {"restart"} ELSE cause
  /\ UNCHANGED <<saved, mockDone, record, calls>>

Next ==
  \/ \E c \in Caller :
       \/ StartTask(c) \/ StartFault(c) \/ StartSmoke(c)
       \/ TaskWorktree(c) \/ FaultWorktree(c) \/ Baseline(c)
       \/ TaskPrecheck(c) \/ FaultPrecheck(c) \/ SmokePrecheck(c)
       \/ AuthorizeTask(c) \/ AuthorizeFault(c)
       \/ RunTaskCodex(c) \/ RunFaultCodex(c) \/ RunSmokeCodex(c)
       \/ TaskPostcheck(c) \/ FaultPostcheck(c) \/ SmokePostcheck(c) \/ Raises(c)
  \/ CodexSmoke \/ RunMock \/ Discover \/ Restart

Spec == Init /\ [][Next]_taskVars
-----------------------------------------------------------------------------
Results == {"NONE", "COMPLETE", "COMPLETE_NO_CHANGE", "HUMAN_REVIEW", "FAILED"}

TypeOK ==
  /\ workflow \in Workflow /\ spent \in 0..MaxSpent
  /\ saved \in [state : Workflow, spent : 0..MaxSpent] /\ mockDone \in BOOLEAN
  /\ call \in [Caller -> [kind : Kind, retry : 0..BudgetRetry, tree : Tree, fixed : BOOLEAN,
       at : {"idle", "worktree", "baseline", "precheck", "authorize", "codex", "postcheck"}]]
  /\ record \in [result : Results, tree : Tree, fixed : BOOLEAN]
  /\ calls \in 0..MaxCalls /\ recoveries \in 0..MaxRestart
  /\ cause \subseteq {"overlap", "restart", "blocked_retry", "raised"}

(* Only an overlap of two calls, a restart during one, the blocked retry of a   *)
(* task or an uncaught error can leave the workflow where no task can start.    *)
NextTaskCanStart == ~Busy /\ workflow \notin Startable => cause # {}
=============================================================================
