---------------------------- MODULE GitCompletion ----------------------------
(* The completion of verified work: complete_verified_work and                  *)
(* run_git_completion_validation of backend/orchestrator/engine.py and          *)
(* GitCompletionService of backend/control/git_completion.py, over one task run *)
(* whose worktree passed its checks.                                            *)
(*                                                                              *)
(* Requests run on threads of their own and nothing keeps two of them apart: a  *)
(* result is looked up when a request begins and recorded when it ends, and a   *)
(* step goes from one git command that changes something to the next.  A git    *)
(* command may fail, and may time out with its work done.                       *)
EXTENDS FiniteSets, Naturals, Sequences

CONSTANTS
  Requester,     \* threads that serve a request
  MaxTouches,    \* bound: changes of the worktree or the base branch by others
  MaxRequests,   \* bound: requests
  MaxStops       \* bound: restarts

CompletionAssumption ==
  IsFiniteSet(Requester) /\ MaxTouches \in Nat /\ MaxRequests \in Nat /\ MaxStops \in Nat

VARIABLES
  branch,        \* the agent branch: the content of each commit made on it
  remote,        \* how many of them are on origin
  index,         \* what is staged
  worktree,      \* what the worktree differs from HEAD in
  base,          \* the commit the base branch is at
  completing,    \* what each thread is doing
  results,       \* the recorded completions, the oldest first
  touches, requests, stops

completionVars == <<branch, remote, index, worktree, base, completing, results, touches, requests, stops>>

(* Nothing; the verified content; other content of the same files; other files. *)
Content == {"none", "verified", "edited", "other"}
Resting == [at |-> "idle", base |-> 0, sha |-> 0]

Init ==
  /\ branch = <<>> /\ remote = 0 /\ index = "none" /\ worktree = "verified" /\ base = 0
  /\ completing = [c \in Requester |-> Resting] /\ results = <<>>
  /\ touches = 0 /\ requests = 0 /\ stops = 0

repository == <<branch, remote, index, worktree, base>>
bounds == <<touches, requests, stops>>

Later(a, b) == IF a < b THEN b ELSE a
Continues(c, next) == completing' = [completing EXCEPT ![c] = next] /\ UNCHANGED results

(* _record_git_completion appends the result and saves.                         *)
Record(c, status) ==
  /\ completing' = [completing EXCEPT ![c] = Resting]
  /\ results' = Append(results, [status |-> status, sha |-> completing[c].sha, fixture |-> FALSE])
-----------------------------------------------------------------------------
(* A recorded result is the answer to every later request.                      *)
Request(c) ==
  /\ completing[c].at = "idle" /\ requests < MaxRequests
  /\ \A i \in 1..Len(results) : results[i].fixture
  /\ requests' = requests + 1
  /\ Continues(c, [Resting EXCEPT !.at = "validate"])
  /\ UNCHANGED <<repository, touches, stops>>

(* The branch, the base, origin and the changed files by their names, and the   *)
(* checks before the first change.                                              *)
ScopeMatches == worktree \in {"verified", "edited"}

Validates(c) ==
  /\ completing[c].at = "validate"
  /\ \/ Record(c, "BLOCKED")
     \/ ScopeMatches /\ Continues(c, [completing[c] EXCEPT !.at = "stage", !.base = base])
  /\ UNCHANGED <<repository, bounds>>

(* git add of the changed files, whatever they hold by now.                     *)
Stages(c) ==
  /\ completing[c].at = "stage"
  /\ \/ Record(c, "BLOCKED") /\ UNCHANGED index
     \/ /\ index' = IF worktree \in {"verified", "edited"} THEN worktree ELSE index
        /\ IF index' = "none" THEN Record(c, "BLOCKED")
           ELSE Continues(c, [completing[c] EXCEPT !.at = "commit"])
  /\ UNCHANGED <<branch, remote, worktree, base, bounds>>

(* Mutant: the commit is made with an empty index too.                          *)
CommitsEmpty(c) ==
  /\ completing[c].at = "commit"
  /\ branch' = Append(branch, index) /\ index' = "none"
  /\ worktree' = IF worktree = index THEN "none" ELSE worktree
  /\ Continues(c, [completing[c] EXCEPT !.at = "head"])
  /\ UNCHANGED <<remote, base, bounds>>

(* git commit; with nothing staged any more it fails.                           *)
Commits(c) ==
  /\ completing[c].at = "commit"
  /\ \/ Record(c, "BLOCKED") /\ UNCHANGED <<branch, index, worktree>>
     \/ /\ index # "none"
        /\ branch' = Append(branch, index) /\ index' = "none"
        /\ worktree' = IF worktree = index THEN "none" ELSE worktree
        /\ \/ Continues(c, [completing[c] EXCEPT !.at = "head"])
           \/ Record(c, "BLOCKED")
  /\ UNCHANGED <<remote, base, bounds>>

ReadsHead(c) ==
  /\ completing[c].at = "head"
  /\ \/ Record(c, "BLOCKED")
     \/ Continues(c, [completing[c] EXCEPT !.at = "push", !.sha = Len(branch)])
  /\ UNCHANGED <<repository, bounds>>

(* git push; a failed one leaves the run COMMITTED.                             *)
Pushes(c) ==
  /\ completing[c].at = "push"
  /\ \/ Record(c, "COMMITTED") /\ UNCHANGED remote
     \/ /\ remote' = Later(remote, Len(branch))
        /\ \/ Continues(c, [completing[c] EXCEPT !.at = "base"])
           \/ Record(c, "COMMITTED")
  /\ UNCHANGED <<branch, index, worktree, base, bounds>>

(* The pull request is prepared only while the base is where it was.            *)
Prepares(c) ==
  /\ completing[c].at = "base"
  /\ Record(c, IF base = completing[c].base THEN "PR_READY" ELSE "PUSHED")
  /\ UNCHANGED <<repository, bounds>>

(* run_git_completion_validation: the same steps over a fixture of its own,     *)
(* where nothing else moves the base; recorded under a run of its own.          *)
ValidationRun ==
  /\ requests < MaxRequests /\ requests' = requests + 1
  /\ \E status \in {"BLOCKED", "COMMITTED", "PR_READY"} :
       results' = Append(results, [status |-> status, sha |-> 0, fixture |-> TRUE])
  /\ UNCHANGED <<repository, completing, touches, stops>>

(* Anything else that touches the worktree or the base branch.                  *)
Touched ==
  /\ touches < MaxTouches /\ touches' = touches + 1
  /\ \/ worktree' \in {"edited", "other"} /\ UNCHANGED base
     \/ base' = base + 1 /\ UNCHANGED worktree
  /\ UNCHANGED <<branch, remote, index, completing, results, requests, stops>>

(* A restart: git keeps what it has done, a request under way is gone.          *)
Restart ==
  /\ stops < MaxStops /\ stops' = stops + 1
  /\ completing' = [c \in Requester |-> Resting]
  /\ UNCHANGED <<repository, results, touches, requests>>

Next ==
  \/ \E c \in Requester : \/ Request(c) \/ Validates(c) \/ Stages(c) \/ Commits(c)
                          \/ ReadsHead(c) \/ Pushes(c) \/ Prepares(c)
  \/ ValidationRun \/ Touched \/ Restart

Spec == Init /\ [][Next]_completionVars
-----------------------------------------------------------------------------
Statuses == {"BLOCKED", "COMMITTED", "PUSHED", "PR_READY"}

TypeOK ==
  /\ branch \in Seq(Content) /\ remote \in 0..Len(branch) /\ index \in Content
  /\ worktree \in Content /\ base \in 0..MaxTouches
  /\ completing \in [Requester -> [base : 0..MaxTouches, sha : 0..Len(branch),
       at : {"idle", "validate", "stage", "commit", "head", "push", "base"}]]
  /\ \A i \in 1..Len(results) : results[i].status \in Statuses
  /\ touches \in 0..MaxTouches /\ requests \in 0..MaxRequests /\ stops \in 0..MaxStops

Own == {i \in 1..Len(results) : ~results[i].fixture}

(* Over concurrent requests, commands that time out with their work done and    *)
(* restarts: verified work is committed once unless its files are edited again, *)
(* at most one request reports that commit as its own, and a result that names  *)
(* a pushed branch is of a commit that is on origin.                            *)
CompletedOnce ==
  /\ touches = 0 => Len(branch) <= 1 /\ Cardinality({r \in Own : results[r].status # "BLOCKED"}) <= 1
  /\ \A r \in Own : results[r].status \in {"PUSHED", "PR_READY"} => results[r].sha \in 1..remote
=============================================================================
