---------------------------- MODULE DayController ----------------------------
(* The LocalLLM Day controller: class LocalLLMDayProgram of                     *)
(* backend/control/local_llm_day_program.py, for one Day other than Day 1 and   *)
(* one product run.                                                             *)
(*                                                                              *)
(* A worker thread drives the Day through preflight, evaluation, registered     *)
(* actions and repair; the operator's requests (start, resume, repair_and_go,   *)
(* stop, register_retained_evidence) run under the controller's lock, which the *)
(* worker does not take.  Every worker action below ends at a point where the   *)
(* code has written the snapshot, or where it is about to read state another    *)
(* thread can change, so a process crash and an operator request can fall       *)
(* between any two of them.                                                     *)
EXTENDS DayStates, FiniteSets, Integers, Sequences

CONSTANTS
  Gaps,        \* evidence types the contract requires; one criterion each
  Templates,   \* registered action templates
  NoTemplate,  \* a strategy that has no template
  Template,    \* STRATEGIES: the template (or NoTemplate) of each evidence type
  Mode,        \* ExecutionMode of each template
  Requires,    \* input_evidence_types of each template
  Produces,    \* post_action_evidence_types of each template
  Retainable,  \* evidence types a retained-evidence resolver exists for
  Worker,      \* threads that may exist at once
  MaxRepo,     \* bound: changes of the repository's fingerprint
  MaxGen,      \* bound: changes of an artifact behind evidence of one type
  MaxAuth,     \* bound: blockers found resolved
  MaxCrash,    \* bound: process restarts
  EagerOperator  \* may a request arrive before the last worker has returned?

None == "none"
Modes == {"READ_ONLY", "ENGINEERING_WORKTREE", "RESEARCH_RUN"}

ASSUME ConstantsAssumption ==
  /\ None \notin Gaps /\ NoTemplate \notin Templates /\ Templates # {}
  /\ Template \in [Gaps -> Templates \cup {NoTemplate}]
  /\ Mode \in [Templates -> Modes]
  /\ Requires \in [Templates -> SUBSET Gaps]
  /\ Produces \in [Templates -> SUBSET Gaps]
  /\ Retainable \subseteq Gaps
  /\ MaxRepo \in Nat /\ MaxGen \in Nat /\ MaxAuth \in Nat /\ MaxCrash \in Nat
  /\ EagerOperator \in BOOLEAN

VARIABLES
  snap,       \* LocalLLMDayProgram.snapshot
  disk,       \* what the last _save persisted
  episodes,   \* RepairEpisodeStore: the latest episode of each evidence type
  stopEvent,  \* the threading.Event _stop
  opEpisode,  \* _operator_external_resume_episode_id
  lockHolder, \* the request that is between two of its own saves
  pc,         \* where each worker thread is
  inv,        \* a worker's local inventory: the repository fingerprint it saw
  found,      \* and the retained evidence it found
  job,        \* the evidence type a worker's current action or repair is for
  key,        \* the <<template, inventory, authority>> fingerprint of that action
  goal,       \* the state _fail has to reach
  back,       \* where _fail and _ingest_action_result return to
  result,     \* what the action executor or the repair returned
  notifies,   \* does this worker report its settlement (expected_run_id)?
  projected,  \* the Day state last projected on the product run record
  repo, gen, sources, retained, resolved, contractOK,  \* the world outside
  crashes,    \* restarts so far
  execs       \* how often each fingerprint was handed to the action executor

mem   == <<snap, stopEvent, opEpisode, lockHolder>>
local == <<inv, found, job, key, goal, back, result, notifies>>
world == <<repo, gen, sources, retained, resolved, contractOK>>
vars  == <<snap, disk, episodes, stopEvent, opEpisode, lockHolder, pc, local,
           projected, world, crashes, execs>>
-----------------------------------------------------------------------------
Keys == Templates \X (0..MaxRepo) \X (0..MaxAuth)
SomeKey == CHOOSE k \in Keys : TRUE
Outcomes == {None, "STARTED", "DONE", "FAILED", "QUALITY", "HUMAN", "EXTERNAL"}
Blockers == {None, "HUMAN", "EXTERNAL", "SOURCES", "REVIEW"}
StopReasons == {None, "STOP_REQUESTED", "INTERRUPTED_REQUIRES_RESUME", "CONTRACT_VERSION"}
Records == Gaps \X (0..MaxGen)
Finals == {None, "VERIFIED", "HUMAN", "EXTERNAL", "REVIEW"}

Snapshot == [state : DayState, blocker : Blockers, auth : 0..MaxAuth,
             stopReason : StopReasons, attempts : [Keys -> Outcomes],
             items : [Gaps -> Seq({"FAILED", "COMPLETE"})],
             evidence : SUBSET Records, gaps : SUBSET Gaps,
             lastEpisode : Gaps \cup {None}]

(* matches: was it opened for the failure of the first work item that bears its *)
(* id?  left: was an earlier episode of the strategy left without an outcome?   *)
Episode == [open : BOOLEAN, interrupted : BOOLEAN, final : Finals, retries : 0..1,
            matches : BOOLEAN, left : BOOLEAN]

NoEpisode == [open |-> FALSE, interrupted |-> FALSE, final |-> None, retries |-> 0,
              matches |-> TRUE, left |-> FALSE]
NewEpisode(m, l) == [NoEpisode EXCEPT !.open = TRUE, !.matches = m, !.left = l]

Kinds == {"DONE", "QUALITY", "HUMAN", "EXTERNAL", "REPAIR", "NO_ORDER"}
Results == [kind : Kinds, evidence : SUBSET Gaps]
NoResult == [kind |-> "DONE", evidence |-> {}]

PCs == {"idle", "preflight", "sources", "load", "inventory", "validating", "loop",
        "diagnose", "resumeRepair", "begin", "run", "result", "repair", "verdict",
        "accept", "block", "fail", "recheck", "reroute", "direct", "reval", "stopTail",
        "except", "settle", "notify"}

EmptySnapshot ==
  [state |-> "IDLE", blocker |-> None, auth |-> 0, stopReason |-> None,
   attempts |-> [k \in Keys |-> None], items |-> [g \in Gaps |-> <<>>],
   evidence |-> {}, gaps |-> Gaps, lastEpisode |-> None]

Init ==
  /\ snap = EmptySnapshot /\ disk = EmptySnapshot
  /\ episodes = [g \in Gaps |-> NoEpisode]
  /\ stopEvent = FALSE /\ opEpisode = None /\ lockHolder = None
  /\ pc = [w \in Worker |-> "idle"]
  /\ inv = [w \in Worker |-> 0]
  /\ found = [w \in Worker |-> {}]
  /\ job = [w \in Worker |-> None]
  /\ key = [w \in Worker |-> SomeKey]
  /\ goal = [w \in Worker |-> "FAILED_UNRECOVERABLE"]
  /\ back = [w \in Worker |-> "settle"]
  /\ result = [w \in Worker |-> NoResult]
  /\ notifies = [w \in Worker |-> FALSE]
  /\ projected = "PREFLIGHT"
  /\ repo = 0 /\ gen = [g \in Gaps |-> 0] /\ sources = TRUE /\ retained = {}
  /\ resolved = FALSE /\ contractOK = TRUE
  /\ crashes = 0
  /\ execs = [k \in Keys |-> 0]
-----------------------------------------------------------------------------
(* Evidence, gaps and their classification.                                     *)

(* _ingest_reusable_evidence: every retained artifact that validates becomes a  *)
(* record bound to the artifact's present content.                              *)
Ingested(s, G) == [s EXCEPT !.evidence = @ \cup {<<g, gen[g]>> : g \in G}]

(* Mutant: a repaired work item counts as evidence for its criterion.           *)
ItemCountsEvaluated(s, G) ==
  LET t == Ingested(s, G)
  IN  [t EXCEPT !.gaps = {g \in Gaps : <<g, gen[g]>> \notin t.evidence
                                        /\ \A i \in DOMAIN t.items[g] :
                                             t.items[g][i] # "COMPLETE"}]

(* _evaluate_contract: a criterion is satisfied by a record whose source hashes *)
(* still match (_evidence_record_valid).                                        *)
Evaluated(s, G) ==
  LET t == Ingested(s, G)
  IN  [t EXCEPT !.gaps = {g \in Gaps : <<g, gen[g]>> \notin t.evidence}]

(* _diagnose_gaps: the classification of a gap from the last attempt of its     *)
(* template on the same input, or from its strategy when there is none.         *)
Classification(s, g, i) ==
  IF Template[g] = NoTemplate THEN "AUTHORITY"
  ELSE LET outcome == s.attempts[<<Template[g], i, s.auth>>]
       IN  CASE outcome = None -> "PRODUCE"
             [] outcome \in {"HUMAN", "EXTERNAL"} -> "AUTHORITY"
             [] outcome = "QUALITY" -> "MODEL_QUALITY"
             [] OTHER -> "ENGINEERING_REPAIR"

Priority(g) == IF Mode[Template[g]] = "READ_ONLY" THEN 0 ELSE 2

(* Mutant: an input may be attempted again.                                     *)
RelentlessCandidates(s, i) ==
  {g \in s.gaps : Template[g] # NoTemplate /\ Requires[Template[g]] \cap s.gaps = {}}

(* _select_registered_action: never an input already attempted, never before    *)
(* its prerequisites, read-only work first.                                     *)
Candidates(s, i) ==
  {g \in s.gaps : /\ Template[g] # NoTemplate
                  /\ s.attempts[<<Template[g], i, s.auth>>] = None
                  /\ Requires[Template[g]] \cap s.gaps = {}}

Selected(s, i) ==
  {g \in Candidates(s, i) : \A h \in Candidates(s, i) : Priority(g) <= Priority(h)}

AuthorityGaps(s, i) == {g \in s.gaps : Classification(s, g, i) = "AUTHORITY"}

(* Mutant: a strategy whose repair did not help is repaired again.              *)
RepairedAgain(s, g, i) ==
  /\ Template[g] # NoTemplate /\ Mode[Template[g]] = "ENGINEERING_WORKTREE"
  /\ Classification(s, g, i) # "MODEL_QUALITY"

(* The route of _route_observed_gap that may edit source: an engineering        *)
(* template whose strategy has had no repair item yet.                          *)
Repairable(s, g, i) ==
  /\ Template[g] # NoTemplate /\ Mode[Template[g]] = "ENGINEERING_WORKTREE"
  /\ Classification(s, g, i) # "MODEL_QUALITY"
  /\ s.items[g] = <<>>

(* Mutant: the state is named after the blocker.                                *)
BlockerAsState(b) == b

TerminalState(b) ==
  IF b = "HUMAN" THEN "HUMAN_ACTION_REQUIRED" ELSE "EXTERNAL_ACTION_REQUIRED"

(* _blocker_resolved.  Bound: at most MaxAuth blockers are ever resolved.       *)
BlockerResolved ==
  /\ snap.blocker # None /\ snap.auth < MaxAuth
  /\ IF snap.blocker = "SOURCES" THEN sources ELSE resolved

OpenEpisode(s) ==
  /\ s.lastEpisode # None
  /\ episodes[s.lastEpisode].open /\ episodes[s.lastEpisode].final = None

(* A work item of the strategy is still FAILED.                                 *)
Failed(s, g) == \E i \in DOMAIN s.items[g] : s.items[g][i] = "FAILED"

Interrupted(s) == OpenEpisode(s) /\ episodes[s.lastEpisode].interrupted

(* _repair_resumable                                                            *)
RepairResumable == snap.state = "PAUSED" /\ Interrupted(snap)

(* _external_review_operator_resume_episode                                     *)
OperatorResumable ==
  /\ snap.state = "EXTERNAL_ACTION_REQUIRED" /\ snap.blocker = "REVIEW"
  /\ snap.lastEpisode # None
  /\ episodes[snap.lastEpisode].final = "REVIEW"
  /\ episodes[snap.lastEpisode].retries < 1
-----------------------------------------------------------------------------
(* Steps shared by the worker's actions.                                        *)

Goto(w, p) == pc' = [pc EXCEPT ![w] = p]

(* _transition: the state machine check, then one save.  An illegal transition  *)
(* raises into the worker's exception handler and writes nothing.               *)
Move(w, s, to, p) ==
  IF ValidTransition(s.state, to)
  THEN /\ snap' = [s EXCEPT !.state = to] /\ disk' = snap'
       /\ Goto(w, p)
  ELSE /\ snap' = s /\ UNCHANGED disk
       /\ Goto(w, "except")

(* Mutant: the authority state is entered without recording why.                *)
UnnamedBlock(w, s, b, ret) ==
  /\ snap' = s /\ UNCHANGED disk
  /\ resolved' = FALSE
  /\ goal' = [goal EXCEPT ![w] = TerminalState(b)]
  /\ back' = [back EXCEPT ![w] = ret]
  /\ Goto(w, "fail")

(* _terminal_blocker: record the blocker, then _fail to its authority state.    *)
(* A new blocker names a prerequisite that is not met yet.                      *)
Block(w, s, b, ret) ==
  /\ snap' = [s EXCEPT !.blocker = b] /\ UNCHANGED disk
  /\ resolved' = FALSE
  /\ goal' = [goal EXCEPT ![w] = TerminalState(b)]
  /\ back' = [back EXCEPT ![w] = ret]
  /\ Goto(w, "fail")

(* The locals of one pass through the loop go out of scope.                     *)
Forget(w) ==
  /\ job' = [job EXCEPT ![w] = None] /\ key' = [key EXCEPT ![w] = SomeKey]
  /\ result' = [result EXCEPT ![w] = NoResult]
  /\ goal' = [goal EXCEPT ![w] = "FAILED_UNRECOVERABLE"]
  /\ back' = [back EXCEPT ![w] = "settle"]

OutsideUnchanged ==
  UNCHANGED <<stopEvent, lockHolder, projected, repo, gen, sources, retained,
              contractOK, crashes>>
-----------------------------------------------------------------------------
(* The worker: _execute and what it calls.                                      *)

(* A changed contract invalidates everything that was proved under the old one. *)
Invalidated(s) ==
  [s EXCEPT !.evidence = {}, !.gaps = Gaps, !.stopReason = "CONTRACT_VERSION"]

PreflightContract(w) ==
  /\ pc[w] = "preflight" /\ ~contractOK
  /\ snap' = Invalidated(snap) /\ UNCHANGED disk
  /\ Goto(w, "except")
  /\ UNCHANGED <<episodes, opEpisode, local, resolved, execs>>
  /\ OutsideUnchanged

PreflightBlocked(w) ==
  /\ pc[w] = "preflight" /\ contractOK
  /\ snap.blocker # None /\ ~BlockerResolved
  /\ goal' = [goal EXCEPT ![w] = TerminalState(snap.blocker)]
  /\ back' = [back EXCEPT ![w] = "settle"]
  /\ Goto(w, "fail")
  /\ UNCHANGED <<snap, disk, episodes, opEpisode, inv, found, job, key, result, notifies,
                 resolved, execs>>
  /\ OutsideUnchanged

(* Mutant: the resolved blocker is not cleared.                                 *)
KeptBlockerResolved(w) ==
  /\ pc[w] = "preflight" /\ contractOK
  /\ snap.blocker # None => BlockerResolved
  /\ IF snap.blocker = None
     THEN UNCHANGED <<snap, disk>>
     ELSE snap' = [snap EXCEPT !.auth = @ + 1] /\ disk' = snap'
  /\ resolved' = FALSE
  /\ inv' = [inv EXCEPT ![w] = repo] /\ found' = [found EXCEPT ![w] = retained]
  /\ Goto(w, "sources")
  /\ UNCHANGED <<episodes, opEpisode, job, key, goal, back, result, notifies, execs>>
  /\ OutsideUnchanged

(* Resolving a blocker changes authority_resolution_fingerprint, so that the    *)
(* actions it stopped may be tried again.                                       *)
PreflightResolved(w) ==
  /\ pc[w] = "preflight" /\ contractOK
  /\ snap.blocker # None => BlockerResolved
  /\ IF snap.blocker = None
     THEN UNCHANGED <<snap, disk>>
     ELSE /\ snap' = [snap EXCEPT !.blocker = None, !.auth = @ + 1]
          /\ disk' = snap'
  /\ resolved' = FALSE
  /\ inv' = [inv EXCEPT ![w] = repo] /\ found' = [found EXCEPT ![w] = retained]
  /\ Goto(w, "sources")
  /\ UNCHANGED <<episodes, opEpisode, job, key, goal, back, result, notifies, execs>>
  /\ OutsideUnchanged

PreflightSources(w) ==
  /\ pc[w] = "sources"
  /\ IF sources
     THEN Goto(w, "load") /\ UNCHANGED <<snap, disk, resolved, goal, back>>
     ELSE Block(w, snap, "SOURCES", "settle")
  /\ UNCHANGED <<episodes, opEpisode, inv, found, job, key, result, notifies, execs>>
  /\ OutsideUnchanged

LoadDay(w) ==
  /\ \/ pc[w] = "load" /\ Move(w, snap, "LOADING_CONTRACT", "inventory")
     \/ pc[w] = "inventory" /\ Move(w, snap, "INVENTORY", "validating")
     \/ pc[w] = "validating" /\ Move(w, Ingested(snap, found[w]), "VALIDATING", "loop")
  /\ UNCHANGED <<episodes, opEpisode, local, resolved, execs>>
  /\ OutsideUnchanged

(* The head of the loop: the stop request, then completion, then an external    *)
(* review the operator asked to retry, then diagnosis.                          *)
LoopStopped(w) ==
  /\ pc[w] = "loop" /\ stopEvent
  /\ Move(w, snap, "STOPPED", "stopTail")
  /\ UNCHANGED <<episodes, opEpisode, local, resolved, execs>>
  /\ OutsideUnchanged

LoopComplete(w) ==
  /\ pc[w] = "loop" /\ ~stopEvent
  /\ Evaluated(snap, found[w]).gaps = {}
  /\ Move(w, Evaluated(snap, found[w]), "COMPLETE", "settle")
  /\ UNCHANGED <<episodes, opEpisode, local, resolved, execs>>
  /\ OutsideUnchanged

LoopOperatorResume(w) ==
  /\ pc[w] = "loop" /\ ~stopEvent
  /\ Evaluated(snap, found[w]).gaps # {} /\ opEpisode # None
  /\ opEpisode' = None
  /\ job' = [job EXCEPT ![w] = opEpisode]
  /\ IF episodes[opEpisode].interrupted /\ episodes[opEpisode].final = None
     THEN Move(w, Evaluated(snap, found[w]), "DIAGNOSING_GAP", "resumeRepair")
          /\ UNCHANGED <<resolved, goal, back>>
     ELSE Block(w, Evaluated(snap, found[w]), "EXTERNAL", "settle")
  /\ UNCHANGED <<episodes, inv, found, key, result, notifies, execs>>
  /\ OutsideUnchanged

LoopDiagnose(w) ==
  /\ pc[w] = "loop" /\ ~stopEvent
  /\ Evaluated(snap, found[w]).gaps # {} /\ opEpisode = None
  /\ Move(w, Evaluated(snap, found[w]), "DIAGNOSING_GAP", "diagnose")
  /\ UNCHANGED <<episodes, opEpisode, local, resolved, execs>>
  /\ OutsideUnchanged

(* An interrupted repair comes before any other work.                           *)
DiagnoseInterrupted(w) ==
  /\ pc[w] = "diagnose" /\ Interrupted(snap)
  /\ job' = [job EXCEPT ![w] = snap.lastEpisode]
  /\ disk' = snap
  /\ Goto(w, "resumeRepair")
  /\ UNCHANGED <<snap, episodes, opEpisode, inv, found, key, goal, back, result, notifies,
                 resolved, execs>>
  /\ OutsideUnchanged

ResumeRepair(w) ==
  /\ pc[w] = "resumeRepair"
  /\ Move(w, snap, "REPAIR_SUPERVISOR", "repair")
  /\ episodes' = IF ValidTransition(snap.state, "REPAIR_SUPERVISOR")
                 THEN [episodes EXCEPT ![job[w]].interrupted = FALSE]
                 ELSE episodes
  /\ back' = [back EXCEPT ![w] = "settle"]
  /\ UNCHANGED <<opEpisode, inv, found, job, key, goal, result, notifies, resolved, execs>>
  /\ OutsideUnchanged

DiagnoseAction(w) ==
  /\ pc[w] = "diagnose" /\ ~Interrupted(snap)
  /\ \E g \in Selected(snap, inv[w]) :
       /\ job' = [job EXCEPT ![w] = g]
       /\ key' = [key EXCEPT ![w] = <<Template[g], inv[w], snap.auth>>]
  /\ disk' = snap
  /\ Goto(w, "begin")
  /\ UNCHANGED <<snap, episodes, opEpisode, inv, found, goal, back, result, notifies,
                 resolved, execs>>
  /\ OutsideUnchanged

DiagnoseAuthority(w) ==
  /\ pc[w] = "diagnose" /\ ~Interrupted(snap)
  /\ Candidates(snap, inv[w]) = {}
  /\ AuthorityGaps(snap, inv[w]) # {}
  /\ \E b \in {"HUMAN", "EXTERNAL"} : Block(w, snap, b, "settle")
  /\ UNCHANGED <<episodes, opEpisode, inv, found, job, key, result, notifies, execs>>
  /\ OutsideUnchanged

(* A retained record registered since the evaluation can close the last gap:    *)
(* the code then takes the first element of an empty list.                      *)
DiagnoseNothing(w) ==
  /\ pc[w] = "diagnose" /\ ~Interrupted(snap)
  /\ snap.gaps = {}
  /\ disk' = snap
  /\ Goto(w, "except")
  /\ UNCHANGED <<snap, episodes, opEpisode, local, resolved, execs>>
  /\ OutsideUnchanged

(* _route_observed_gap looks at the first diagnosis; the model allows any gap.  *)
RouteObservedGap(w) ==
  /\ pc[w] = "diagnose" /\ ~Interrupted(snap)
  /\ Candidates(snap, inv[w]) = {} /\ AuthorityGaps(snap, inv[w]) = {}
  /\ \E g \in snap.gaps :
       /\ job' = [job EXCEPT ![w] = g]
       /\ IF Repairable(snap, g, inv[w])
          THEN /\ Move(w, snap, "REPAIR_SUPERVISOR", "repair")
               /\ back' = [back EXCEPT ![w] = "reroute"]
               /\ UNCHANGED <<resolved, goal>>
          ELSE Block(w, snap, "HUMAN", "reroute")
  /\ UNCHANGED <<episodes, opEpisode, inv, found, key, result, notifies, execs>>
  /\ OutsideUnchanged

(* Mutant: the attempt is kept in memory only.                                  *)
UnsavedBegin(w) ==
  /\ pc[w] = "begin"
  /\ snap' = [snap EXCEPT !.state = "EXECUTING_DAY_WORK", !.attempts[key[w]] = "STARTED"]
  /\ Goto(w, "run")
  /\ UNCHANGED <<disk, episodes, opEpisode, local, resolved, execs>>
  /\ OutsideUnchanged

(* _execute_registered_action: the attempt is persisted before the executor is  *)
(* called.                                                                      *)
BeginAction(w) ==
  LET to == IF Mode[Template[job[w]]] = "READ_ONLY"
            THEN "COLLECTING_EVIDENCE" ELSE "EXECUTING_DAY_WORK"
  IN  /\ pc[w] = "begin"
      /\ Move(w, IF ValidTransition(snap.state, to)
                 THEN [snap EXCEPT !.attempts[key[w]] = "STARTED"] ELSE snap,
              to, "run")
      /\ UNCHANGED <<episodes, opEpisode, local, resolved, execs>>
      /\ OutsideUnchanged

(* The executor is external: it produces any of the evidence its template names *)
(* and any outcome; only worktree work can come back with a repair order.       *)
RunAction(w) ==
  /\ pc[w] = "run"
  /\ execs' = [execs EXCEPT ![key[w]] = IF @ < 2 THEN @ + 1 ELSE @]
  /\ \E k \in Kinds, E \in SUBSET Produces[Template[job[w]]] :
       /\ k = "REPAIR" => Mode[Template[job[w]]] = "ENGINEERING_WORKTREE"
       /\ result' = [result EXCEPT ![w] = [kind |-> k, evidence |-> E]]
  /\ Goto(w, "result")
  /\ UNCHANGED <<snap, disk, episodes, opEpisode, inv, found, job, key, goal, back, notifies,
                 resolved>>
  /\ OutsideUnchanged

(* _ingest_action_result: evidence first, whatever the outcome; then authority, *)
(* repair, or nothing more.                                                     *)
RecordResult(w) ==
  LET r == result[w]
      outcome == IF r.kind \in {"REPAIR", "NO_ORDER"} THEN "FAILED" ELSE r.kind
      s == [Ingested(snap, r.evidence) EXCEPT !.attempts[key[w]] = outcome]
  IN  /\ pc[w] = "result"
      /\ CASE r.kind \in {"HUMAN", "EXTERNAL"} -> Block(w, s, r.kind, "recheck")
           [] r.kind \in {"REPAIR", "NO_ORDER"} ->
                /\ Move(w, s, "REPAIR_SUPERVISOR",
                        IF r.kind = "REPAIR" THEN "repair" ELSE "recheck")
                /\ back' = [back EXCEPT ![w] = "recheck"]
                /\ UNCHANGED <<resolved, goal>>
           [] OTHER -> /\ snap' = s /\ Goto(w, "recheck")
                       /\ UNCHANGED <<disk, resolved, goal, back>>
      /\ UNCHANGED <<episodes, opEpisode, inv, found, job, key, result, notifies, execs>>
      /\ OutsideUnchanged

(* A repair that is resumed works on the first item that bears its id; any      *)
(* other begins with an item of its own, and nobody asks whether the id is free.*)
Resumed(w) == back[w] = "settle"
WithItem(w) ==
  [snap EXCEPT !.lastEpisode = job[w],
               !.items[job[w]] = IF Resumed(w) THEN @ ELSE Append(@, "FAILED")]

(* The episode _supervise_repair goes on with: the last one, when it is not     *)
(* finished and its failure_fingerprint is that of the item (m).  Otherwise a   *)
(* second episode is opened, with a deadline of its own, and the first stays    *)
(* as it is.  The fingerprint is taken of the id, the order (the same for every *)
(* repair of a strategy) and the failure excerpt.                               *)
Supervised(w, m) ==
  IF OpenEpisode(snap) /\ snap.lastEpisode = job[w] /\ m THEN episodes
  ELSE [episodes EXCEPT ![job[w]] =
          NewEpisode(Resumed(w) \/ snap.items[job[w]] = <<>> \/ m,
                     @.left \/ (@.open /\ @.final = None))]

(* Mutant: the episode is saved, the snapshot that points at it is not.         *)
UnsavedRepair(w) ==
  /\ pc[w] = "repair"
  /\ \E m \in BOOLEAN : /\ Resumed(w) => m = episodes[job[w]].matches
                        /\ episodes' = Supervised(w, m)
  /\ snap' = WithItem(w) /\ UNCHANGED disk
  /\ Goto(w, "verdict")
  /\ UNCHANGED <<opEpisode, local, resolved, execs>>
  /\ OutsideUnchanged

(* _supervise_repair opens an episode, or goes on with the unfinished one.  The *)
(* store is saved just before the snapshot that names the episode: a crash in   *)
(* between leaves a record nothing refers to, as if the repair had not begun,   *)
(* and episodes holds only the records a snapshot has named.                    *)
OpenRepair(w) ==
  /\ pc[w] = "repair"
  /\ \E m \in BOOLEAN : /\ Resumed(w) => m = episodes[job[w]].matches
                        /\ episodes' = Supervised(w, m)
  /\ snap' = WithItem(w) /\ disk' = snap'
  /\ Goto(w, "verdict")
  /\ UNCHANGED <<opEpisode, local, resolved, execs>>
  /\ OutsideUnchanged

(* The bounded repair loop is over: module RepairEpisode has its steps.  Its    *)
(* final outcome is saved in the episode store before the snapshot knows of it. *)
RepairVerdict(w) ==
  /\ pc[w] = "verdict"
  /\ \E v \in Finals \ {None} :
       /\ episodes' = [episodes EXCEPT ![job[w]].final = v]
       /\ Goto(w, IF v = "VERIFIED" THEN "accept" ELSE "block")
  /\ \E E \in SUBSET (IF Template[job[w]] = NoTemplate THEN {}
                      ELSE Produces[Template[job[w]]]) :
       result' = [result EXCEPT ![w] = [kind |-> "DONE", evidence |-> E]]
  /\ UNCHANGED <<snap, disk, opEpisode, inv, found, job, key, goal, back, notifies,
                 resolved, execs>>
  /\ OutsideUnchanged

(* The item a repair has worked on is complete: with two workers at one         *)
(* strategy, the last one appended.                                             *)
ItemDone(w) ==
  LET i == IF Resumed(w) THEN 1 ELSE Len(snap.items[job[w]])
  IN  [snap EXCEPT !.items[job[w]] = [@ EXCEPT ![i] = "COMPLETE"]]

(* _accept_repair saves the completed item; the evidence it carries is ingested *)
(* afterwards, in memory.                                                       *)
AcceptRepair(w) ==
  /\ pc[w] = "accept"
  /\ disk' = ItemDone(w)
  /\ snap' = Ingested(ItemDone(w), result[w].evidence)
  /\ Goto(w, IF Resumed(w) THEN "direct" ELSE back[w])
  /\ UNCHANGED <<episodes, opEpisode, local, resolved, execs>>
  /\ OutsideUnchanged

(* The record for the catalogue needs a root cause, and a solver may have       *)
(* answered without one: nothing of the verified repair is recorded.            *)
CatalogRefuses(w) ==
  /\ pc[w] = "accept"
  /\ Goto(w, "except")
  /\ UNCHANGED <<snap, disk, episodes, opEpisode, local, resolved, execs>>
  /\ OutsideUnchanged

(* _external_repair_blocker                                                     *)
BlockRepair(w) ==
  /\ pc[w] = "block"
  /\ Block(w, snap, IF episodes[snap.lastEpisode].final \in {"EXTERNAL", "REVIEW"}
                    THEN episodes[snap.lastEpisode].final ELSE "HUMAN",
           back[w])
  /\ UNCHANGED <<episodes, opEpisode, inv, found, job, key, result, notifies, execs>>
  /\ OutsideUnchanged

(* _fail: enter the authority state, unless the Day is already there.           *)
Fail(w) ==
  /\ pc[w] = "fail"
  /\ IF snap.state = goal[w]
     THEN UNCHANGED snap /\ disk' = snap /\ Goto(w, back[w])
     ELSE Move(w, snap, goal[w], back[w])
  /\ UNCHANGED <<episodes, opEpisode, local, resolved, execs>>
  /\ OutsideUnchanged

(* Mutant: the caller of _fail goes on without looking.                         *)
BlindRecheck(w) ==
  /\ pc[w] \in {"recheck", "reroute"}
  /\ Move(w, snap, "REVALIDATING", "reval")
  /\ UNCHANGED <<episodes, opEpisode, local, resolved, execs>>
  /\ OutsideUnchanged

(* The callers of _fail look at the shared state again to know whether to stop. *)
Recheck(w) ==
  /\ pc[w] \in {"recheck", "reroute"}
  /\ IF snap.state \in ACTIVE
     THEN Move(w, snap, "REVALIDATING", "reval")
     ELSE /\ disk' = IF pc[w] = "recheck" THEN snap ELSE disk
          /\ Goto(w, "settle") /\ UNCHANGED snap
  /\ UNCHANGED <<episodes, opEpisode, local, resolved, execs>>
  /\ OutsideUnchanged

Repaired(w) ==
  /\ pc[w] = "direct"
  /\ Move(w, snap, "REVALIDATING", "reval")
  /\ UNCHANGED <<episodes, opEpisode, local, resolved, execs>>
  /\ OutsideUnchanged

Revalidate(w) ==
  /\ pc[w] = "reval"
  /\ inv' = [inv EXCEPT ![w] = repo] /\ found' = [found EXCEPT ![w] = retained]
  /\ Move(w, Ingested(snap, retained), "VALIDATING", "loop")
  /\ Forget(w)
  /\ UNCHANGED <<episodes, opEpisode, notifies, resolved, execs>>
  /\ OutsideUnchanged

StopTail(w) ==
  /\ pc[w] = "stopTail"
  /\ snap' = [snap EXCEPT !.stopReason = "STOP_REQUESTED"] /\ disk' = snap'
  /\ Goto(w, "settle")
  /\ UNCHANGED <<episodes, opEpisode, local, resolved, execs>>
  /\ OutsideUnchanged

(* The exception handler fails the Day; when that transition is illegal too,    *)
(* the second exception ends the thread with nothing reported.                  *)
HandleException(w) ==
  /\ pc[w] = "except"
  /\ IF snap.state = "FAILED_UNRECOVERABLE"
     THEN UNCHANGED snap /\ disk' = snap /\ Goto(w, "settle")
     ELSE IF ValidTransition(snap.state, "FAILED_UNRECOVERABLE")
     THEN Move(w, snap, "FAILED_UNRECOVERABLE", "settle")
     ELSE UNCHANGED <<snap, disk>> /\ Goto(w, "idle")
  /\ UNCHANGED <<episodes, opEpisode, local, resolved, execs>>
  /\ OutsideUnchanged

(* Mutant: a Day that waits for an authority is not taken as settled.           *)
QuietSettle(w) ==
  /\ pc[w] = "settle" /\ lockHolder = None
  /\ IF notifies[w] /\ snap.state \in RESTING
     THEN disk' = snap /\ Goto(w, "notify")
     ELSE UNCHANGED disk /\ Goto(w, "idle")
  /\ Forget(w) /\ inv' = [inv EXCEPT ![w] = 0]
  /\ found' = [found EXCEPT ![w] = {}]
  /\ UNCHANGED <<snap, episodes, opEpisode, notifies, resolved, execs>>
  /\ OutsideUnchanged

(* _execute_and_notify_settlement: under the lock, the settled snapshot is      *)
(* saved once more; the notifier is called after the lock is released.          *)
Settle(w) ==
  /\ pc[w] = "settle" /\ lockHolder = None
  /\ IF notifies[w] /\ snap.state \notin ACTIVE
     THEN disk' = snap /\ Goto(w, "notify")
     ELSE UNCHANGED disk /\ Goto(w, "idle")
  /\ Forget(w) /\ inv' = [inv EXCEPT ![w] = 0]
  /\ found' = [found EXCEPT ![w] = {}]
  /\ UNCHANGED <<snap, episodes, opEpisode, notifies, resolved, execs>>
  /\ OutsideUnchanged

Notify(w) ==
  /\ pc[w] = "notify"
  /\ projected' = snap.state
  /\ Goto(w, "idle")
  /\ UNCHANGED <<mem, disk, episodes, local, world, crashes, execs>>
-----------------------------------------------------------------------------
(* The operator's requests, under the controller's lock.                        *)

Returned == \A w \in Worker : pc[w] = "idle"

(* Enter PREFLIGHT, clear the stop request and start a worker thread.           *)
Launch(s, reports) ==
  /\ EagerOperator \/ Returned
  /\ ValidTransition(s.state, "PREFLIGHT")
  /\ snap' = [s EXCEPT !.state = "PREFLIGHT"] /\ disk' = snap'
  /\ stopEvent' = FALSE
  /\ \E w \in Worker : /\ pc[w] = "idle" /\ Goto(w, "preflight")
                       /\ notifies' = [notifies EXCEPT ![w] = reports]
  /\ UNCHANGED <<opEpisode, inv, found, job, key, goal, back, result, projected, world,
                 crashes, execs>>

Start ==
  /\ lockHolder = None /\ snap.state = "IDLE"
  /\ Launch(snap, TRUE)
  /\ UNCHANGED <<episodes, lockHolder>>

(* Resume is accepted in any authority state: the worker's preflight looks at   *)
(* the blocker again.                                                           *)
Resume ==
  /\ lockHolder = None
  /\ \/ snap.state \in {"PAUSED", "STOPPED"} /\ ~RepairResumable
     \/ snap.state \in AUTHORITY /\ ~OperatorResumable
  /\ Launch(snap, TRUE)
  /\ UNCHANGED <<episodes, lockHolder>>

(* _begin_external_review_operator_resume saves the episode, then the snapshot  *)
(* without its blocker, before resume goes on to PREFLIGHT.                     *)
Retried(e) == [e EXCEPT !.final = None, !.interrupted = TRUE, !.retries = e.retries + 1]

OperatorResume ==
  /\ lockHolder = None /\ OperatorResumable
  /\ EagerOperator \/ Returned
  /\ episodes' = [episodes EXCEPT ![snap.lastEpisode] = Retried(@)]
  /\ opEpisode' = snap.lastEpisode
  /\ lockHolder' = "retry"
  /\ UNCHANGED <<snap, disk, stopEvent, pc, local, projected, world, crashes, execs>>

OperatorUnblock ==
  /\ lockHolder = "retry"
  /\ snap' = [snap EXCEPT !.blocker = None] /\ disk' = snap'
  /\ lockHolder' = "resume" /\ resolved' = FALSE
  /\ UNCHANGED <<episodes, opEpisode, stopEvent, pc, local, projected, repo, gen, sources,
                 retained, contractOK, crashes, execs>>

OperatorLaunch ==
  /\ lockHolder = "resume"
  /\ Launch(snap, TRUE)
  /\ lockHolder' = None
  /\ UNCHANGED episodes

(* The thread of repair_and_go runs _resume_repair, which reports to nobody.    *)
RepairAndGo ==
  /\ lockHolder = None /\ RepairResumable
  /\ \E g \in Gaps : Failed(snap, g)
  /\ Launch(snap, FALSE)
  /\ UNCHANGED <<episodes, lockHolder>>

Stop ==
  /\ lockHolder = None /\ snap.state \in ACTIVE
  /\ stopEvent' = TRUE /\ disk' = snap
  /\ UNCHANGED <<snap, opEpisode, lockHolder, episodes, pc, local, projected, world,
                 crashes, execs>>

RegisterRetainedEvidence ==
  /\ lockHolder = None /\ snap.state # "IDLE" /\ retained # {}
  /\ snap' = Evaluated(snap, retained) /\ disk' = snap'
  /\ UNCHANGED <<stopEvent, opEpisode, lockHolder, episodes, pc, local, projected,
                 world, crashes, execs>>
-----------------------------------------------------------------------------
(* The process dies and comes back: __init__ and _restore_snapshot.             *)

(* Mutant: a saved completion is believed.                                      *)
TrustingRestored(d) ==
  CASE d.state = "IDLE" -> d
    [] d.state # "IDLE" /\ ~contractOK ->
         [Invalidated(d) EXCEPT !.state = "FAILED_UNRECOVERABLE"]
    [] d.state \in ACTIVE -> [d EXCEPT !.state = "PAUSED",
                                       !.stopReason = "INTERRUPTED_REQUIRES_RESUME"]
    [] OTHER -> d

Restored(d) ==
  CASE d.state = "IDLE" -> d
    [] d.state # "IDLE" /\ ~contractOK ->
         [Invalidated(d) EXCEPT !.state = "FAILED_UNRECOVERABLE"]
    [] OTHER ->
         LET s == Evaluated(d, retained)
         IN  CASE s.state = "COMPLETE" /\ s.gaps # {} -> [s EXCEPT !.state = "PAUSED"]
               [] s.state \in ACTIVE ->
                    [s EXCEPT !.state = "PAUSED",
                              !.stopReason = "INTERRUPTED_REQUIRES_RESUME"]
               [] OTHER -> s

Restart ==
  /\ crashes < MaxCrash
  /\ crashes' = crashes + 1
  /\ snap' = Restored(disk)
  /\ disk' = IF disk.state \in ACTIVE \/ (disk.state # "IDLE" /\ ~contractOK)
             THEN snap' ELSE disk
  /\ episodes' = IF disk.state = "REPAIR_SUPERVISOR" /\ contractOK
                    /\ disk.lastEpisode # None
                 THEN [episodes EXCEPT ![disk.lastEpisode].interrupted = TRUE]
                 ELSE episodes
  /\ stopEvent' = FALSE /\ opEpisode' = None /\ lockHolder' = None
  /\ pc' = [w \in Worker |-> "idle"]
  /\ inv' = [w \in Worker |-> 0]
  /\ found' = [w \in Worker |-> {}]
  /\ job' = [w \in Worker |-> None]
  /\ key' = [w \in Worker |-> SomeKey]
  /\ goal' = [w \in Worker |-> "FAILED_UNRECOVERABLE"]
  /\ back' = [w \in Worker |-> "settle"]
  /\ result' = [w \in Worker |-> NoResult]
  /\ notifies' = [w \in Worker |-> FALSE]
  /\ UNCHANGED <<projected, world, execs>>
-----------------------------------------------------------------------------
(* What happens outside the controller.                                         *)

RepositoryChanges == repo < MaxRepo /\ repo' = repo + 1
                     /\ UNCHANGED <<gen, sources, retained, resolved, contractOK>>

ArtifactChanges ==
  \E g \in Gaps : /\ gen[g] < MaxGen /\ gen' = [gen EXCEPT ![g] = @ + 1]
                  /\ UNCHANGED <<repo, sources, retained, resolved, contractOK>>

ArtifactRetained ==
  \E g \in Retainable \ retained : /\ retained' = retained \cup {g}
                             /\ UNCHANGED <<repo, gen, sources, resolved, contractOK>>

PrerequisiteMet == /\ snap.blocker # None /\ ~resolved /\ resolved' = TRUE
                   /\ UNCHANGED <<repo, gen, sources, retained, contractOK>>

(* A source goes missing while the repository changes, and may come back.       *)
SourcesChange == /\ IF sources THEN repo < MaxRepo /\ repo' = repo + 1
                               ELSE UNCHANGED repo
                 /\ sources' = ~sources
                 /\ UNCHANGED <<gen, retained, resolved, contractOK>>

ContractChanges == /\ contractOK /\ repo < MaxRepo /\ repo' = repo + 1
                   /\ contractOK' = FALSE
                   /\ UNCHANGED <<gen, sources, retained, resolved>>

Environment ==
  /\ \/ RepositoryChanges \/ ArtifactChanges \/ ArtifactRetained
     \/ PrerequisiteMet \/ SourcesChange \/ ContractChanges
  /\ UNCHANGED <<mem, disk, episodes, pc, local, projected, crashes, execs>>
-----------------------------------------------------------------------------
WorkerStep(w) ==
  \/ PreflightContract(w) \/ PreflightBlocked(w) \/ PreflightResolved(w)
  \/ PreflightSources(w) \/ LoadDay(w)
  \/ LoopStopped(w) \/ LoopComplete(w) \/ LoopOperatorResume(w) \/ LoopDiagnose(w)
  \/ DiagnoseInterrupted(w) \/ DiagnoseAction(w) \/ DiagnoseAuthority(w)
  \/ DiagnoseNothing(w) \/ RouteObservedGap(w) \/ ResumeRepair(w)
  \/ BeginAction(w) \/ RunAction(w) \/ RecordResult(w)
  \/ OpenRepair(w) \/ RepairVerdict(w) \/ AcceptRepair(w) \/ CatalogRefuses(w)
  \/ BlockRepair(w)
  \/ Fail(w) \/ Recheck(w) \/ Repaired(w) \/ Revalidate(w) \/ StopTail(w)
  \/ HandleException(w) \/ Settle(w) \/ Notify(w)

Request ==
  \/ Start \/ Resume \/ OperatorResume \/ OperatorUnblock \/ OperatorLaunch
  \/ RepairAndGo \/ Stop
  \/ RegisterRetainedEvidence

Next == (\E w \in Worker : WorkerStep(w)) \/ Request \/ Restart \/ Environment

Spec == Init /\ [][Next]_vars

(* A started thread runs until it returns or the process dies; nothing obliges  *)
(* the operator or the world to act.                                            *)
FairSpec == Spec /\ \A w \in Worker : WF_vars(WorkerStep(w))
-----------------------------------------------------------------------------
TypeOK ==
  /\ snap \in Snapshot /\ disk \in Snapshot
  /\ episodes \in [Gaps -> Episode]
  /\ stopEvent \in BOOLEAN /\ opEpisode \in Gaps \cup {None}
  /\ lockHolder \in {None, "retry", "resume"}
  /\ pc \in [Worker -> PCs]
  /\ inv \in [Worker -> 0..MaxRepo]
  /\ found \in [Worker -> SUBSET Gaps]
  /\ job \in [Worker -> Gaps \cup {None}]
  /\ key \in [Worker -> Keys]
  /\ goal \in [Worker -> AUTHORITY \cup {"FAILED_UNRECOVERABLE"}]
  /\ back \in [Worker -> {"settle", "recheck", "reroute"}]
  /\ result \in [Worker -> Results]
  /\ notifies \in [Worker -> BOOLEAN]
  /\ projected \in DayState
  /\ repo \in 0..MaxRepo /\ gen \in [Gaps -> 0..MaxGen] /\ sources \in BOOLEAN
  /\ retained \subseteq Gaps /\ resolved \in BOOLEAN /\ contractOK \in BOOLEAN
  /\ crashes \in 0..MaxCrash
  /\ execs \in [Keys -> 0..2]

(* An identical action on identical input reaches the executor at most once,    *)
(* whatever is stopped, resumed, repaired or restarted in between               *)
(* (_select_registered_action and the attempt saved before the call).           *)
ActionAtMostOnce == \A k \in Keys : execs[k] <= 1

(* An action that has reached the executor has a durable attempt record, so no  *)
(* crash and no later save can make the controller forget that it was started.  *)
ExecutedIsRecorded == \A k \in Keys : execs[k] > 0 => disk.attempts[k] # None

(* A Day is durably COMPLETE only with a durable evidence record for every      *)
(* criterion (_complete after _evaluate_contract).                              *)
CompletionIsBacked ==
  disk.state = "COMPLETE" => \A g \in Gaps : \E n \in 0..MaxGen : <<g, n>> \in disk.evidence

(* A restart accepts a saved completion only when every record still validates  *)
(* against the artifacts as they are now, under the same contract               *)
(* (_restore_snapshot).                                                         *)
RestartRevalidates ==
  [][crashes' # crashes /\ snap'.state = "COMPLETE"
       => contractOK /\ \A g \in Gaps : <<g, gen[g]>> \in snap'.evidence]_vars

(* No registered action runs while the Day has an authority blocker, across     *)
(* every way of getting past preflight.                                         *)
NoActionWhileBlocked ==
  \A w \in Worker : pc[w] \in {"loop", "diagnose", "begin", "run", "repair", "verdict"}
                      => snap.blocker = None

(* With one worker at a time, the controller never makes a transition its own   *)
(* state machine refuses, and a Day fails for good only under a changed         *)
(* contract or on a verified repair that the catalogue refuses.  Of a repair    *)
(* with no route left it says nothing: the execution specification asks for the *)
(* failure there (154, 750) and rules it out while a person can decide (166,    *)
(* 895).                                                                        *)
FailureHasCause ==
  LET refused(g) == g # None /\ episodes[g].final = "VERIFIED"
      exhausted(g) == g # None /\ episodes[g].final = "HUMAN"
  IN  /\ \A w \in Worker : pc[w] = "except" =>
           ~contractOK \/ (snap.state = "REPAIR_SUPERVISOR" /\ refused(job[w]))
      /\ snap.state = "FAILED_UNRECOVERABLE" =>
           ~contractOK \/ refused(snap.lastEpisode) \/ exhausted(snap.lastEpisode)

(* The unfinished repair is the one the durable snapshot points at, with a      *)
(* failed item, so that a restart marks it interrupted and the worker comes     *)
(* back to it before any other work; and the first repair of a strategy is      *)
(* never left behind unfinished for a second episode.                           *)
OneUnfinishedRepair ==
  \A g \in Gaps :
    /\ episodes[g].open /\ episodes[g].final = None
         => disk.lastEpisode = g /\ Failed(disk, g)
    /\ episodes[g].left => Len(disk.items[g]) >= 2

(* "the repair deadline remains absolute and is not reset": a resumed repair    *)
(* goes on with its own episode.                                                *)
ResumedRepairGoesOn ==
  [][\A w \in Worker : pc[w] = "repair" /\ Resumed(w) /\ pc'[w] = "verdict"
                         => episodes' = episodes]_vars

(* When a reporting worker has returned, the run record shows the Day's state.  *)
ReturnedIsProjected ==
  \A w \in Worker : pc[w] = "idle" /\ notifies[w] => projected = snap.state

(* A Day that waits for an authority names the prerequisite it waits for, which *)
(* is what the operator is shown and what enables Resume.                       *)
AuthorityNamesItsBlocker ==
  lockHolder = None /\ snap.state \in AUTHORITY => snap.blocker # None

(* Every worker that settles the Day reports it to the run product.             *)
EveryWorkerReports ==
  [][\A w \in Worker : pc[w] = "settle" /\ pc'[w] = "idle" /\ crashes' = crashes
                         => snap.state \in ACTIVE]_vars

(* What a Day can spend on work: the inputs no action was begun on, the         *)
(* strategies without a repair item, the interrupted repairs to go on with.     *)
Untried == {k \in Keys : snap.attempts[k] = None}
Unrepaired == {g \in Gaps : snap.items[g] = <<>>}
Interruptions == {g \in Gaps : episodes[g].interrupted}

(* The most steps a worker can make at its place before it returns or spends    *)
(* one of them.                                                                 *)
StepsAhead(w) ==
  CASE pc[w] = "idle"                               -> 0
    [] pc[w] = "notify"                             -> 1
    [] pc[w] = "settle"                             -> 2
    [] pc[w] \in {"except", "stopTail"}             -> 3
    [] pc[w] = "fail"                               -> 4
    [] pc[w] \in {"begin", "resumeRepair"}          -> 5
    [] pc[w] = "diagnose"                           -> 6
    [] pc[w] = "loop"                               -> 7
    [] pc[w] \in {"reval", "validating"}            -> 8
    [] pc[w] \in {"direct", "inventory"}            -> 9
    [] pc[w] \in {"accept", "block", "load"}        -> 10
    [] pc[w] \in {"verdict", "sources"}             -> 11
    [] pc[w] = "preflight"                          -> 12
    [] pc[w] = "result"                             -> 13
    [] pc[w] = "run"                                -> 14
    [] pc[w] \in {"recheck", "reroute"}             -> IF snap.state \in ACTIVE THEN 9 ELSE 3
    [] pc[w] = "repair"                             -> IF snap.items[job[w]] = <<>> THEN 5 ELSE 12

(* While a worker is under way nothing gives the Day more work, and each of its *)
(* steps spends some or is one of the few that are left without: the loop of    *)
(* diagnosis, actions and repair, which has no bound of its own, runs out       *)
(* (_select_registered_action, _route_observed_gap, _repair_resumable).         *)
WorkRunsOut ==
  [][\A w \in Worker : pc[w] # "idle" /\ crashes' = crashes =>
       /\ Untried' \subseteq Untried /\ Unrepaired' \subseteq Unrepaired
       /\ Interruptions' \subseteq Interruptions
       /\ \/ UNCHANGED <<pc, StepsAhead(w)>>
          \/ ~UNCHANGED <<Untried, Unrepaired, Interruptions>>
          \/ StepsAhead(w)' < StepsAhead(w)]_vars

(* A worker that runs ends: there is no endless loop of diagnosis, actions and  *)
(* repair.                                                                      *)
WorkerReturns == \A w \in Worker : pc[w] # "idle" ~> pc[w] = "idle"
=============================================================================
