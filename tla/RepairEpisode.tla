---------------------------- MODULE RepairEpisode ----------------------------
(* One repair episode: _supervise_repair, _request_external_repair_guidance and *)
(* _accept_repair of backend/control/local_llm_day_program.py, with the episode *)
(* store of backend/control/solution_catalog.py and the review artifacts of     *)
(* backend/control/external_review.py.                                          *)
(*                                                                              *)
(* A bounded local phase of model proposals comes first, then the expert        *)
(* solver, then one advisory external review whose guidance a bounded builder   *)
(* applies.  The episode is saved between the steps, in a file of its own: the  *)
(* process may die between any two of them, and the operator then resumes the   *)
(* interrupted episode, or grants one more review after a provider failure.     *)
EXTENDS Integers, Sequences

CONSTANTS
  Proposal,       \* fingerprints of the proposals the local model may make
  MaxProposals,   \* MAX_LOCAL_PROPOSALS, and the schema's limit
  Seconds,        \* repair_deadline_seconds
  MaxTime,        \* bound: the clock
  MaxCrash        \* bound: process restarts

None == "none"

ASSUME EpisodeAssumption ==
  /\ None \notin Proposal
  /\ MaxProposals \in Nat /\ Seconds \in Nat \ {0}
  /\ MaxTime \in Nat /\ MaxCrash \in Nat

VARIABLES
  ep,         \* the RepairEpisode in the worker's hands
  saved,      \* its record in the episode file
  item,       \* the work item's saved state
  day,        \* the Day's saved state, as far as the repair is concerned
  pc,         \* where the worker is
  proposal,   \* the proposal it is trying
  verdict,    \* did the last executor run verify the repair?
  reply,      \* the review artifact file: what the reviewer answered
  catalog,    \* verified entries added to the solution catalogue
  clock,
  opened,     \* when the repair was first opened
  runs,       \* how often each kind of work was handed to the outside
  crashes

vars == <<ep, saved, item, day, pc, proposal, verdict, reply, catalog, clock,
          opened, runs, crashes>>
-----------------------------------------------------------------------------
Works == {"proposal", "local", "expert", "review", "builder"}
Outcomes == {"NO_PROPOSAL", "DUPLICATE", "PREFILTER_REJECTED", "REJECTED", "VERIFIED"}
Phases == {None, "SUBMISSION_STARTED", "ARTIFACT_RECORDED", "BUILDER_STARTED",
           "BUILDER_VERIFIED", "BUILDER_FAILED"}
Verified == {"LOCAL_VERIFIED", "CODEX_VERIFIED", "EXTERNAL_REVIEW_VERIFIED"}
Unverified == {"EXTERNAL_REVIEW_NOT_ELIGIBLE", "EXTERNAL_REVIEW_UNRESOLVED",
               "EXTERNAL_REVIEW_BUILDER_FAILED"}

(* What a review comes back with: guidance, a refusal to guide, a failure of    *)
(* the provider that the operator may retry, or one that he may not.            *)
Replies == {"GUIDANCE", "DECISION", "PROVIDER", "OTHER"}
Failures == {None, "PROVIDER", "OTHER", "UNCERTAIN"}

Attempt == [by : Proposal \cup {None}, outcome : Outcomes]

Episode ==
  [deadline : Nat, attempts : Seq(Attempt), expert : {None, "FAILED", "VERIFIED"},
   final : {None} \cup Verified \cup Unverified, phase : Phases, artifact : BOOLEAN,
   failure : Failures, retries : Nat, interrupted : BOOLEAN]

(* deadline is 0 in the record of an episode that was never saved.              *)
NoEpisode ==
  [deadline |-> 0, attempts |-> <<>>, expert |-> None, final |-> None, phase |-> None,
   artifact |-> FALSE, failure |-> None, retries |-> 0, interrupted |-> FALSE]

NewEpisode(t) == [NoEpisode EXCEPT !.deadline = t + Seconds]

PCs == {"open", "propose", "local", "judge", "expert", "solved", "review", "submit",
        "record", "guidance", "build", "built", "catalog", "close", "accept", "ended",
        "down"}

Init ==
  /\ ep = NoEpisode /\ saved = NoEpisode /\ item = None /\ day = "repairing"
  /\ pc = "open" /\ proposal = None /\ verdict = FALSE /\ reply = None
  /\ catalog = 0 /\ clock = 0 /\ opened = 0
  /\ runs = [w \in Works |-> 0] /\ crashes = 0
-----------------------------------------------------------------------------
Seen == {ep.attempts[i].by : i \in DOMAIN ep.attempts}

Tried(p, o) == [ep EXCEPT !.attempts = Append(@, [by |-> p, outcome |-> o])]

(* RepairEpisodeStore.save: the file holds what the worker holds.               *)
Save(e) == ep' = e /\ saved' = e

Unsaved == UNCHANGED <<ep, saved>>

Goto(p) == pc' = p

(* Work is done outside the controller; only a passed postcheck verifies it.    *)
Run(w) ==
  /\ runs' = [runs EXCEPT ![w] = @ + 1]
  /\ verdict' \in BOOLEAN
  /\ UNCHANGED <<ep, saved, proposal, reply>>

Elsewhere == UNCHANGED <<item, day, catalog, clock, opened, crashes>>

Quiet == UNCHANGED <<proposal, verdict, reply, runs>>

(* Mutant: every start of the repair gets its own deadline.                     *)
FreshOpen ==
  /\ pc = "open"
  /\ Save([ep EXCEPT !.deadline = clock + Seconds])
  /\ opened' = IF ep.deadline = 0 THEN clock ELSE opened
  /\ item' = "FAILED"
  /\ Goto("propose")
  /\ Quiet /\ UNCHANGED <<day, catalog, clock, crashes>>

(* The head of _supervise_repair: open an episode, or go on with the unfinished *)
(* one, and save it together with the snapshot that names it (a crash between   *)
(* these two saves leaves a record nothing refers to).                          *)
Open ==
  /\ pc = "open"
  /\ Save(IF ep.deadline = 0 THEN NewEpisode(clock) ELSE ep)
  /\ opened' = IF ep.deadline = 0 THEN clock ELSE opened
  /\ item' = "FAILED"
  /\ Goto("propose")
  /\ Quiet /\ UNCHANGED <<day, catalog, clock, crashes>>

(* Mutant: the local phase does not ask whether the expert has been called.     *)
ForgetfulAsksLocal == Len(ep.attempts) < MaxProposals /\ clock < ep.deadline

(* The condition of the local loop.                                             *)
AsksLocal == ep.expert = None /\ Len(ep.attempts) < MaxProposals /\ clock < ep.deadline

(* A missing, repeated or out-of-scope proposal ends the local phase.           *)
ProposeRefused ==
  /\ pc = "propose" /\ AsksLocal
  /\ runs' = [runs EXCEPT !["proposal"] = @ + 1]
  /\ \/ Save(Tried(None, "NO_PROPOSAL"))
     \/ \E p \in Proposal :
          Save(Tried(p, IF p \in Seen THEN "DUPLICATE" ELSE "PREFILTER_REJECTED"))
  /\ Goto("expert")
  /\ Elsewhere /\ UNCHANGED <<proposal, verdict, reply>>

ProposeBounded ==
  /\ pc = "propose" /\ AsksLocal
  /\ runs' = [runs EXCEPT !["proposal"] = @ + 1]
  /\ proposal' \in Proposal \ Seen
  /\ Goto("local")
  /\ Unsaved /\ Elsewhere /\ UNCHANGED <<verdict, reply>>

RunLocal == pc = "local" /\ Run("local") /\ Goto("judge") /\ Elsewhere

(* Mutant: a rejected proposal goes to the executor once more.                  *)
StubbornJudge ==
  /\ pc = "judge"
  /\ IF verdict
     THEN Save([Tried(proposal, "VERIFIED") EXCEPT !.final = "LOCAL_VERIFIED"]) /\ Goto("catalog")
     ELSE Save(Tried(proposal, "REJECTED")) /\ Goto("local")
  /\ Elsewhere /\ UNCHANGED <<proposal, verdict, reply, runs>>

Judge ==
  /\ pc = "judge"
  /\ IF verdict
     THEN Save([Tried(proposal, "VERIFIED") EXCEPT !.final = "LOCAL_VERIFIED"]) /\ Goto("catalog")
     ELSE Save(Tried(proposal, "REJECTED")) /\ Goto("propose")
  /\ proposal' = None
  /\ Elsewhere /\ UNCHANGED <<verdict, reply, runs>>

(* Mutant: only the deadline, not the number of tries, ends the local phase.    *)
PatientLocalOver ==
  /\ pc = "propose" /\ (ep.expert # None \/ clock >= ep.deadline)
  /\ Goto(IF ep.expert = None THEN "expert" ELSE "review")
  /\ Unsaved /\ Elsewhere /\ Quiet

LocalOver ==
  /\ pc = "propose" /\ ~AsksLocal
  /\ Goto(IF ep.expert = None THEN "expert" ELSE "review")
  /\ Unsaved /\ Elsewhere /\ Quiet

RunExpert == pc = "expert" /\ Run("expert") /\ Goto("solved") /\ Elsewhere

(* A verified answer of the expert is not saved here, but by _accept_repair.    *)
Solved ==
  /\ pc = "solved"
  /\ IF verdict
     THEN /\ ep' = [ep EXCEPT !.expert = "VERIFIED", !.final = "CODEX_VERIFIED"]
          /\ UNCHANGED saved /\ Goto("catalog")
     ELSE Save([ep EXCEPT !.expert = "FAILED"]) /\ Goto("review")
  /\ Elsewhere /\ Quiet
-----------------------------------------------------------------------------
(* _request_external_repair_guidance                                            *)

(* No work order, or no engineering diagnosis of the gap, to review.            *)
NotEligible ==
  /\ pc = "review"
  /\ Save([ep EXCEPT !.final = "EXTERNAL_REVIEW_NOT_ELIGIBLE"])
  /\ Goto("ended")
  /\ Elsewhere /\ Quiet

(* A submission was begun and its answer is not known: it is never repeated.    *)
ReviewUncertain ==
  /\ pc = "review" /\ ~ep.artifact
  /\ ep.phase \in {"SUBMISSION_STARTED", "ARTIFACT_RECORDED", "BUILDER_STARTED"}
  /\ Save([ep EXCEPT !.failure = "UNCERTAIN", !.final = "EXTERNAL_REVIEW_UNRESOLVED"])
  /\ Goto("ended")
  /\ Elsewhere /\ Quiet

ReviewKnown == pc = "review" /\ ep.artifact /\ Goto("guidance") /\ Unsaved /\ Elsewhere /\ Quiet

(* Mutant: the submission is not announced in the episode file.                 *)
SilentBeginReview ==
  /\ pc = "review" /\ ~ep.artifact /\ ep.phase \in {None, "BUILDER_FAILED"}
  /\ ep' = [ep EXCEPT !.phase = "SUBMISSION_STARTED"] /\ UNCHANGED saved
  /\ Goto("submit")
  /\ Elsewhere /\ Quiet

BeginReview ==
  /\ pc = "review" /\ ~ep.artifact /\ ep.phase \in {None, "BUILDER_FAILED"}
  /\ Save([ep EXCEPT !.phase = "SUBMISSION_STARTED"])
  /\ Goto("submit")
  /\ Elsewhere /\ Quiet

(* request_review writes the artifact file, whatever came back.                 *)
Submit ==
  /\ pc = "submit"
  /\ runs' = [runs EXCEPT !["review"] = @ + 1]
  /\ reply' \in Replies
  /\ Goto("record")
  /\ Unsaved /\ Elsewhere /\ UNCHANGED <<proposal, verdict>>

(* Mutant: whatever the artifact says is taken for a failure code.              *)
RawRecordReview ==
  /\ pc = "record"
  /\ Save([ep EXCEPT !.artifact = TRUE, !.phase = "ARTIFACT_RECORDED", !.failure = reply])
  /\ Goto("guidance")
  /\ Elsewhere /\ Quiet

RecordReview ==
  /\ pc = "record"
  /\ Save([ep EXCEPT !.artifact = TRUE, !.phase = "ARTIFACT_RECORDED",
                     !.failure = IF reply \in Failures THEN reply ELSE None])
  /\ Goto("guidance")
  /\ Elsewhere /\ Quiet

Guidance ==
  /\ pc = "guidance"
  /\ IF reply = "GUIDANCE"
     THEN Save([ep EXCEPT !.phase = "BUILDER_STARTED"]) /\ Goto("build")
     ELSE Save([ep EXCEPT !.final = "EXTERNAL_REVIEW_UNRESOLVED"]) /\ Goto("ended")
  /\ Elsewhere /\ Quiet

RunBuilder == pc = "build" /\ Run("builder") /\ Goto("built") /\ Elsewhere

(* Mutant: a builder that has failed is given the guidance once more.           *)
PersistentBuilt ==
  /\ pc = "built"
  /\ IF verdict
     THEN /\ Save([ep EXCEPT !.phase = "BUILDER_VERIFIED", !.final = "EXTERNAL_REVIEW_VERIFIED"])
          /\ Goto("catalog")
     ELSE Unsaved /\ Goto("guidance")
  /\ Elsewhere /\ Quiet

Built ==
  /\ pc = "built"
  /\ IF verdict
     THEN /\ Save([ep EXCEPT !.phase = "BUILDER_VERIFIED", !.final = "EXTERNAL_REVIEW_VERIFIED"])
          /\ Goto("catalog")
     ELSE /\ Save([ep EXCEPT !.phase = "BUILDER_FAILED",
                             !.final = "EXTERNAL_REVIEW_BUILDER_FAILED"])
          /\ Goto("ended")
  /\ Elsewhere /\ Quiet
-----------------------------------------------------------------------------
(* _accept_repair: the catalogue, the episode and the snapshot, in this order.  *)

AddToCatalog ==
  /\ pc = "catalog" /\ catalog' = catalog + 1 /\ Goto("close")
  /\ Unsaved /\ Quiet /\ UNCHANGED <<item, day, clock, opened, crashes>>

(* The entry needs a root cause, and a proposal or a guidance may have come     *)
(* without a diagnosis: the worker's exception handler fails the Day for good.  *)
(* The expert's diagnosis is a phrase of the controller's own.                  *)
CatalogRefuses ==
  /\ pc = "catalog" /\ ep.final # "CODEX_VERIFIED"
  /\ day' = "failed" /\ Goto("down")
  /\ Unsaved /\ Quiet /\ UNCHANGED <<item, catalog, clock, opened, crashes>>

CloseEpisode == pc = "close" /\ Save(ep) /\ Goto("accept") /\ Elsewhere /\ Quiet

AcceptItem ==
  /\ pc = "accept" /\ item' = "COMPLETE" /\ day' = "revalidating" /\ Goto("down")
  /\ Unsaved /\ Quiet /\ UNCHANGED <<catalog, clock, opened, crashes>>

(* _external_repair_blocker                                                     *)
BlockDay ==
  /\ pc = "ended" /\ day' = "blocked" /\ Goto("down")
  /\ Unsaved /\ Quiet /\ UNCHANGED <<item, catalog, clock, opened, crashes>>
-----------------------------------------------------------------------------
(* A restart during the repair marks the episode interrupted.  Before the first *)
(* save, and once the repair is accepted, there is nothing of it to lose.       *)
Crash ==
  /\ crashes < MaxCrash /\ saved.deadline # 0 /\ day # "revalidating"
  /\ crashes' = crashes + 1
  /\ Save(IF day = "repairing" THEN [saved EXCEPT !.interrupted = TRUE] ELSE saved)
  /\ day' = IF day = "repairing" THEN "paused" ELSE day
  /\ Goto("down") /\ proposal' = None /\ verdict' = FALSE
  /\ UNCHANGED <<item, reply, catalog, clock, opened, runs>>

(* The operator resumes the interrupted repair; the worker goes through its     *)
(* preflight and diagnosis (DayController) to the same episode.                 *)
Resume ==
  /\ pc = "down" /\ day = "paused" /\ item = "FAILED"
  /\ ep.interrupted /\ ep.final = None
  /\ ep' = [ep EXCEPT !.interrupted = FALSE] /\ UNCHANGED saved
  /\ day' = "repairing" /\ Goto("open")
  /\ Quiet /\ UNCHANGED <<item, catalog, clock, opened, crashes>>

(* Mutant: the operator's retry starts the repair from the expert again.        *)
RewindingGrant ==
  /\ pc = "down" /\ day = "blocked" /\ ep.failure = "PROVIDER" /\ ep.retries < 1
  /\ Save([ep EXCEPT !.retries = @ + 1, !.artifact = FALSE, !.failure = None, !.phase = None,
                     !.final = None, !.interrupted = TRUE, !.expert = None])
  /\ day' = "paused"
  /\ UNCHANGED <<item, pc, catalog, clock, opened, crashes>> /\ Quiet

(* _begin_external_review_operator_resume, after which the Day goes the way of  *)
(* Resume.                                                                      *)
GrantReview ==
  /\ pc = "down" /\ day = "blocked" /\ ep.failure = "PROVIDER" /\ ep.retries < 1
  /\ Save([ep EXCEPT !.retries = @ + 1, !.artifact = FALSE, !.failure = None, !.phase = None,
                     !.final = None, !.interrupted = TRUE])
  /\ day' = "paused"
  /\ UNCHANGED <<item, pc, catalog, clock, opened, crashes>> /\ Quiet

Tick == clock < MaxTime /\ clock' = clock + 1
        /\ Unsaved /\ Quiet /\ UNCHANGED <<item, day, pc, catalog, opened, crashes>>
-----------------------------------------------------------------------------
Work ==
  \/ Open \/ ProposeRefused \/ ProposeBounded \/ RunLocal \/ Judge \/ LocalOver
  \/ RunExpert \/ Solved
  \/ NotEligible \/ ReviewUncertain \/ ReviewKnown \/ BeginReview \/ Submit \/ RecordReview
  \/ Guidance \/ RunBuilder \/ Built
  \/ AddToCatalog \/ CatalogRefuses \/ CloseEpisode \/ AcceptItem \/ BlockDay

Next == Work \/ Crash \/ Resume \/ GrantReview \/ Tick

Spec == Init /\ [][Next]_vars

(* The worker thread runs until the repair has an end; nothing obliges the      *)
(* clock to move or the operator to act.                                        *)
FairSpec == Spec /\ WF_vars(Work)
-----------------------------------------------------------------------------
TypeOK ==
  /\ ep \in Episode /\ saved \in Episode
  /\ item \in {None, "FAILED", "COMPLETE"}
  /\ day \in {"repairing", "paused", "blocked", "revalidating", "failed"}
  /\ pc \in PCs /\ proposal \in Proposal \cup {None} /\ verdict \in BOOLEAN
  /\ reply \in Replies \cup {None} /\ catalog \in Nat
  /\ clock \in 0..MaxTime /\ opened \in 0..MaxTime
  /\ runs \in [Works -> Nat] /\ crashes \in 0..MaxCrash

SubmittedOnce == runs["review"] <= 1 + saved.retries

BuilderNeedsGuidance == runs["builder"] > 0 => reply = "GUIDANCE"

(* An external review is submitted once, and once more for the one retry the    *)
(* operator may grant, whatever crashes before, during or after a submission;   *)
(* and the builder only ever works from guidance the last submission gave.      *)
ReviewOncePerGrant == SubmittedOnce /\ BuilderNeedsGuidance

(* A crash repeats at most the one piece of work it has cut short.  Proposals,  *)
(* the expert and the builder are not announced like a review; that the outcome *)
(* of each is saved before the next is asked for keeps what a repair spends     *)
(* within the limit on tries, one expert and one builder, and one more of them  *)
(* for each crash.  The executor tries no proposal twice.                       *)
WorkIsBounded ==
  /\ runs["proposal"] + runs["expert"] + runs["builder"] <= MaxProposals + 2 + crashes
  /\ runs["local"] <= runs["proposal"]

(* Once the expert's failure is saved, neither the local model nor the expert   *)
(* is asked again, across crashes, resumes and the operator's retry.            *)
EscalationIsFinal ==
  [][saved.expert = "FAILED" =>
       \A w \in {"proposal", "local", "expert"} : runs'[w] = runs[w]]_vars

(* No proposal is asked for after the deadline fixed when the repair was first  *)
(* opened: a restart does not give the local phase more time.                   *)
LocalPhaseBounded ==
  [][runs'["proposal"] # runs["proposal"] => clock < opened + Seconds]_vars

(* A running repair comes to an end without the clock's help.                   *)
EpisodeEnds == day = "repairing" ~> day # "repairing"

(* The steps a repair has left at each place, and three more for each try that  *)
(* is left to the local model.                                                  *)
Ahead == [open |-> 15, propose |-> 14, local |-> 13, judge |-> 12, expert |-> 11,
          solved |-> 10, review |-> 9, submit |-> 8, record |-> 7, guidance |-> 6,
          build |-> 5, built |-> 4, catalog |-> 3, close |-> 2, accept |-> 1, ended |-> 1,
          down |-> 0]

StepsLeft == 3 * (MaxProposals - Len(saved.attempts)) + Ahead[pc]

(* Each step of a running repair, whatever its outcome, brings the end nearer:  *)
(* the local loop and the way through expert, review and builder never come     *)
(* back to a place with as much ahead, and a repair that is resumed has all its *)
(* tries counted.                                                               *)
RepairRunsOut ==
  [][day = "repairing" /\ clock' = clock => StepsLeft' \in 0..(StepsLeft - 1)]_vars

(* The saved episode, read as RepairLadder reads it.                            *)
Stage == CASE saved.deadline = 0 -> "unopened"
           [] saved.deadline # 0 /\ saved.final # None -> "closed"
           [] saved.deadline # 0 /\ saved.final = None /\ saved.expert = "FAILED" -> "review"
           [] OTHER -> "local"

Ladder == INSTANCE RepairLadder WITH
  stage <- Stage,
  tries <- Len(saved.attempts),
  grants <- saved.retries,
  verified <- saved.final \in Verified

(* What is saved of an episode only ever climbs the ladder, whatever crashes    *)
(* and resumes happen in between.  The ladder's limits are those of the schema  *)
(* the file is read back with: one record over them and RepairEpisodeStore      *)
(* forgets every episode of the project.                                        *)
ImplementsLadder == Ladder!Spec

(* A repair whose verification is on record is accepted: after a restart the    *)
(* work item it repaired is complete, unless the catalogue has refused it.      *)
VerifiedIsAccepted ==
  pc = "down" /\ day # "failed" /\ saved.final \in Verified => item = "COMPLETE"
=============================================================================
