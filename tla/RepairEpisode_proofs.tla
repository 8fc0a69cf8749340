------------------------- MODULE RepairEpisode_proofs -------------------------
(* What RepairEpisode keeps, for every set of proposals, limit on their number, *)
(* deadline, and number of crashes.                                             *)
EXTENDS RepairEpisode, TLAPS

(* What is in the worker's hands is what is saved, but for the flag a resume    *)
(* clears, and for the expert's verified answer until it is accepted.           *)
Linked ==
  /\ ep.deadline = saved.deadline /\ ep.attempts = saved.attempts /\ ep.phase = saved.phase
  /\ ep.artifact = saved.artifact /\ ep.failure = saved.failure /\ ep.retries = saved.retries
  /\ pc \notin {"catalog", "close"} => ep.final = saved.final /\ ep.expert = saved.expert
  /\ pc \in {"catalog", "close"} =>
       /\ ep.final \in Verified
       /\ \/ saved.final = ep.final /\ saved.expert = ep.expert
          \/ /\ saved.final = None /\ saved.expert = None
             /\ ep.final = "CODEX_VERIFIED" /\ ep.expert = "VERIFIED"

(* Where the worker is tells how far the saved episode has come.                *)
Staged ==
  /\ saved.deadline = 0 => pc = "open" /\ saved = NoEpisode
  /\ saved.deadline # 0 => saved.deadline = opened + Seconds
  /\ pc \in {"open", "propose", "local", "judge", "expert", "solved"} => saved.final = None
  /\ pc \in {"local", "judge", "expert", "solved"} => saved.expert = None
  /\ pc \in {"local", "judge"} => Len(saved.attempts) < MaxProposals
  /\ pc \in {"review", "submit", "record", "guidance", "build", "built"} =>
       saved.final = None /\ saved.expert = "FAILED"
  /\ pc = "ended" \/ day = "blocked" => saved.final \in Unverified /\ saved.expert = "FAILED"
  /\ day = "blocked" => pc = "down"
  /\ saved.expert = "VERIFIED" => saved.final = "CODEX_VERIFIED"

(* How the review's phase, its artifact and what was handed out go together.    *)
Reviewed ==
  /\ saved.phase = None => runs["review"] <= saved.retries /\ saved.failure = None
  /\ saved.phase \in {None, "SUBMISSION_STARTED"} => runs["builder"] = 0
  /\ saved.phase \notin {None, "SUBMISSION_STARTED"} => saved.artifact
  /\ pc = "submit" => runs["review"] <= saved.retries
  /\ pc \in {"submit", "record"} => saved.phase = "SUBMISSION_STARTED" /\ saved.failure = None
  /\ pc = "guidance" => saved.artifact
  /\ pc \in {"build", "built"} => reply = "GUIDANCE" /\ saved.phase = "BUILDER_STARTED"
  /\ saved.failure = "PROVIDER" => reply = "PROVIDER"

(* The file always satisfies the schema it is read back with.                   *)
StaysLoadable == Len(saved.attempts) <= MaxProposals /\ saved.retries <= 1

IInv ==
  /\ TypeOK /\ Linked /\ Staged /\ Reviewed
  /\ StaysLoadable /\ SubmittedOnce /\ BuilderNeedsGuidance
-----------------------------------------------------------------------------
LEMMA EpisodeTyped ==
  /\ NoEpisode \in Episode
  /\ \A t \in Nat : NewEpisode(t) \in Episode
<1>1. NoEpisode \in Episode
  BY DEF NoEpisode, Episode, Phases, Failures, None
<1>2. ASSUME NEW t \in Nat PROVE NewEpisode(t) \in Episode
  <2>1. t + Seconds \in Nat
    BY EpisodeAssumption
  <2> QED BY <1>1, <2>1 DEF NewEpisode, Episode
<1> QED BY <1>1, <1>2

LEMMA TriedTyped ==
  ASSUME TypeOK, NEW p \in Proposal \cup {None}, NEW o \in Outcomes
  PROVE  Tried(p, o) \in Episode
<1>1. [by |-> p, outcome |-> o] \in Attempt
  BY DEF Attempt
<1>2. Append(ep.attempts, [by |-> p, outcome |-> o]) \in Seq(Attempt)
  BY <1>1 DEF TypeOK, Episode
<1> QED BY <1>2 DEF TypeOK, Tried, Episode

(* The updates of an episode that its steps make keep it an episode.            *)
LEMMA UpdatedTyped ==
  ASSUME NEW e \in Episode
  PROVE  /\ [e EXCEPT !.expert = "VERIFIED", !.final = "CODEX_VERIFIED"] \in Episode
         /\ [e EXCEPT !.expert = "FAILED"] \in Episode
         /\ \A f \in Verified \cup Unverified : [e EXCEPT !.final = f] \in Episode
         /\ \A f \in Verified \cup Unverified, p \in Phases : [e EXCEPT !.phase = p, !.final = f] \in Episode
         /\ \A p \in Phases : [e EXCEPT !.phase = p] \in Episode
         /\ [e EXCEPT !.failure = "UNCERTAIN", !.final = "EXTERNAL_REVIEW_UNRESOLVED"] \in Episode
         /\ \A f \in Failures :
              [e EXCEPT !.artifact = TRUE, !.phase = "ARTIFACT_RECORDED", !.failure = f] \in Episode
         /\ \A b \in BOOLEAN : [e EXCEPT !.interrupted = b] \in Episode
         /\ [e EXCEPT !.retries = @ + 1, !.artifact = FALSE, !.failure = None, !.phase = None,
                      !.final = None, !.interrupted = TRUE] \in Episode
<1>1. [e EXCEPT !.expert = "VERIFIED", !.final = "CODEX_VERIFIED"] \in Episode
  BY DEF Episode, Verified, Unverified
<1>2. [e EXCEPT !.expert = "FAILED"] \in Episode
  BY DEF Episode
<1>3. \A f \in Verified \cup Unverified : [e EXCEPT !.final = f] \in Episode
  BY DEF Episode
<1>4. \A f \in Verified \cup Unverified, p \in Phases : [e EXCEPT !.phase = p, !.final = f] \in Episode
  BY DEF Episode
<1>5. \A p \in Phases : [e EXCEPT !.phase = p] \in Episode
  BY DEF Episode
<1>6. [e EXCEPT !.failure = "UNCERTAIN", !.final = "EXTERNAL_REVIEW_UNRESOLVED"] \in Episode
  BY DEF Episode, Verified, Unverified, Failures
<1>7. \A f \in Failures :
       [e EXCEPT !.artifact = TRUE, !.phase = "ARTIFACT_RECORDED", !.failure = f] \in Episode
  BY DEF Episode, Phases
<1>8. \A b \in BOOLEAN : [e EXCEPT !.interrupted = b] \in Episode
  BY DEF Episode
<1>9. [e EXCEPT !.retries = @ + 1, !.artifact = FALSE, !.failure = None, !.phase = None,
               !.final = None, !.interrupted = TRUE] \in Episode
  <2>1. e.retries + 1 \in Nat
    BY DEF Episode
  <2> QED BY <2>1 DEF Episode, Phases, Failures
<1> QED BY <1>1, <1>2, <1>3, <1>4, <1>5, <1>6, <1>7, <1>8, <1>9

LEMMA TypedStep ==
  ASSUME TypeOK, [Next]_vars
  PROVE  TypeOK'
<1> USE EpisodeAssumption, EpisodeTyped DEF TypeOK, Save, Unsaved, Quiet, Elsewhere, Goto, PCs
<1>1. CASE Open
  BY <1>1 DEF Open
<1>2. CASE ProposeRefused \/ ProposeBounded
  <2>1. runs' \in [Works -> Nat]
    BY <1>2 DEF ProposeRefused, ProposeBounded, Works
  <2>2. CASE ProposeRefused
    <3>1. PICK p \in Proposal \cup {None}, o \in Outcomes : Save(Tried(p, o))
      BY <2>2 DEF ProposeRefused, Outcomes
    <3>2. ep' \in Episode /\ saved' \in Episode
      BY <3>1, TriedTyped
    <3> QED BY <2>1, <2>2, <3>2 DEF ProposeRefused
  <2> QED BY <1>2, <2>1, <2>2 DEF ProposeBounded
<1>3. ASSUME NEW w \in {"local", "expert", "builder"}, Run(w)
      PROVE  /\ runs' \in [Works -> Nat] /\ verdict' \in BOOLEAN
             /\ UNCHANGED <<ep, saved, proposal, reply>>
  BY <1>3 DEF Run, Works
<1>4. CASE RunLocal \/ RunExpert \/ RunBuilder
  BY <1>3, <1>4 DEF RunLocal, RunExpert, RunBuilder
<1>5. CASE Judge
  <2>1. Tried(proposal, "VERIFIED") \in Episode /\ Tried(proposal, "REJECTED") \in Episode
    BY TriedTyped DEF Outcomes
  <2>2. [Tried(proposal, "VERIFIED") EXCEPT !.final = "LOCAL_VERIFIED"] \in Episode
    BY <2>1 DEF Episode, Verified
  <2> HIDE DEF TypeOK
  <2>3. ep' \in Episode /\ saved' \in Episode
    BY <1>5, <2>1, <2>2 DEF Judge
  <2> QED BY <1>5, <2>3 DEF Judge, TypeOK
<1>6. CASE LocalOver \/ ReviewKnown \/ AddToCatalog \/ CatalogRefuses \/ CloseEpisode
           \/ AcceptItem \/ BlockDay \/ Tick
  BY <1>6 DEF LocalOver, ReviewKnown, AddToCatalog, CatalogRefuses, CloseEpisode,
                 AcceptItem, BlockDay, Tick
<1>7. CASE Solved \/ NotEligible \/ ReviewUncertain \/ BeginReview \/ RecordReview
           \/ Guidance \/ Built \/ Crash \/ Resume \/ GrantReview
  <2> USE UpdatedTyped DEF Phases, Failures, Verified, Unverified, None
  <2>1. CASE Solved
    BY <2>1 DEF Solved
  <2>2. CASE NotEligible
    BY <2>2 DEF NotEligible
  <2>3. CASE ReviewUncertain
    BY <2>3 DEF ReviewUncertain
  <2>4. CASE BeginReview
    BY <2>4 DEF BeginReview
  <2>5. CASE RecordReview
    BY <2>5 DEF RecordReview
  <2>6. CASE Guidance
    <3>1. ep' \in Episode /\ saved' \in Episode
      <4>1. [ep EXCEPT !.phase = "BUILDER_STARTED"] \in Episode
            /\ [ep EXCEPT !.final = "EXTERNAL_REVIEW_UNRESOLVED"] \in Episode
        OBVIOUS
      <4> QED BY <2>6, <4>1 DEF Guidance
    <3> QED BY <2>6, <3>1 DEF Guidance
  <2>7. CASE Built
    <3>1. ep' \in Episode /\ saved' \in Episode
      <4>1. [ep EXCEPT !.phase = "BUILDER_VERIFIED", !.final = "EXTERNAL_REVIEW_VERIFIED"] \in Episode
            /\ [ep EXCEPT !.phase = "BUILDER_FAILED",
                          !.final = "EXTERNAL_REVIEW_BUILDER_FAILED"] \in Episode
        OBVIOUS
      <4> QED BY <2>7, <4>1 DEF Built
    <3> QED BY <2>7, <3>1 DEF Built
  <2>8. CASE Crash
    <3>1. [saved EXCEPT !.interrupted = TRUE] \in Episode
      OBVIOUS
    <3>2. ep' \in Episode /\ saved' \in Episode
      BY <2>8, <3>1 DEF Crash
    <3>3. crashes' \in 0..MaxCrash
      <4>1. crashes \in 0..MaxCrash /\ crashes < MaxCrash /\ crashes' = crashes + 1
            /\ MaxCrash \in Nat
        BY <2>8 DEF Crash
      <4> HIDE UpdatedTyped, EpisodeTyped DEF TypeOK
      <4> QED BY <4>1
    <3>4. day' \in {"paused", "blocked", "revalidating", "failed"}
      BY <2>8 DEF Crash
    <3> QED BY <2>8, <3>2, <3>3, <3>4 DEF Crash
  <2>9. CASE Resume
    BY <2>9 DEF Resume
  <2>10. CASE GrantReview
    BY <2>10 DEF GrantReview
  <2> QED BY <1>7, <2>1, <2>2, <2>3, <2>4, <2>5, <2>6, <2>7, <2>8, <2>9, <2>10
<1>8. CASE Submit
  BY <1>8 DEF Submit, Works
<1>9. CASE UNCHANGED vars
  BY <1>9 DEF vars
<1> QED BY <1>1, <1>2, <1>4, <1>5, <1>6, <1>7, <1>8, <1>9 DEF Next, Work

LEMMA LinkedStep ==
  ASSUME TypeOK, Linked, Staged, [Next]_vars
  PROVE  Linked'
<1> USE DEF TypeOK, Linked, Save, Unsaved, Quiet, Elsewhere, Goto, Run, Verified
<1>1. CASE Open \/ ProposeRefused \/ ProposeBounded \/ LocalOver
  BY <1>1, EpisodeAssumption DEF Open, ProposeRefused, ProposeBounded, LocalOver
<1>2. CASE RunLocal \/ RunExpert \/ RunBuilder
  BY <1>2 DEF RunLocal, RunExpert, RunBuilder
<1>3. CASE Judge
  BY <1>3 DEF Judge, Tried, Episode
<1>4. CASE Solved
  BY <1>4 DEF Solved, Staged, Episode
<1>5. CASE NotEligible \/ ReviewUncertain \/ ReviewKnown \/ BeginReview \/ Submit
           \/ RecordReview \/ Guidance
  BY <1>5 DEF NotEligible, ReviewUncertain, ReviewKnown, BeginReview, Submit, RecordReview, Guidance
<1>6. CASE Built
  BY <1>6 DEF Built, Episode
<1>7. CASE AddToCatalog \/ CatalogRefuses \/ CloseEpisode \/ AcceptItem \/ BlockDay \/ Tick
  BY <1>7 DEF AddToCatalog, CatalogRefuses, CloseEpisode, AcceptItem, BlockDay, Tick
<1>8. CASE Crash \/ GrantReview
  BY <1>8 DEF Crash, GrantReview
<1>9. CASE Resume
  BY <1>9 DEF Resume, Episode
<1>10. CASE UNCHANGED vars
  BY <1>10 DEF vars
<1> QED BY <1>1, <1>2, <1>3, <1>4, <1>5, <1>6, <1>7, <1>8, <1>9, <1>10 DEF Next, Work

LEMMA StagedStep ==
  ASSUME TypeOK, Linked, Staged, [Next]_vars
  PROVE  Staged'
<1> USE EpisodeAssumption
    DEF TypeOK, Linked, Staged, Save, Unsaved, Quiet, Elsewhere, Goto, Run, None
<1>1. CASE Open
  BY <1>1 DEF Open, NewEpisode, NoEpisode, Episode
<1>2. CASE ProposeRefused
  BY <1>2 DEF ProposeRefused, Tried, AsksLocal, Episode
<1>3. CASE ProposeBounded \/ LocalOver
  BY <1>3 DEF ProposeBounded, LocalOver, AsksLocal, Episode
<1>4. CASE RunLocal \/ RunExpert \/ RunBuilder
  BY <1>4 DEF RunLocal, RunExpert, RunBuilder
<1>5. CASE Judge
  BY <1>5 DEF Judge, Tried, Episode
<1>6. CASE Solved
  BY <1>6 DEF Solved, Episode
<1>7. CASE NotEligible \/ ReviewUncertain \/ ReviewKnown \/ BeginReview \/ Submit
  BY <1>7 DEF NotEligible, ReviewUncertain, ReviewKnown, BeginReview, Submit, Unverified, Episode
<1>8. CASE RecordReview \/ Guidance
  <2>1. CASE RecordReview
    BY <2>1 DEF RecordReview, Episode
  <2>2. CASE Guidance /\ reply = "GUIDANCE"
    BY <2>2 DEF Guidance, Episode
  <2>3. CASE Guidance /\ reply # "GUIDANCE"
    BY <2>3 DEF Guidance, Unverified, Episode
  <2> QED BY <1>8, <2>1, <2>2, <2>3
<1>9. CASE Built
  BY <1>9 DEF Built, Unverified, Episode
<1>10. CASE AddToCatalog \/ CatalogRefuses \/ CloseEpisode \/ AcceptItem \/ BlockDay \/ Tick
  <2>1. CASE CloseEpisode
    BY <2>1 DEF CloseEpisode, Verified
  <2>2. CASE AcceptItem \/ BlockDay
    BY <2>2 DEF AcceptItem, BlockDay
  <2> QED BY <1>10, <2>1, <2>2 DEF AddToCatalog, CatalogRefuses, Tick
<1>11. CASE Crash
  BY <1>11 DEF Crash, Episode
<1>12. CASE Resume \/ GrantReview
  <2>1. CASE Resume
    BY <2>1 DEF Resume, Episode
  <2>2. CASE GrantReview
    <3>1. saved' = [ep EXCEPT !.retries = @ + 1, !.artifact = FALSE, !.failure = None,
                             !.phase = None, !.final = None, !.interrupted = TRUE]
      BY <2>2 DEF GrantReview
    <3>2. /\ saved'.final = None /\ saved'.expert = saved.expert /\ saved'.attempts = saved.attempts
          /\ saved'.deadline = saved.deadline
      BY <2>2, <3>1 DEF GrantReview, Episode
    <3>3. pc' = "down" /\ day' = "paused" /\ opened' = opened /\ saved.deadline # 0
          /\ saved.expert = "FAILED"
      BY <2>2 DEF GrantReview
    <3> QED BY <3>2, <3>3
  <2> QED BY <1>12, <2>1, <2>2
<1>13. CASE UNCHANGED vars
  BY <1>13 DEF vars
<1> QED BY <1>1, <1>2, <1>3, <1>4, <1>5, <1>6, <1>7, <1>8, <1>9, <1>10, <1>11, <1>12, <1>13
        DEF Next, Work

LEMMA RunsElse ==
  ASSUME TypeOK, NEW w \in Works, runs' = [runs EXCEPT ![w] = @ + 1]
  PROVE  runs'[w] = runs[w] + 1 /\ \A v \in Works \ {w} : runs'[v] = runs[v]
BY DEF TypeOK

LEMMA WorkNames == {"proposal", "local", "expert", "review", "builder"} \subseteq Works
BY DEF Works

(* A recorded try changes nothing else of the episode.                          *)
LEMMA TriedKeeps ==
  ASSUME TypeOK, NEW p, NEW o
  PROVE  LET e == Tried(p, o) IN
         /\ e.phase = ep.phase /\ e.artifact = ep.artifact /\ e.failure = ep.failure
         /\ e.retries = ep.retries /\ e.deadline = ep.deadline /\ e.final = ep.final
         /\ e.expert = ep.expert /\ Len(e.attempts) = Len(ep.attempts) + 1
<1>1. ep.attempts \in Seq(Attempt)
  BY DEF TypeOK, Episode
<1>2. Len(Append(ep.attempts, [by |-> p, outcome |-> o])) = Len(ep.attempts) + 1
  BY <1>1
<1> QED BY <1>2 DEF Tried, TypeOK, Episode

LEMMA ReviewedStep ==
  ASSUME TypeOK, Linked, Staged, Reviewed, BuilderNeedsGuidance, StaysLoadable,
         SubmittedOnce, [Next]_vars
  PROVE  Reviewed' /\ BuilderNeedsGuidance' /\ StaysLoadable'
<1> USE DEF TypeOK, Reviewed, BuilderNeedsGuidance, Save, Unsaved, Quiet, Elsewhere, Goto, Run,
            None, Works
<1>1. CASE Open
  BY <1>1 DEF Open, NewEpisode, NoEpisode, Linked, Staged, StaysLoadable, Episode
<1>2. CASE ProposeRefused
  <2>1. PICK p \in Proposal \cup {None}, o \in Outcomes : saved' = Tried(p, o)
    BY <1>2 DEF ProposeRefused, Outcomes
  <2>2. runs'["review"] = runs["review"] /\ runs'["builder"] = runs["builder"]
    BY <1>2, RunsElse DEF ProposeRefused
  <2>3. Len(ep.attempts) < MaxProposals /\ pc' = "expert" /\ reply' = reply
    BY <1>2 DEF ProposeRefused, AsksLocal
  <2>4. /\ saved'.phase = saved.phase /\ saved'.artifact = saved.artifact
        /\ saved'.failure = saved.failure /\ saved'.retries = saved.retries
        /\ Len(saved'.attempts) <= MaxProposals
    <3>1. Len(ep.attempts) \in Nat
      BY DEF Episode
    <3> QED BY <2>1, <2>3, <3>1, TriedKeeps, EpisodeAssumption DEF Linked
  <2> QED BY <2>2, <2>3, <2>4 DEF StaysLoadable
<1>3. CASE ProposeBounded \/ LocalOver
  BY <1>3 DEF ProposeBounded, LocalOver, StaysLoadable
<1>4. CASE RunLocal \/ RunExpert \/ RunBuilder
  <2>1. runs'["review"] = runs["review"] /\ saved' = saved /\ reply' = reply
    BY <1>4, RunsElse DEF RunLocal, RunExpert, RunBuilder
  <2>2. CASE RunLocal \/ RunExpert
    <3>1. runs'["builder"] = runs["builder"]
      BY <2>2, RunsElse DEF RunLocal, RunExpert
    <3> QED BY <2>1, <2>2, <3>1 DEF RunLocal, RunExpert, StaysLoadable
  <2>3. CASE RunBuilder
    <3>1. pc = "build" /\ pc' = "built"
      BY <2>3 DEF RunBuilder
    <3>2. reply = "GUIDANCE"
      BY <3>1
    <3>3. saved.phase = "BUILDER_STARTED" /\ saved.artifact
      BY <3>1
    <3> QED BY <2>1, <3>1, <3>2, <3>3 DEF StaysLoadable
  <2> QED BY <1>4, <2>2, <2>3
<1>5. CASE Judge
  <2>1. \E o \in Outcomes : \/ saved' = Tried(proposal, o)
                           \/ saved' = [Tried(proposal, o) EXCEPT !.final = "LOCAL_VERIFIED"]
    BY <1>5 DEF Judge, Outcomes
  <2>2. PICK o \in Outcomes : /\ saved'.phase = Tried(proposal, o).phase
                              /\ saved'.artifact = Tried(proposal, o).artifact
                              /\ saved'.failure = Tried(proposal, o).failure
                              /\ saved'.retries = Tried(proposal, o).retries
                              /\ saved'.attempts = Tried(proposal, o).attempts
    BY <2>1, TriedTyped DEF Episode
  <2>3. /\ saved'.phase = saved.phase /\ saved'.artifact = saved.artifact
        /\ saved'.failure = saved.failure /\ saved'.retries = saved.retries
        /\ Len(saved'.attempts) <= MaxProposals
    <3>1. Len(ep.attempts) \in Nat /\ Len(ep.attempts) < MaxProposals
      BY <1>5 DEF Episode, Judge, Linked, Staged
    <3> QED BY <2>2, <3>1, TriedKeeps, EpisodeAssumption DEF Linked
  <2>4. pc' \in {"catalog", "propose"} /\ runs' = runs /\ reply' = reply
    BY <1>5 DEF Judge
  <2> QED BY <2>3, <2>4 DEF StaysLoadable
<1>6. CASE Solved
  BY <1>6 DEF Solved, Linked, StaysLoadable, Episode
<1>7. CASE NotEligible \/ ReviewUncertain
  <2>1. /\ saved'.phase = saved.phase /\ saved'.artifact = saved.artifact
        /\ saved'.attempts = saved.attempts /\ saved'.retries = saved.retries
        /\ pc' = "ended" /\ UNCHANGED <<runs, reply>>
    BY <1>7 DEF NotEligible, ReviewUncertain, Linked, Episode
  <2>2. CASE NotEligible
    BY <2>1, <2>2 DEF NotEligible, Linked, StaysLoadable, Episode
  <2>3. CASE ReviewUncertain
    <3>1. saved'.failure = "UNCERTAIN" /\ saved.phase # None
      BY <2>3 DEF ReviewUncertain, Linked, Episode
    <3> QED BY <2>1, <3>1 DEF StaysLoadable
  <2> QED BY <1>7, <2>2, <2>3
<1>8. CASE BeginReview
  BY <1>8 DEF BeginReview, Linked, StaysLoadable, Episode
<1>9. CASE ReviewKnown \/ Submit
  BY <1>9 DEF ReviewKnown, Submit, Linked, StaysLoadable, Episode
<1>10. CASE RecordReview
  BY <1>10 DEF RecordReview, Linked, StaysLoadable, Episode, Failures, Replies
<1>11. CASE Guidance
  BY <1>11 DEF Guidance, Linked, StaysLoadable, Episode
<1>12. CASE Built
  <2>1. /\ saved'.phase \in {"BUILDER_VERIFIED", "BUILDER_FAILED"}
        /\ saved'.artifact = saved.artifact /\ saved'.failure = saved.failure
        /\ saved'.attempts = saved.attempts /\ saved'.retries = saved.retries
        /\ pc' \in {"catalog", "ended"} /\ UNCHANGED <<runs, reply>>
    <3>1. CASE verdict
      BY <1>12, <3>1 DEF Built, Linked, Episode
    <3>2. CASE ~verdict
      BY <1>12, <3>2 DEF Built, Linked, Episode
    <3> QED BY <3>1, <3>2
  <2>2. saved.phase = "BUILDER_STARTED" /\ saved.artifact
    BY <1>12 DEF Built
  <2> QED BY <2>1, <2>2 DEF StaysLoadable
<1>13. CASE AddToCatalog \/ CatalogRefuses \/ AcceptItem \/ BlockDay \/ Tick
  BY <1>13 DEF AddToCatalog, CatalogRefuses, AcceptItem, BlockDay, Tick, StaysLoadable
<1>14. CASE CloseEpisode
  BY <1>14 DEF CloseEpisode, Linked, StaysLoadable
<1>15. CASE Crash
  BY <1>15 DEF Crash, StaysLoadable, Episode
<1>16. CASE Resume
  BY <1>16 DEF Resume, StaysLoadable
<1>17. CASE GrantReview
  <2>1. /\ saved'.retries = saved.retries + 1 /\ saved.retries = 0
        /\ saved'.artifact = FALSE /\ saved'.failure = None /\ saved'.phase = None
        /\ saved'.attempts = saved.attempts
    BY <1>17 DEF GrantReview, Linked, Episode, StaysLoadable
  <2>2. pc' = "down" /\ UNCHANGED <<runs, reply>>
    BY <1>17 DEF GrantReview, Linked, Staged
  <2>3. reply = "PROVIDER"
    BY <1>17 DEF GrantReview, Linked
  <2>4. runs["builder"] = 0 /\ runs["review"] <= 1
    BY <2>1, <2>3 DEF SubmittedOnce
  <2> QED BY <2>1, <2>2, <2>4 DEF StaysLoadable
<1>18. CASE UNCHANGED vars
  BY <1>18 DEF vars, StaysLoadable
<1> QED BY <1>1, <1>2, <1>3, <1>4, <1>5, <1>6, <1>7, <1>8, <1>9, <1>10, <1>11, <1>12, <1>13,
           <1>14, <1>15, <1>16, <1>17, <1>18 DEF Next, Work

(* Only Submit hands a review out, and only GrantReview pays for another.       *)
LEMMA OnceStep ==
  ASSUME TypeOK, Linked, Staged, Reviewed, SubmittedOnce, [Next]_vars
  PROVE  SubmittedOnce'
<1>1. CASE Submit
  <2>1. runs'["review"] = runs["review"] + 1 /\ saved' = saved
    BY <1>1, RunsElse DEF Submit, Unsaved, Works
  <2>2. runs["review"] <= saved.retries
    BY <1>1 DEF Submit, Reviewed
  <2> QED BY <2>1, <2>2 DEF SubmittedOnce, TypeOK, Episode, Works
<1>2. CASE GrantReview
  <2>1. runs' = runs /\ saved'.retries = saved.retries + 1
    BY <1>2 DEF GrantReview, Save, Quiet, Linked, TypeOK, Episode
  <2> QED BY <2>1 DEF SubmittedOnce, TypeOK, Episode, Works
<1>3. CASE Next /\ ~Submit /\ ~GrantReview
  <2>1. runs'["review"] = runs["review"]
    BY <1>3, RunsElse, WorkNames
       DEF Next, Work, Open, ProposeRefused, ProposeBounded, RunLocal, Judge, LocalOver,
           RunExpert, Solved, NotEligible, ReviewUncertain, ReviewKnown, BeginReview,
           RecordReview, Guidance, RunBuilder, Built, AddToCatalog, CatalogRefuses, CloseEpisode,
           AcceptItem,
           BlockDay, Crash, Resume, Tick, Run, Quiet
  <2>2. saved'.retries = saved.retries
    <3>1. CASE ProposeRefused \/ Judge
      <4>1. \A o \in Outcomes, p \in Proposal \cup {None} :
              /\ Tried(p, o).retries = saved.retries
              /\ [Tried(p, o) EXCEPT !.final = "LOCAL_VERIFIED"].retries = saved.retries
        BY TriedKeeps, TriedTyped DEF Linked, Episode
      <4>2. proposal \in Proposal \cup {None}
        BY DEF TypeOK
      <4>3. CASE ProposeRefused
        <5>1. PICK p \in Proposal \cup {None}, o \in Outcomes : saved' = Tried(p, o)
          BY <4>3 DEF ProposeRefused, Save, Outcomes
        <5> QED BY <4>1, <5>1
      <4>4. CASE Judge
        <5>1. \/ saved' = Tried(proposal, "REJECTED")
              \/ saved' = [Tried(proposal, "VERIFIED") EXCEPT !.final = "LOCAL_VERIFIED"]
          BY <4>4 DEF Judge, Save
        <5>2. {"REJECTED", "VERIFIED"} \subseteq Outcomes
          BY DEF Outcomes
        <5>3. /\ Tried(proposal, "REJECTED").retries = saved.retries
              /\ [Tried(proposal, "VERIFIED") EXCEPT !.final = "LOCAL_VERIFIED"].retries
                   = saved.retries
          BY <4>1, <4>2, <5>2
        <5> QED BY <5>1, <5>3
      <4> QED BY <3>1, <4>3, <4>4
    <3>2. CASE Open
      BY <3>2 DEF Open, Save, NewEpisode, NoEpisode, Linked, Staged
    <3>3. CASE Solved
      BY <3>3 DEF Solved, Save, Linked, TypeOK, Episode
    <3>4. CASE NotEligible \/ ReviewUncertain \/ BeginReview \/ RecordReview
      BY <3>4 DEF NotEligible, ReviewUncertain, BeginReview, RecordReview, Save, Linked, TypeOK,
                  Episode
    <3>5. CASE Guidance
      BY <3>5 DEF Guidance, Save, Linked, TypeOK, Episode
    <3>6. CASE Built
      BY <3>6 DEF Built, Save, Linked, TypeOK, Episode
    <3>7. CASE CloseEpisode \/ Crash
      BY <3>7 DEF CloseEpisode, Crash, Save, Linked, TypeOK, Episode
    <3>8. CASE ProposeBounded \/ RunLocal \/ LocalOver \/ RunExpert \/ ReviewKnown \/ RunBuilder
               \/ AddToCatalog \/ CatalogRefuses
           \/ AcceptItem \/ BlockDay \/ Resume \/ Tick
      BY <3>8 DEF ProposeBounded, RunLocal, LocalOver, RunExpert, ReviewKnown, RunBuilder,
                  AddToCatalog, CatalogRefuses, AcceptItem, BlockDay, Resume, Tick, Run, Unsaved
    <3> QED BY <1>3, <3>1, <3>2, <3>3, <3>4, <3>5, <3>6, <3>7, <3>8 DEF Next, Work
  <2> QED BY <2>1, <2>2 DEF SubmittedOnce
<1>4. CASE UNCHANGED vars
  BY <1>4 DEF vars, SubmittedOnce
<1> QED BY <1>1, <1>2, <1>3, <1>4

LEMMA InitTyped == Init => TypeOK
<1> SUFFICES ASSUME Init PROVE TypeOK
  OBVIOUS
<1>1. runs \in [Works -> Nat] /\ ep \in Episode /\ saved \in Episode
  BY EpisodeTyped DEF Init
<1>2. clock \in 0..MaxTime /\ opened \in 0..MaxTime /\ crashes \in 0..MaxCrash /\ catalog \in Nat
  BY EpisodeAssumption DEF Init
<1> QED BY <1>1, <1>2 DEF Init, TypeOK, PCs

(* Every variable of the episode keeps its type.                                *)
THEOREM TypeCorrect == Spec => []TypeOK
<1>1. Init => TypeOK
  BY InitTyped
<1> QED BY <1>1, TypedStep, PTL DEF Spec

LEMMA InvariantInit == Init => IInv
<1> SUFFICES ASSUME Init PROVE IInv
  OBVIOUS
<1>1. TypeOK
  BY InitTyped
<1>2. Len(saved.attempts) = 0
  BY DEF Init, NoEpisode
<1>3. Linked /\ Staged /\ Reviewed
  BY DEF Init, NoEpisode, Linked, Staged, Reviewed, None, Works, Verified
<1>4. StaysLoadable /\ SubmittedOnce /\ BuilderNeedsGuidance
  BY <1>2, EpisodeAssumption
     DEF Init, NoEpisode, StaysLoadable, SubmittedOnce, BuilderNeedsGuidance, Works
<1> QED BY <1>1, <1>3, <1>4 DEF IInv

LEMMA InvariantStep == IInv /\ [Next]_vars => IInv'
<1> SUFFICES ASSUME IInv, [Next]_vars PROVE IInv'
  OBVIOUS
<1> QED BY TypedStep, LinkedStep, StagedStep, ReviewedStep, OnceStep DEF IInv

THEOREM Invariance == Spec => []IInv
BY InvariantInit, InvariantStep, PTL DEF Spec
-----------------------------------------------------------------------------
(* One record over its limits and the store would forget every episode of the   *)
(* project: no run of a repair, crashed or resumed, saves such a record.        *)
THEOREM Loadable == Spec => []StaysLoadable
<1>1. IInv => StaysLoadable
  BY DEF IInv
<1> QED BY <1>1, Invariance, PTL

(* Whatever crashes before, during or after a submission, an external review is *)
(* submitted at most once, and once more for the retry the operator granted,    *)
(* and the builder is only handed guidance that the last one gave.              *)
THEOREM ReviewOnce == Spec => []ReviewOncePerGrant
<1>1. IInv => ReviewOncePerGrant
  BY DEF IInv, ReviewOncePerGrant
<1> QED BY <1>1, Invariance, PTL

LEMMA LocalWork ==
  ASSUME IInv, Next
  PROVE  /\ runs'["proposal"] # runs["proposal"] => pc = "propose" /\ AsksLocal
         /\ runs'["local"] # runs["local"] => pc = "local"
         /\ runs'["expert"] # runs["expert"] => pc = "expert"
<1> USE DEF IInv
<1>1. CASE ProposeRefused \/ ProposeBounded
  BY <1>1, RunsElse, WorkNames DEF ProposeRefused, ProposeBounded
<1>2. CASE RunLocal \/ RunExpert \/ RunBuilder \/ Submit
  BY <1>2, RunsElse, WorkNames DEF RunLocal, RunExpert, RunBuilder, Submit, Run
<1>3. CASE UNCHANGED runs
  BY <1>3
<1> QED
  BY <1>1, <1>2, <1>3
     DEF Next, Work, Open, Judge, LocalOver, Solved, NotEligible, ReviewUncertain, ReviewKnown,
         BeginReview, RecordReview, Guidance, Built, AddToCatalog, CatalogRefuses, CloseEpisode,
           AcceptItem,
         BlockDay, Crash, Resume, GrantReview, Tick, Quiet

(* Once the expert has failed on record, neither the local model nor the expert *)
(* works on the repair again.                                                   *)
THEOREM Escalation == Spec => EscalationIsFinal
<1>1. IInv /\ [Next]_vars =>
        [saved.expert = "FAILED" =>
           \A w \in {"proposal", "local", "expert"} : runs'[w] = runs[w]]_vars
  <2> SUFFICES ASSUME IInv, Next, saved.expert = "FAILED"
               PROVE  \A w \in {"proposal", "local", "expert"} : runs'[w] = runs[w]
    BY DEF vars
  <2>1. ~(pc = "propose" /\ AsksLocal) /\ pc # "local" /\ pc # "expert"
    BY DEF IInv, Linked, Staged, AsksLocal, None
  <2> QED BY <2>1, LocalWork
<1> QED BY <1>1, Invariance, PTL DEF Spec, EscalationIsFinal

(* No restart gives the local phase more time than its first start did.         *)
THEOREM Bounded == Spec => LocalPhaseBounded
<1>1. IInv /\ [Next]_vars =>
        [runs'["proposal"] # runs["proposal"] => clock < opened + Seconds]_vars
  <2> SUFFICES ASSUME IInv, Next, runs'["proposal"] # runs["proposal"]
               PROVE  clock < opened + Seconds
    BY DEF vars
  <2>1. pc = "propose" /\ AsksLocal
    BY LocalWork
  <2>2. saved.deadline # 0
    BY <2>1 DEF IInv, Staged
  <2> QED BY <2>1, <2>2 DEF IInv, Staged, Linked, AsksLocal
<1> QED BY <1>1, Invariance, PTL DEF Spec, LocalPhaseBounded
-----------------------------------------------------------------------------
(* What is left of an episode after a step, as far as RepairLadder sees it.     *)
LEMMA LadderStutter ==
  ASSUME UNCHANGED <<saved>>
  PROVE  UNCHANGED Ladder!ladder
BY DEF Ladder!ladder, Stage

LEMMA LadderStep ==
  ASSUME IInv, [Next]_vars
  PROVE  [Ladder!Next]_(Ladder!ladder)
<1> USE DEF Save, Unsaved, Quiet, Elsewhere, Goto, Run, None
<1>0. IInv /\ TypeOK /\ Linked /\ Staged /\ Reviewed /\ StaysLoadable
      /\ saved \in Episode /\ ep \in Episode
  BY DEF IInv, TypeOK
<1>1. ASSUME saved'.deadline = saved.deadline, saved'.final = saved.final,
             saved'.expert = saved.expert, saved'.attempts = saved.attempts,
             saved'.retries = saved.retries
      PROVE  UNCHANGED Ladder!ladder
  BY <1>1 DEF Ladder!ladder, Stage
<1>2. CASE Open
  <2>1. CASE saved.deadline = 0
    <3>1. saved' = NewEpisode(clock) /\ saved = NoEpisode
      BY <1>0, <1>2, <2>1 DEF Open, Linked, Staged
    <3>2. clock + Seconds # 0
      BY <1>0, EpisodeAssumption DEF TypeOK
    <3>3. Stage = "unopened" /\ Stage' = "local"
      BY <3>1, <3>2 DEF Stage, NewEpisode, NoEpisode
    <3>4. saved'.attempts = saved.attempts /\ saved'.retries = saved.retries
          /\ saved'.final = saved.final
      BY <3>1 DEF NewEpisode, NoEpisode
    <3> QED BY <3>3, <3>4 DEF Ladder!Next, Ladder!Open
  <2>2. CASE saved.deadline # 0
    BY <1>0, <1>1, <1>2, <2>2 DEF Open, Linked
  <2> QED BY <2>1, <2>2
<1>3. CASE ProposeRefused
  <2>1. PICK p \in Proposal \cup {None}, o \in Outcomes : saved' = Tried(p, o)
    BY <1>3 DEF ProposeRefused, Outcomes
  <2>2. Stage = "local" /\ Stage' = "local" /\ Len(saved.attempts) < MaxProposals
        /\ saved'.retries = saved.retries /\ saved'.final = saved.final
        /\ Len(saved'.attempts) = Len(saved.attempts) + 1
    BY <1>0, <1>3, <2>1, TriedKeeps DEF ProposeRefused, AsksLocal, Linked, Staged, Stage
  <2> QED BY <2>2 DEF Ladder!Next, Ladder!Try
<1>4. CASE Judge
  <2>1. Stage = "local" /\ Len(saved.attempts) < MaxProposals /\ saved.final = None
    BY <1>0, <1>4 DEF Judge, Linked, Staged, Stage
  <2>2. CASE verdict
    <3>1. saved' = [Tried(proposal, "VERIFIED") EXCEPT !.final = "LOCAL_VERIFIED"]
      BY <1>4, <2>2 DEF Judge
    <3>2. Tried(proposal, "VERIFIED") \in Episode
      BY <1>0, TriedTyped DEF TypeOK, Outcomes
    <3>3. saved'.final = "LOCAL_VERIFIED" /\ Len(saved'.attempts) = Len(saved.attempts) + 1
          /\ saved'.retries = saved.retries /\ saved'.deadline = saved.deadline
          /\ saved.deadline # 0
      BY <1>0, <1>4, <3>1, <3>2, TriedKeeps DEF Episode, Linked, Staged, Judge
    <3>4. Stage' = "closed" /\ saved'.final \in Verified
      BY <3>3 DEF Stage, Verified
    <3> QED BY <2>1, <3>3, <3>4 DEF Ladder!Next, Ladder!Try
  <2>3. CASE ~verdict
    <3>1. saved' = Tried(proposal, "REJECTED")
      BY <1>4, <2>3 DEF Judge
    <3>2. Stage' = "local" /\ Len(saved'.attempts) = Len(saved.attempts) + 1
          /\ saved'.retries = saved.retries /\ saved'.final = saved.final
      BY <1>0, <1>4, <3>1, TriedKeeps DEF Linked, Staged, Judge, Stage
    <3> QED BY <2>1, <3>2 DEF Ladder!Next, Ladder!Try
  <2> QED BY <2>2, <2>3
<1>5. CASE Solved
  <2>1. CASE verdict
    BY <1>1, <1>5, <2>1 DEF Solved
  <2>2. CASE ~verdict
    <3>1. saved' = [ep EXCEPT !.expert = "FAILED"]
      BY <1>5, <2>2 DEF Solved
    <3>2. Stage = "local" /\ Stage' = "review" /\ saved'.attempts = saved.attempts
          /\ saved'.retries = saved.retries /\ saved'.final = saved.final
      BY <1>0, <1>5, <3>1 DEF Solved, Linked, Staged, Stage, Episode
    <3> QED BY <3>2 DEF Ladder!Next, Ladder!Escalate
  <2> QED BY <2>1, <2>2
<1>6. ASSUME pc \in {"review", "guidance", "built"}, NEW f \in Verified \cup Unverified,
             saved'.final = f, saved'.attempts = ep.attempts, saved'.retries = ep.retries,
             saved'.deadline = ep.deadline
      PROVE  [Ladder!Next]_(Ladder!ladder)
  <2>1. Stage = "review" /\ Stage' = "closed"
    BY <1>0, <1>6 DEF Linked, Staged, Stage, Verified, Unverified
  <2> QED BY <1>0, <1>6, <2>1 DEF Linked, Ladder!Next, Ladder!CloseReview
<1>7. CASE NotEligible \/ ReviewUncertain
  <2>1. saved'.final \in Unverified /\ saved'.attempts = ep.attempts
        /\ saved'.retries = ep.retries /\ saved'.deadline = ep.deadline
    BY <1>0, <1>7 DEF NotEligible, ReviewUncertain, Episode, Unverified
  <2> QED BY <1>6, <1>7, <2>1 DEF NotEligible, ReviewUncertain
<1>8. CASE BeginReview \/ RecordReview
  BY <1>0, <1>1, <1>8 DEF BeginReview, RecordReview, Linked, Episode
<1>9. CASE Guidance
  <2>1. CASE reply = "GUIDANCE"
    BY <1>0, <1>1, <1>9, <2>1 DEF Guidance, Linked, Episode
  <2>2. CASE reply # "GUIDANCE"
    <3>1. saved'.final \in Unverified /\ saved'.attempts = ep.attempts
          /\ saved'.retries = ep.retries /\ saved'.deadline = ep.deadline
      BY <1>0, <1>9, <2>2 DEF Guidance, Episode, Unverified
    <3> QED BY <1>6, <1>9, <3>1 DEF Guidance
  <2> QED BY <2>1, <2>2
<1>10. CASE Built
  <2>1. saved'.final \in Verified \cup Unverified /\ saved'.attempts = ep.attempts
        /\ saved'.retries = ep.retries /\ saved'.deadline = ep.deadline
    BY <1>0, <1>10 DEF Built, Episode, Verified, Unverified
  <2> QED BY <1>6, <1>10, <2>1 DEF Built
<1>11. CASE CloseEpisode
  <2>1. CASE saved.final = ep.final /\ saved.expert = ep.expert
    BY <1>0, <1>1, <1>11, <2>1 DEF CloseEpisode, Linked
  <2>2. CASE saved.final = None /\ saved.expert = None
    <3>1. Stage = "local" /\ Stage' = "closed" /\ saved'.final \in Verified
          /\ saved'.attempts = saved.attempts /\ saved'.retries = saved.retries
      BY <1>0, <1>11, <2>2 DEF CloseEpisode, Linked, Staged, Stage, Verified
    <3> QED BY <3>1 DEF Ladder!Next, Ladder!ExpertVerified
  <2> QED BY <1>0, <1>11, <2>1, <2>2 DEF CloseEpisode, Linked
<1>12. CASE Crash
  BY <1>0, <1>1, <1>12 DEF Crash, Episode
<1>13. CASE GrantReview
  <2>1. saved' = [ep EXCEPT !.retries = @ + 1, !.artifact = FALSE, !.failure = None,
                           !.phase = None, !.final = None, !.interrupted = TRUE]
        /\ day = "blocked" /\ ep.retries < 1
    BY <1>13 DEF GrantReview
  <2>2. saved.final \in Unverified /\ saved.expert = "FAILED" /\ saved.deadline # 0
    BY <1>0, <2>1 DEF Staged
  <2>3. saved'.retries = saved.retries + 1 /\ saved'.final = None /\ saved'.expert = "FAILED"
        /\ saved'.deadline = saved.deadline /\ saved'.attempts = saved.attempts
        /\ saved.retries < 1
    BY <1>0, <1>13, <2>1, <2>2 DEF Linked, Staged, Episode
  <2>4. Stage = "closed" /\ Stage' = "review" /\ saved.final \notin Verified
        /\ saved'.final \notin Verified
    BY <2>2, <2>3 DEF Stage, Verified, Unverified
  <2> QED BY <2>3, <2>4 DEF Ladder!Next, Ladder!Grant
<1>14. CASE UNCHANGED <<saved>>
  BY <1>14, LadderStutter
<1> QED
  BY <1>2, <1>3, <1>4, <1>5, <1>7, <1>8, <1>9, <1>10, <1>11, <1>12, <1>13, <1>14
     DEF Next, Work, ProposeBounded, RunLocal, LocalOver, RunExpert, ReviewKnown, Submit,
         RunBuilder, AddToCatalog, CatalogRefuses, AcceptItem, BlockDay, Resume, Tick, vars

(* The saved record of an episode only climbs: tries are bounded and never      *)
(* taken back, the way to the review stage is one-way, a verified end is final, *)
(* and the operator reopens an unverified end once.  Crashes and resumes are    *)
(* steps that change none of this.                                              *)
THEOREM Refinement == Spec => ImplementsLadder
<1>1. Init => Ladder!Init
  <2> SUFFICES ASSUME Init PROVE Ladder!Init
    OBVIOUS
  <2>1. saved = NoEpisode /\ Len(saved.attempts) = 0
    BY DEF Init, NoEpisode
  <2> QED BY <2>1 DEF Ladder!Init, Stage, NoEpisode, Verified, None
<1>2. IInv /\ [Next]_vars => [Ladder!Next]_(Ladder!ladder)
  BY LadderStep
<1> QED BY <1>1, <1>2, Invariance, PTL DEF Spec, ImplementsLadder, Ladder!Spec
-----------------------------------------------------------------------------
(* The work whose outcome is on record, the work under way, and the work handed *)
(* out: what is handed out is on record or under way, or was cut short.         *)
BuilderDone == saved.phase \in {"BUILDER_VERIFIED", "BUILDER_FAILED"}

ExpertTold == IF saved.expert = None THEN 0 ELSE 1

BuilderTold == IF BuilderDone THEN 1 ELSE 0

Recorded == Len(saved.attempts) + ExpertTold + BuilderTold

UnderWay ==
  \/ pc \in {"local", "judge", "solved", "built"}
  \/ pc \in {"catalog", "close"} /\ saved.final = None

Pending == IF UnderWay THEN 1 ELSE 0

Trying == IF pc = "local" THEN 1 ELSE 0

Spent == runs["proposal"] + runs["expert"] + runs["builder"]

Counted ==
  /\ Spent <= Recorded + Pending + crashes
  /\ runs["local"] + Trying <= runs["proposal"]
  /\ BuilderDone => saved.final # None /\ reply = "GUIDANCE"
(* A record that keeps its tries, its expert and its builder keeps its count.   *)
LEMMA RecordKept ==
  ASSUME saved'.attempts = saved.attempts, saved'.expert = saved.expert,
         BuilderDone' <=> BuilderDone
  PROVE  Recorded' = Recorded
BY DEF Recorded, ExpertTold, BuilderTold

(* One try more on record.                                                      *)
LEMMA Recording ==
  ASSUME Len(saved'.attempts) = Len(saved.attempts) + 1, Len(saved.attempts) \in Nat,
         saved'.expert = saved.expert, saved'.phase = saved.phase
  PROVE  (BuilderDone' <=> BuilderDone) /\ Recorded' = Recorded + 1
<1>1. BuilderDone' <=> BuilderDone
  BY DEF BuilderDone
<1>2. /\ ExpertTold' = ExpertTold /\ BuilderTold' = BuilderTold
      /\ ExpertTold \in 0..1 /\ BuilderTold \in 0..1
  BY <1>1 DEF ExpertTold, BuilderTold
<1> QED BY <1>1, <1>2 DEF Recorded

LEMMA Sums ==
  /\ \A a, b, c, d \in Nat : b <= d => a + d + c >= a + b + c
  /\ \A s, t, u \in Nat : s <= t /\ u >= t => s <= u
  /\ \A a, b, c \in Nat : a + b + c \in Nat
OBVIOUS

LEMMA CountTyped ==
  ASSUME TypeOK
  PROVE  /\ Recorded \in Nat /\ Pending \in 0..1 /\ Spent \in Nat /\ crashes \in Nat
         /\ \A w \in Works : runs[w] \in Nat
         /\ Len(saved.attempts) \in Nat
<1>1. Len(saved.attempts) \in Nat
  BY DEF TypeOK, Episode
<1>2. \A w \in Works : runs[w] \in Nat
  BY DEF TypeOK
<1>3. crashes \in Nat
  BY EpisodeAssumption DEF TypeOK
<1>4. runs["proposal"] \in Nat /\ runs["expert"] \in Nat /\ runs["builder"] \in Nat
  BY <1>2, WorkNames
<1>5. Recorded \in Nat
  <2>1. ExpertTold \in Nat /\ BuilderTold \in Nat
    BY DEF ExpertTold, BuilderTold
  <2> QED BY <1>1, <2>1 DEF Recorded
<1>6. Spent \in Nat
  BY <1>4 DEF Spent
<1>7. Pending \in 0..1
  BY DEF Pending
<1> QED BY <1>1, <1>2, <1>3, <1>5, <1>6, <1>7

(* What one piece of work more does to the three counts.                        *)
LEMMA OneMore ==
  ASSUME TypeOK, NEW w \in Works, runs' = [runs EXCEPT ![w] = @ + 1]
  PROVE  /\ w \in {"proposal", "expert", "builder"} => Spent' = Spent + 1
         /\ w \in {"local", "review"} => Spent' = Spent
<1>1. runs'[w] = runs[w] + 1 /\ \A v \in Works \ {w} : runs'[v] = runs[v]
  BY RunsElse
<1>2. \A v \in Works : runs[v] \in Nat
  BY CountTyped
<1>3. CASE w = "proposal"
  BY <1>1, <1>2, <1>3, WorkNames DEF Spent
<1>4. CASE w = "expert"
  BY <1>1, <1>2, <1>4, WorkNames DEF Spent
<1>5. CASE w = "builder"
  BY <1>1, <1>2, <1>5, WorkNames DEF Spent
<1>6. CASE w \in {"local", "review"}
  BY <1>1, <1>2, <1>6, WorkNames DEF Spent
<1> QED BY <1>3, <1>4, <1>5, <1>6

(* Every step puts on record what it takes from the work under way, and hands   *)
(* nothing out without one of the two: only a crash loses a piece of work.      *)
LEMMA CountedStep ==
  ASSUME IInv, Counted, [Next]_vars
  PROVE  Counted'
<1> USE DEF Save, Unsaved, Quiet, Elsewhere, Goto, Run
<1>0. /\ TypeOK /\ Linked /\ Staged /\ Reviewed /\ BuilderNeedsGuidance
      /\ saved \in Episode /\ ep \in Episode
  BY DEF IInv, TypeOK
<1>1. /\ Recorded \in Nat /\ Pending \in 0..1 /\ Spent \in Nat /\ crashes \in Nat
      /\ Len(saved.attempts) \in Nat /\ runs["local"] \in Nat /\ runs["proposal"] \in Nat
  BY <1>0, CountTyped, WorkNames
<1>2. Spent <= Recorded + Pending + crashes
  BY DEF Counted
<1>3. BuilderDone => saved.final # None /\ reply = "GUIDANCE"
  BY DEF Counted
<1>4. ASSUME runs' = runs, pc' # "local",
             Recorded' + Pending' + crashes' >= Recorded + Pending + crashes,
             BuilderDone' => saved'.final # None /\ reply' = "GUIDANCE"
      PROVE  Counted'
  <2>1. Spent' = Spent
    BY <1>4 DEF Spent
  <2>2. Recorded' \in Nat /\ Pending' \in 0..1 /\ crashes' \in Nat
    <3>1. TypeOK'
      BY <1>0, TypedStep
    <3>2. Len(saved'.attempts) \in Nat /\ crashes' \in Nat
      BY <3>1, EpisodeAssumption DEF TypeOK, Episode
    <3>3. ExpertTold' \in Nat /\ BuilderTold' \in Nat /\ Pending' \in 0..1
      BY DEF ExpertTold, BuilderTold, Pending
    <3> QED BY <3>2, <3>3 DEF Recorded
  <2>3. Trying' = 0 /\ Trying \in 0..1
    BY <1>4 DEF Trying
  <2>4. runs'["local"] + Trying' <= runs'["proposal"]
    BY <1>1, <1>4, <2>3 DEF Counted
  <2>5. Spent' <= Recorded' + Pending' + crashes'
    <3>1. Recorded' + Pending' + crashes' >= Recorded + Pending + crashes
      BY <1>4, Zenon
    <3>2. /\ Recorded + Pending + crashes \in Nat /\ Spent' \in Nat
          /\ Recorded' + Pending' + crashes' \in Nat
      <4>1. Pending \in Nat /\ Pending' \in Nat
        BY <1>1, <2>2
      <4> QED BY <1>1, <2>1, <2>2, <4>1, Sums
    <3>3. Spent' <= Recorded + Pending + crashes
      BY <1>2, <2>1
    <3> QED BY <3>1, <3>2, <3>3, Sums
  <2> QED BY <1>4, <2>4, <2>5 DEF Counted
<1>5. ASSUME runs' = runs, pc' # "local", crashes' = crashes, UNCHANGED reply,
             saved'.attempts = saved.attempts, saved'.expert = saved.expert,
             saved'.final # None \/ saved'.final = saved.final,
             saved'.phase = saved.phase \/ (~BuilderDone /\ ~BuilderDone'),
             ~UnderWay \/ UnderWay'
      PROVE  Counted'
  <2>1. BuilderDone' <=> BuilderDone
    BY <1>5 DEF BuilderDone
  <2>2. Recorded' = Recorded
    BY <1>5, <2>1, RecordKept
  <2>3. Pending' >= Pending /\ Pending' \in 0..1
    BY <1>5 DEF Pending
  <2>4. Recorded' + Pending' + crashes' >= Recorded + Pending + crashes
    <3>1. crashes' = crashes
      BY <1>5, Zenon
    <3>2. Pending \in Nat /\ Pending' \in Nat /\ Pending <= Pending'
      BY <1>1, <2>3
    <3>3. Recorded + Pending' + crashes >= Recorded + Pending + crashes
      BY <1>1, <3>2, Sums
    <3> QED BY <2>2, <3>1, <3>3
  <2>5. BuilderDone' => saved'.final # None /\ reply' = "GUIDANCE"
    BY <1>3, <1>5, <2>1
  <2> QED BY <1>4, <1>5, <2>4, <2>5
<1>6. CASE Open
  <2>1. CASE saved.deadline = 0
    <3>1. saved' = NewEpisode(clock) /\ saved = NoEpisode
      BY <1>0, <1>6, <2>1 DEF Open, Linked, Staged
    <3> QED BY <1>5, <1>6, <3>1 DEF Open, NewEpisode, NoEpisode, BuilderDone, UnderWay
  <2>2. CASE saved.deadline # 0
    BY <1>0, <1>5, <1>6, <2>2 DEF Open, Linked, Staged, UnderWay
  <2> QED BY <2>1, <2>2
<1>7. CASE ProposeRefused
  <2>1. PICK p \in Proposal \cup {None}, o \in Outcomes : saved' = Tried(p, o)
    BY <1>7 DEF ProposeRefused, Outcomes
  <2>2. /\ Len(saved'.attempts) = Len(saved.attempts) + 1 /\ saved'.expert = saved.expert
        /\ saved'.phase = saved.phase /\ saved'.final = saved.final
    BY <1>0, <1>7, <2>1, TriedKeeps DEF ProposeRefused, Linked
  <2>3. (BuilderDone' <=> BuilderDone) /\ Recorded' = Recorded + 1
    BY <1>1, <2>2, Recording
  <2>4. Pending = 0 /\ Pending' = 0 /\ Trying' = 0 /\ Trying = 0
    BY <1>7 DEF ProposeRefused, Pending, UnderWay, Trying
  <2>5. Spent' = Spent + 1 /\ runs'["proposal"] = runs["proposal"] + 1
        /\ runs'["local"] = runs["local"]
    BY <1>0, <1>7, OneMore, RunsElse, WorkNames DEF ProposeRefused
  <2>6. reply' = reply /\ crashes' = crashes
    BY <1>7 DEF ProposeRefused
  <2>7. Spent' <= Recorded' + Pending' + crashes'
    BY <1>1, <1>2, <2>3, <2>4, <2>5, <2>6
  <2>8. runs'["local"] + Trying' <= runs'["proposal"]
    BY <1>1, <2>4, <2>5 DEF Counted
  <2> QED BY <1>3, <2>2, <2>3, <2>6, <2>7, <2>8 DEF Counted
<1>8. CASE ProposeBounded
  <2>1. saved' = saved /\ crashes' = crashes /\ reply' = reply /\ pc' = "local"
    BY <1>8 DEF ProposeBounded
  <2>2. Recorded' = Recorded /\ (BuilderDone' <=> BuilderDone)
    BY <2>1, RecordKept DEF BuilderDone
  <2>3. Pending = 0 /\ Pending' = 1 /\ Trying = 0 /\ Trying' = 1
    BY <1>8 DEF ProposeBounded, Pending, UnderWay, Trying
  <2>4. Spent' = Spent + 1 /\ runs'["proposal"] = runs["proposal"] + 1
        /\ runs'["local"] = runs["local"]
    BY <1>0, <1>8, OneMore, RunsElse, WorkNames DEF ProposeBounded
  <2>5. Spent' <= Recorded' + Pending' + crashes'
    BY <1>1, <1>2, <2>1, <2>2, <2>3, <2>4
  <2>6. runs'["local"] + Trying' <= runs'["proposal"]
    BY <1>1, <2>3, <2>4 DEF Counted
  <2> QED BY <1>3, <2>1, <2>2, <2>5, <2>6 DEF Counted
<1>9. CASE RunLocal
  <2>1. saved' = saved /\ crashes' = crashes /\ reply' = reply /\ pc' = "judge" /\ pc = "local"
    BY <1>9 DEF RunLocal
  <2>2. /\ Recorded' = Recorded /\ (BuilderDone' <=> BuilderDone) /\ Pending = 1 /\ Pending' = 1
        /\ Trying = 1 /\ Trying' = 0
    BY <2>1, RecordKept DEF BuilderDone, Pending, UnderWay, Trying
  <2>3. Spent' = Spent /\ runs'["proposal"] = runs["proposal"]
        /\ runs'["local"] = runs["local"] + 1
    BY <1>0, <1>9, OneMore, RunsElse, WorkNames DEF RunLocal
  <2>4. runs'["local"] + Trying' <= runs'["proposal"]
    BY <1>1, <2>2, <2>3 DEF Counted
  <2>5. Spent' <= Recorded' + Pending' + crashes'
    BY <1>1, <1>2, <2>1, <2>2, <2>3
  <2> QED BY <1>3, <2>1, <2>2, <2>4, <2>5 DEF Counted
<1>10. CASE RunExpert \/ RunBuilder
  <2>1. /\ saved' = saved /\ crashes' = crashes /\ reply' = reply
        /\ pc' \in {"solved", "built"} /\ pc \in {"expert", "build"}
    BY <1>10 DEF RunExpert, RunBuilder
  <2>2. /\ Recorded' = Recorded /\ (BuilderDone' <=> BuilderDone) /\ Pending = 0 /\ Pending' = 1
        /\ Trying = 0 /\ Trying' = 0
    BY <2>1, RecordKept DEF BuilderDone, Pending, UnderWay, Trying
  <2>3. Spent' = Spent + 1 /\ runs'["proposal"] = runs["proposal"]
        /\ runs'["local"] = runs["local"]
    BY <1>0, <1>10, OneMore, RunsElse, WorkNames DEF RunExpert, RunBuilder
  <2>4. runs'["local"] + Trying' <= runs'["proposal"]
    BY <1>1, <2>2, <2>3 DEF Counted
  <2>5. Spent' <= Recorded' + Pending' + crashes'
    BY <1>1, <1>2, <2>1, <2>2, <2>3
  <2> QED BY <1>3, <2>1, <2>2, <2>4, <2>5 DEF Counted
<1>11. CASE Judge
  <2>1. PICK o \in Outcomes : \/ saved' = Tried(proposal, o) /\ pc' = "propose"
                             \/ /\ saved' = [Tried(proposal, o) EXCEPT !.final = "LOCAL_VERIFIED"]
                                /\ pc' = "catalog"
    BY <1>11 DEF Judge, Outcomes
  <2>2. Tried(proposal, o) \in Episode
    BY <1>0, TriedTyped DEF TypeOK
  <2>3. /\ Len(saved'.attempts) = Len(saved.attempts) + 1 /\ saved'.expert = saved.expert
        /\ saved'.phase = saved.phase
        /\ \/ saved'.final = saved.final /\ pc' = "propose"
           \/ saved'.final # None /\ pc' = "catalog"
    <3>1. LET e == Tried(proposal, o) IN
          /\ e.phase = ep.phase /\ e.final = ep.final /\ e.expert = ep.expert
          /\ Len(e.attempts) = Len(ep.attempts) + 1
      BY <1>0, TriedKeeps
    <3>2. /\ ep.phase = saved.phase /\ ep.final = saved.final /\ ep.expert = saved.expert
          /\ ep.attempts = saved.attempts
      BY <1>0, <1>11 DEF Linked, Judge
    <3> QED BY <2>1, <2>2, <3>1, <3>2 DEF Episode, None
  <2>4. (BuilderDone' <=> BuilderDone) /\ Recorded' = Recorded + 1
    BY <1>1, <2>3, Recording
  <2>5. Pending = 1 /\ Pending' = 0
    BY <1>11, <2>3 DEF Judge, Pending, UnderWay
  <2>6. runs' = runs /\ crashes' = crashes /\ reply' = reply
    BY <1>11 DEF Judge
  <2>7. Recorded' + Pending' + crashes' >= Recorded + Pending + crashes
    BY <1>1, <2>4, <2>5, <2>6
  <2> QED BY <1>3, <1>4, <2>3, <2>4, <2>6, <2>7
<1>12. CASE LocalOver \/ ReviewKnown \/ AddToCatalog \/ CatalogRefuses
           \/ AcceptItem \/ BlockDay \/ Resume \/ Tick
  <2>1. saved' = saved /\ runs' = runs /\ crashes' = crashes /\ reply' = reply
    BY <1>12 DEF LocalOver, ReviewKnown, AddToCatalog, CatalogRefuses, AcceptItem, BlockDay, Resume, Tick
  <2>2. CASE Tick
    <3>1. pc' = pc
      BY <2>2 DEF Tick
    <3> QED BY <1>0, <2>1, <2>2, <3>1
            DEF Counted, Recorded, ExpertTold, BuilderTold, Pending, Trying, UnderWay, BuilderDone, Spent
  <2>3. CASE LocalOver \/ ReviewKnown \/ AcceptItem \/ BlockDay \/ Resume
    <3>1. ~UnderWay /\ pc' # "local"
      BY <2>3 DEF LocalOver, ReviewKnown, AcceptItem, BlockDay, Resume, UnderWay
    <3> QED BY <1>5, <2>1, <3>1
  <2>4. CASE AddToCatalog
    BY <1>5, <2>1, <2>4 DEF AddToCatalog, UnderWay
  <2>5. CASE CatalogRefuses
    <3>1. pc = "catalog" /\ pc' = "down" /\ ep.final # "CODEX_VERIFIED"
      BY <2>5 DEF CatalogRefuses, Goto
    <3>2. saved.final # None
      BY <1>0, <3>1 DEF Linked, Verified, None
    <3>3. ~UnderWay /\ pc' # "local"
      BY <3>1, <3>2 DEF UnderWay
    <3> QED BY <1>5, <2>1, <3>3
  <2> QED BY <1>12, <2>2, <2>3, <2>4, <2>5
<1>13. CASE Solved
  <2>1. runs' = runs /\ crashes' = crashes /\ reply' = reply /\ saved.final = None
        /\ saved.expert = None /\ Pending = 1
    BY <1>0, <1>13 DEF Solved, Staged, Pending, UnderWay
  <2>2. CASE verdict
    BY <1>5, <1>13, <2>1, <2>2 DEF Solved, UnderWay
  <2>3. CASE ~verdict
    <3>1. /\ saved'.attempts = saved.attempts /\ saved'.expert = "FAILED"
          /\ saved'.phase = saved.phase /\ saved'.final = saved.final /\ pc' = "review"
      BY <1>0, <1>13, <2>3 DEF Solved, Linked, Episode
    <3>2. (BuilderDone' <=> BuilderDone) /\ Recorded' = Recorded + 1
      <4>1. BuilderDone' <=> BuilderDone
        BY <3>1 DEF BuilderDone
      <4>2. ExpertTold = 0 /\ ExpertTold' = 1 /\ BuilderTold' = BuilderTold
            /\ BuilderTold \in 0..1
        BY <2>1, <3>1, <4>1 DEF ExpertTold, BuilderTold, None
      <4> QED BY <1>1, <3>1, <4>1, <4>2 DEF Recorded
    <3>3. Pending' = 0
      BY <3>1 DEF Pending, UnderWay
    <3>4. Recorded' + Pending' + crashes' >= Recorded + Pending + crashes
      BY <1>1, <2>1, <3>2, <3>3
    <3> QED BY <1>3, <1>4, <2>1, <3>1, <3>2, <3>4
  <2> QED BY <2>2, <2>3
<1>14. CASE NotEligible \/ ReviewUncertain
  <2>1. /\ saved'.attempts = saved.attempts /\ saved'.expert = saved.expert
        /\ saved'.phase = saved.phase /\ saved'.final \in Unverified
        /\ pc' = "ended" /\ pc = "review" /\ UNCHANGED <<runs, reply, crashes>>
    BY <1>0, <1>14 DEF NotEligible, ReviewUncertain, Linked, Episode, Unverified
  <2> QED BY <1>5, <2>1 DEF Unverified, None, UnderWay
<1>15. CASE BeginReview \/ RecordReview
  <2>1. /\ saved'.attempts = saved.attempts /\ saved'.expert = saved.expert
        /\ saved'.phase \in {"SUBMISSION_STARTED", "ARTIFACT_RECORDED"}
        /\ saved'.final = saved.final /\ pc' \in {"submit", "guidance"}
        /\ pc \in {"review", "record"} /\ UNCHANGED <<runs, reply, crashes>>
    BY <1>0, <1>15 DEF BeginReview, RecordReview, Linked, Episode
  <2>2. saved.phase \in {None, "SUBMISSION_STARTED"}
    BY <1>0, <1>15 DEF BeginReview, RecordReview, Linked, Reviewed
  <2> QED BY <1>5, <2>1, <2>2 DEF BuilderDone, None, UnderWay
<1>16. CASE Submit
  <2>1. saved' = saved /\ crashes' = crashes /\ pc = "submit" /\ pc' = "record"
    BY <1>16 DEF Submit
  <2>2. saved.phase = "SUBMISSION_STARTED"
    BY <1>0, <2>1 DEF Reviewed
  <2>3. /\ ~BuilderDone /\ ~BuilderDone' /\ Recorded' = Recorded /\ Pending = 0 /\ Pending' = 0
        /\ Trying = 0 /\ Trying' = 0
    BY <2>1, <2>2, RecordKept DEF BuilderDone, Pending, UnderWay, Trying
  <2>4. Spent' = Spent /\ runs'["proposal"] = runs["proposal"] /\ runs'["local"] = runs["local"]
    BY <1>0, <1>16, OneMore, RunsElse, WorkNames DEF Submit
  <2>5. runs'["local"] + Trying' <= runs'["proposal"]
    BY <1>1, <2>3, <2>4 DEF Counted
  <2>6. Spent' <= Recorded' + Pending' + crashes'
    BY <1>1, <1>2, <2>1, <2>3, <2>4
  <2> QED BY <2>3, <2>5, <2>6 DEF Counted
<1>17. CASE Guidance
  <2>1. saved.final = None /\ ~BuilderDone /\ ~UnderWay
    BY <1>0, <1>3, <1>17 DEF Guidance, Staged, UnderWay
  <2>2. /\ saved'.attempts = saved.attempts /\ saved'.expert = saved.expert
        /\ saved'.phase \in {"BUILDER_STARTED", saved.phase}
        /\ pc' \in {"build", "ended"} /\ UNCHANGED <<runs, reply, crashes>>
    <3>1. CASE reply = "GUIDANCE"
      BY <1>0, <1>17, <3>1 DEF Guidance, Linked, Episode
    <3>2. CASE reply # "GUIDANCE"
      BY <1>0, <1>17, <3>2 DEF Guidance, Linked, Episode
    <3> QED BY <3>1, <3>2
  <2>3. saved'.final # None \/ saved'.final = saved.final
    BY <1>0, <1>17 DEF Guidance, Linked, Episode, None
  <2>4. ~BuilderDone'
    BY <2>1, <2>2 DEF BuilderDone
  <2> QED BY <1>5, <2>1, <2>2, <2>3, <2>4
<1>18. CASE Built
  <2>1. /\ saved'.phase \in {"BUILDER_VERIFIED", "BUILDER_FAILED"}
        /\ saved'.final \in Verified \cup Unverified
        /\ saved'.attempts = saved.attempts /\ saved'.expert = saved.expert
        /\ pc = "built" /\ pc' \in {"catalog", "ended"} /\ UNCHANGED <<runs, reply, crashes>>
    <3>1. CASE verdict
      BY <1>0, <1>18, <3>1 DEF Built, Linked, Episode, Verified
    <3>2. CASE ~verdict
      BY <1>0, <1>18, <3>2 DEF Built, Linked, Episode, Unverified
    <3> QED BY <3>1, <3>2
  <2>2. saved.phase = "BUILDER_STARTED" /\ reply = "GUIDANCE"
    BY <1>0, <2>1 DEF Reviewed
  <2>3. ~BuilderDone /\ BuilderDone' /\ saved'.final # None
    BY <2>1, <2>2 DEF BuilderDone, Verified, Unverified, None
  <2>4. Recorded' = Recorded + 1
    <3>1. BuilderTold = 0 /\ BuilderTold' = 1 /\ ExpertTold' = ExpertTold /\ ExpertTold \in 0..1
      BY <2>1, <2>3 DEF BuilderTold, ExpertTold
    <3> QED BY <1>1, <2>1, <3>1 DEF Recorded
  <2>5. Pending = 1 /\ Pending' = 0
    BY <2>1, <2>3 DEF Pending, UnderWay
  <2>6. Recorded' + Pending' + crashes' >= Recorded + Pending + crashes
    BY <1>1, <2>1, <2>4, <2>5
  <2> QED BY <1>4, <2>1, <2>2, <2>3, <2>6
<1>19. CASE CloseEpisode
  <2>1. /\ saved'.attempts = saved.attempts /\ saved'.phase = saved.phase
        /\ saved'.final = ep.final /\ saved'.expert = ep.expert /\ ep.final \in Verified
        /\ pc' = "accept" /\ pc = "close" /\ UNCHANGED <<runs, reply, crashes>>
    BY <1>0, <1>19 DEF CloseEpisode, Linked
  <2>2. saved'.final # None /\ (BuilderDone' <=> BuilderDone)
    BY <2>1 DEF Verified, None, BuilderDone
  <2>3. CASE saved.final = ep.final /\ saved.expert = ep.expert
    BY <1>5, <2>1, <2>2, <2>3 DEF UnderWay
  <2>4. CASE saved.expert = None /\ ep.expert = "VERIFIED"
    <3>1. Recorded' = Recorded + 1
      <4>1. ExpertTold = 0 /\ ExpertTold' = 1 /\ BuilderTold' = BuilderTold
            /\ BuilderTold \in 0..1
        BY <2>1, <2>2, <2>4 DEF ExpertTold, BuilderTold, None
      <4> QED BY <1>1, <2>1, <4>1 DEF Recorded
    <3>2. Pending' = 0
      BY <2>1 DEF Pending, UnderWay
    <3>3. Recorded' + Pending' + crashes' >= Recorded + Pending + crashes
      BY <1>1, <2>1, <3>1, <3>2
    <3> QED BY <1>3, <1>4, <2>1, <2>2, <3>3
  <2> QED BY <1>0, <2>1, <2>3, <2>4 DEF Linked
<1>20. CASE Crash
  <2>1. /\ saved'.attempts = saved.attempts /\ saved'.phase = saved.phase
        /\ saved'.final = saved.final /\ saved'.expert = saved.expert
        /\ pc' = "down" /\ crashes' = crashes + 1 /\ UNCHANGED <<runs, reply>>
    BY <1>0, <1>20 DEF Crash, Episode
  <2>2. Recorded' = Recorded /\ (BuilderDone' <=> BuilderDone) /\ Pending' = 0
    BY <2>1, RecordKept DEF BuilderDone, Pending, UnderWay
  <2>3. Recorded' + Pending' + crashes' >= Recorded + Pending + crashes
    BY <1>1, <2>1, <2>2
  <2> QED BY <1>3, <1>4, <2>1, <2>2, <2>3
<1>21. CASE GrantReview
  <2>1. /\ saved'.attempts = saved.attempts /\ saved'.expert = saved.expert
        /\ saved'.phase = None /\ UNCHANGED <<pc, runs, reply, crashes>> /\ pc = "down"
    BY <1>0, <1>21 DEF GrantReview, Linked, Staged, Episode
  <2>2. reply = "PROVIDER"
    BY <1>0, <1>21 DEF GrantReview, Linked, Reviewed
  <2>3. ~BuilderDone /\ ~BuilderDone'
    BY <1>3, <2>1, <2>2 DEF BuilderDone, None
  <2>4. Recorded' = Recorded /\ Pending' = Pending
    BY <2>1, <2>3, RecordKept DEF Pending, UnderWay
  <2>5. Recorded' + Pending' + crashes' >= Recorded + Pending + crashes
    BY <1>1, <2>1, <2>4
  <2> QED BY <1>4, <2>1, <2>3, <2>5
<1>22. CASE UNCHANGED vars
  BY <1>22 DEF vars, Counted, Recorded, ExpertTold, BuilderTold, Pending, Trying, UnderWay, BuilderDone, Spent
<1> QED BY <1>6, <1>7, <1>8, <1>9, <1>10, <1>11, <1>12, <1>13, <1>14, <1>15, <1>16, <1>17,
           <1>18, <1>19, <1>20, <1>21, <1>22 DEF Next, Work

LEMMA CountedInit == Init => Counted
<1> SUFFICES ASSUME Init PROVE Counted
  OBVIOUS
<1>1. Recorded = 0 /\ ~BuilderDone
  <2>1. ~BuilderDone /\ ExpertTold = 0 /\ Len(saved.attempts) = 0
    BY DEF Init, BuilderDone, ExpertTold, NoEpisode, None
  <2>2. BuilderTold = 0
    BY <2>1 DEF BuilderTold
  <2> QED BY <2>1, <2>2 DEF Recorded
<1>2. Spent = 0 /\ runs["local"] = 0 /\ runs["proposal"] = 0
  BY WorkNames DEF Init, Spent
<1>3. Pending = 0 /\ Trying = 0 /\ crashes = 0
  BY DEF Init, Pending, UnderWay, Trying
<1> QED BY <1>1, <1>2, <1>3 DEF Counted

(* The record has room for as many tries as the limit allows, for one expert    *)
(* and for one builder, whatever is under way counted in.                       *)
LEMMA RoomOnRecord ==
  ASSUME IInv, Counted
  PROVE  Recorded + Pending <= MaxProposals + 2
<1>1. /\ TypeOK /\ Linked /\ Staged /\ Reviewed /\ Len(saved.attempts) <= MaxProposals
      /\ Len(saved.attempts) \in Nat /\ MaxProposals \in Nat
  BY CountTyped, EpisodeAssumption DEF IInv, StaysLoadable
<1>2. ExpertTold \in 0..1 /\ BuilderTold \in 0..1 /\ Pending \in 0..1
  BY DEF ExpertTold, BuilderTold, Pending
<1>3. CASE ~UnderWay
  <2>1. Pending = 0
    BY <1>3 DEF Pending
  <2> QED BY <1>1, <1>2, <2>1 DEF Recorded
<1>4. CASE pc \in {"local", "judge"}
  <2>1. Len(saved.attempts) < MaxProposals
    BY <1>1, <1>4 DEF Staged
  <2> QED BY <1>1, <1>2, <2>1 DEF Recorded
<1>5. CASE pc = "solved" \/ (pc \in {"catalog", "close"} /\ saved.final = None)
  <2>1. saved.expert = None
    BY <1>1, <1>5 DEF Staged, Linked, Verified, None
  <2>2. ExpertTold = 0
    BY <2>1 DEF ExpertTold
  <2> QED BY <1>1, <1>2, <2>2 DEF Recorded
<1>6. CASE pc = "built"
  <2>1. ~BuilderDone
    BY <1>1, <1>6 DEF Reviewed, BuilderDone
  <2>2. BuilderTold = 0
    BY <2>1 DEF BuilderTold
  <2> QED BY <1>1, <1>2, <2>2 DEF Recorded
<1> QED BY <1>3, <1>4, <1>5, <1>6 DEF UnderWay

(* What a repair spends is within the limit on tries, one expert and one        *)
(* builder, and one piece of work more for each crash; no proposal is tried     *)
(* twice: each outcome is on record before the next work is handed out.         *)
THEOREM WorkBounded == Spec => []WorkIsBounded
<1>1. Init => Counted
  BY CountedInit
<1>2. IInv /\ Counted /\ [Next]_vars => Counted'
  BY CountedStep
<1>3. IInv /\ Counted => WorkIsBounded
  <2> SUFFICES ASSUME IInv, Counted PROVE WorkIsBounded
    OBVIOUS
  <2>1. /\ Recorded \in Nat /\ Pending \in 0..1 /\ Spent \in Nat /\ crashes \in Nat
        /\ runs["local"] \in Nat /\ runs["proposal"] \in Nat /\ MaxProposals \in Nat
    BY CountTyped, WorkNames, EpisodeAssumption DEF IInv
  <2>2. Recorded + Pending <= MaxProposals + 2
    BY RoomOnRecord
  <2>3. Spent <= MaxProposals + 2 + crashes
    BY <2>1, <2>2 DEF Counted
  <2>4. runs["local"] <= runs["proposal"]
    <3>1. Trying \in 0..1
      BY DEF Trying
    <3> QED BY <2>1, <3>1 DEF Counted
  <2> QED BY <2>3, <2>4 DEF WorkIsBounded, Spent
<1> QED BY <1>1, <1>2, <1>3, Invariance, PTL DEF Spec
-----------------------------------------------------------------------------
(* A running repair has a worker: whatever takes the worker from it gives the   *)
(* Day another state.                                                           *)
Carried == day = "repairing" => pc # "down"

LEMMA CarriedStep ==
  ASSUME TypeOK, Carried, [Next]_vars
  PROVE  Carried'
<1> USE DEF Carried, Goto, Elsewhere, Quiet, Unsaved
<1>1. CASE Open \/ ProposeRefused \/ ProposeBounded \/ LocalOver
  BY <1>1 DEF Open, ProposeRefused, ProposeBounded, LocalOver
<1>2. CASE RunLocal \/ RunExpert \/ RunBuilder \/ Judge \/ Solved \/ Built
  BY <1>2 DEF RunLocal, RunExpert, RunBuilder, Judge, Solved, Built
<1>3. CASE NotEligible \/ ReviewUncertain \/ ReviewKnown \/ BeginReview \/ Submit
           \/ RecordReview \/ Guidance
  BY <1>3 DEF NotEligible, ReviewUncertain, ReviewKnown, BeginReview, Submit, RecordReview, Guidance
<1>4. CASE AddToCatalog \/ CatalogRefuses \/ CloseEpisode \/ AcceptItem \/ BlockDay
  BY <1>4 DEF AddToCatalog, CatalogRefuses, CloseEpisode, AcceptItem, BlockDay
<1>5. CASE Crash \/ Resume \/ GrantReview \/ Tick
  BY <1>5 DEF Crash, Resume, GrantReview, Tick
<1>6. CASE UNCHANGED vars
  BY <1>6 DEF vars
<1> QED BY <1>1, <1>2, <1>3, <1>4, <1>5, <1>6 DEF Next, Work

LEMMA Fewer ==
  /\ \A m, l, a, b \in Nat :
       l <= m /\ b < a => 3 * (m - l) + b \in 0..((3 * (m - l) + a) - 1)
  /\ \A m, l, a, b \in Nat :
       l < m /\ b < a + 3 => 3 * (m - (l + 1)) + b \in 0..((3 * (m - l) + a) - 1)
OBVIOUS

LEMMA AheadIsCounted == \A p \in PCs : Ahead[p] \in Nat
BY DEF Ahead, PCs

(* A step that records nothing goes to a place with less ahead, and one that    *)
(* records a try has three steps more to spend.                                 *)
LEMMA Nearer ==
  ASSUME IInv, pc' \in PCs,
         \/ Len(saved'.attempts) = Len(saved.attempts) /\ Ahead[pc'] < Ahead[pc]
         \/ /\ Len(saved'.attempts) = Len(saved.attempts) + 1
            /\ Len(saved.attempts) < MaxProposals /\ Ahead[pc'] < Ahead[pc] + 3
  PROVE  StepsLeft' \in 0..(StepsLeft - 1)
<1>1. /\ MaxProposals \in Nat /\ Len(saved.attempts) \in Nat /\ pc \in PCs
      /\ Len(saved.attempts) <= MaxProposals
  BY CountTyped, EpisodeAssumption DEF IInv, StaysLoadable, TypeOK
<1>2. Ahead[pc] \in Nat /\ Ahead[pc'] \in Nat
  BY <1>1, AheadIsCounted
<1>3. StepsLeft = 3 * (MaxProposals - Len(saved.attempts)) + Ahead[pc]
  BY DEF StepsLeft
<1>4. StepsLeft' = 3 * (MaxProposals - Len(saved'.attempts)) + Ahead[pc']
  BY DEF StepsLeft
<1>5. CASE Len(saved'.attempts) = Len(saved.attempts) /\ Ahead[pc'] < Ahead[pc]
  <2>1. 3 * (MaxProposals - Len(saved.attempts)) + Ahead[pc']
          \in 0..((3 * (MaxProposals - Len(saved.attempts)) + Ahead[pc]) - 1)
    BY <1>1, <1>2, <1>5, Fewer
  <2> QED BY <1>3, <1>4, <1>5, <2>1
<1>6. CASE /\ Len(saved'.attempts) = Len(saved.attempts) + 1
           /\ Len(saved.attempts) < MaxProposals /\ Ahead[pc'] < Ahead[pc] + 3
  <2>1. 3 * (MaxProposals - (Len(saved.attempts) + 1)) + Ahead[pc']
          \in 0..((3 * (MaxProposals - Len(saved.attempts)) + Ahead[pc]) - 1)
    BY <1>1, <1>2, <1>6, Fewer
  <2> QED BY <1>3, <1>4, <1>6, <2>1
<1> QED BY <1>5, <1>6

LEMMA WorkerNearer ==
  ASSUME IInv, Carried, Next, day = "repairing", clock' = clock
  PROVE  StepsLeft' \in 0..(StepsLeft - 1)
<1> USE DEF Save, Unsaved, Quiet, Elsewhere, Goto, Run
<1>0. /\ TypeOK /\ Linked /\ Staged /\ saved \in Episode /\ ep \in Episode
      /\ Len(saved.attempts) \in Nat /\ pc' \in PCs
  <2>1. TypeOK'
    BY TypedStep DEF IInv
  <2> QED BY <2>1, CountTyped DEF IInv, TypeOK
<1>1. ASSUME saved'.attempts = saved.attempts, Ahead[pc'] < Ahead[pc]
      PROVE  StepsLeft' \in 0..(StepsLeft - 1)
  BY <1>0, <1>1, Nearer
<1>2. ASSUME Len(saved'.attempts) = Len(saved.attempts) + 1,
             Len(saved.attempts) < MaxProposals, Ahead[pc'] < Ahead[pc] + 3
      PROVE  StepsLeft' \in 0..(StepsLeft - 1)
  BY <1>0, <1>2, Nearer
<1>3. CASE Open
  <2>1. saved'.attempts = saved.attempts
    BY <1>0, <1>3 DEF Open, NewEpisode, NoEpisode, Linked, Staged
  <2>2. Ahead[pc'] < Ahead[pc]
    BY <1>3 DEF Open, Ahead
  <2> QED BY <1>1, <2>1, <2>2
<1>4. CASE ProposeRefused
  <2>1. PICK p \in Proposal \cup {None}, o \in Outcomes : saved' = Tried(p, o)
    BY <1>4 DEF ProposeRefused, Outcomes
  <2>2. Len(saved'.attempts) = Len(saved.attempts) + 1 /\ Len(saved.attempts) < MaxProposals
    BY <1>0, <1>4, <2>1, TriedKeeps DEF ProposeRefused, AsksLocal, Linked
  <2>3. Ahead[pc'] < Ahead[pc] + 3
    BY <1>4 DEF ProposeRefused, Ahead
  <2> QED BY <1>2, <2>2, <2>3
<1>5. CASE Judge
  <2>1. PICK o \in Outcomes : /\ \/ saved' = Tried(proposal, o)
                                \/ saved' = [Tried(proposal, o) EXCEPT !.final = "LOCAL_VERIFIED"]
                              /\ pc' \in {"propose", "catalog"}
    BY <1>5 DEF Judge, Outcomes
  <2>2. Tried(proposal, o) \in Episode
    BY <1>0, TriedTyped DEF TypeOK
  <2>3. saved'.attempts = Tried(proposal, o).attempts
    BY <2>1, <2>2 DEF Episode
  <2>4. Len(saved'.attempts) = Len(saved.attempts) + 1 /\ Len(saved.attempts) < MaxProposals
    BY <1>0, <1>5, <2>3, TriedKeeps DEF Judge, Linked, Staged
  <2>5. Ahead[pc'] < Ahead[pc] + 3
    BY <1>5, <2>1 DEF Judge, Ahead
  <2> QED BY <1>2, <2>4, <2>5
<1>6. CASE ProposeBounded \/ RunLocal \/ LocalOver \/ RunExpert \/ ReviewKnown \/ Submit \/ RunBuilder
  <2>1. saved' = saved
    BY <1>6 DEF ProposeBounded, RunLocal, LocalOver, RunExpert, ReviewKnown, Submit, RunBuilder
  <2>2. Ahead[pc'] < Ahead[pc]
    BY <1>6 DEF ProposeBounded, RunLocal, LocalOver, RunExpert, ReviewKnown, Submit, RunBuilder, Ahead
  <2> QED BY <1>1, <2>1, <2>2
<1>7. CASE Solved \/ Built \/ Guidance
  <2>1. saved'.attempts = saved.attempts
    <3>1. CASE Solved
      BY <1>0, <3>1 DEF Solved, Linked, Episode
    <3>2. CASE Built
      BY <1>0, <3>2 DEF Built, Linked, Episode
    <3>3. CASE Guidance
      BY <1>0, <3>3 DEF Guidance, Linked, Episode
    <3> QED BY <1>7, <3>1, <3>2, <3>3
  <2>2. \/ pc = "solved" /\ pc' \in {"catalog", "review"}
        \/ pc = "built" /\ pc' \in {"catalog", "ended"}
        \/ pc = "guidance" /\ pc' \in {"build", "ended"}
    BY <1>7 DEF Solved, Built, Guidance
  <2>3. Ahead[pc'] < Ahead[pc]
    BY <2>2 DEF Ahead
  <2> QED BY <1>1, <2>1, <2>3
<1>8. CASE NotEligible \/ ReviewUncertain \/ BeginReview \/ RecordReview
  <2>1. saved'.attempts = saved.attempts
    BY <1>0, <1>8 DEF NotEligible, ReviewUncertain, BeginReview, RecordReview, Linked, Episode
  <2>2. Ahead[pc'] < Ahead[pc]
    BY <1>8 DEF NotEligible, ReviewUncertain, BeginReview, RecordReview, Ahead
  <2> QED BY <1>1, <2>1, <2>2
<1>9. CASE AddToCatalog \/ CatalogRefuses \/ CloseEpisode \/ AcceptItem \/ BlockDay
  <2>1. saved'.attempts = saved.attempts
    BY <1>0, <1>9 DEF AddToCatalog, CatalogRefuses, CloseEpisode, AcceptItem, BlockDay, Linked
  <2>2. Ahead[pc'] < Ahead[pc]
    BY <1>9 DEF AddToCatalog, CatalogRefuses, CloseEpisode, AcceptItem, BlockDay, Ahead
  <2> QED BY <1>1, <2>1, <2>2
<1>10. CASE Crash
  <2>1. saved'.attempts = saved.attempts /\ pc' = "down"
    BY <1>0, <1>10 DEF Crash, Episode
  <2>2. Ahead[pc'] < Ahead[pc]
    BY <1>0, <2>1 DEF Carried, TypeOK, PCs, Ahead
  <2> QED BY <1>1, <2>1, <2>2
<1>11. ~Resume /\ ~GrantReview /\ ~Tick
  BY <1>0 DEF Resume, GrantReview, Tick, TypeOK
<1> QED BY <1>3, <1>4, <1>5, <1>6, <1>7, <1>8, <1>9, <1>10, <1>11 DEF Next, Work

(* A running repair comes to its end in at most 15 steps and three for each try *)
(* the limit allows, whatever its work comes to: this is what remains of        *)
(* EpisodeEnds when fairness is taken away.                                     *)
THEOREM EndsInSteps == Spec => RepairRunsOut
<1>1. Init => Carried
  BY DEF Init, Carried
<1>2. TypeOK /\ Carried /\ [Next]_vars => Carried'
  BY CarriedStep
<1>3. IInv => TypeOK
  BY DEF IInv
<1>4. IInv /\ Carried /\ [Next]_vars =>
        [day = "repairing" /\ clock' = clock => StepsLeft' \in 0..(StepsLeft - 1)]_vars
  <2> SUFFICES ASSUME IInv, Carried, Next, day = "repairing", clock' = clock
               PROVE  StepsLeft' \in 0..(StepsLeft - 1)
    BY DEF vars
  <2> QED BY WorkerNearer
<1> QED BY <1>1, <1>2, <1>3, <1>4, Invariance, PTL DEF Spec, RepairRunsOut
=============================================================================
