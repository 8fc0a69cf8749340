----------------------------- MODULE ReviewerBus -----------------------------
(* The watcher of the reviewer's pull request: class ReviewerBusWatcher of      *)
(* backend/control/reviewer_bus.py.                                             *)
(*                                                                              *)
(* One thread polls the comments, keeps an entry for every report it has seen,  *)
(* hands the reply to one report to Codex, publishes the report Codex answers   *)
(* with, and marks the reply applied.  Every change of its state is saved at    *)
(* once, so a restart loses only where the cycle was; it can come between any   *)
(* two of the actions below.  Reports are numbered in the order of their        *)
(* comments; a reply comes as a comment or as a file, and can be changed, taken  *)
(* away or replaced later.  Reports a recovery holds back (TransportRecovery)   *)
(* are only those that were refused.                                            *)
EXTENDS FiniteSets, Naturals

CONSTANTS
  MaxReports,   \* bound: reports on the pull request
  Transport,    \* "comment" or "file", for each report
  Confirms,     \* the report whose human wait a report asks to end, or 0
  NeedsReply,   \* is a report's RESPONSE_REQUIRED anything but "no"?
  MaxEdits,     \* bound: changes of replies
  MaxRuns,      \* bound: Codex continuations
  MaxRestarts   \* bound: restarts of the watcher

Report == 1..MaxReports
Reply == {"NONE", "CONTINUE", "REJECT", "BAD"}

BusAssumption ==
  /\ MaxReports \in Nat \ {0} /\ MaxEdits \in Nat /\ MaxRuns \in Nat /\ MaxRestarts \in Nat
  /\ Transport \in [Report -> {"comment", "file"}]
  /\ Confirms \in [Report -> {0} \cup Report]
  /\ NeedsReply \in [Report -> BOOLEAN]

VARIABLES
  posted,       \* reports on the pull request: 1 to posted
  replies,      \* the reply to each report
  replyIds,     \* the comment each reply is in, counted from 0
  edits,        \* changes of replies so far
  registry,     \* report_registry: the state of each report's entry
  loaded,       \* is there a registry yet?
  refused,      \* reports with a transport_recovery record
  pending,      \* the reply being applied: its report, its comment, what it said
  outstanding,  \* outstanding_report_id
  processed,    \* processed_report_ids
  lastReport,   \* last_report_id
  lastAction,   \* last_continuation_action
  excluded,     \* non_controlling_report_ids
  cycle,        \* where the cycle is, with what it has read
  continued,    \* how often Codex was given the reply to each report
  runs, busRestarts

busState == <<registry, loaded, refused, pending, outstanding, processed, lastReport,
              lastAction, excluded>>
remote == <<posted, replies, replyIds, edits>>
busVars == <<remote, busState, cycle, continued, runs, busRestarts>>

NoReply == [report |-> 0, id |-> 0, said |-> "NONE"]
Between == [at |-> "idle", seen |-> 0, ids |-> [r \in Report |-> 0],
            said |-> [r \in Report |-> "NONE"], report |-> 0, next |-> 0]

Waiting == {"QUEUED", "WAITING_RESPONSE", "RESPONSE_RECEIVED"}
Eligible == Waiting \cup {"CONTINUATION_FAILED"}

(* Mutant: the file of a report that is APPLIED is read again.                  *)
EndedButApplied == {"ACKNOWLEDGED", "HUMAN_REQUIRED", "RESOLVED_BY_CONFIRMATION",
                    "NON_CONTROLLING", "HISTORICAL_NOT_REPLAYED", "FILE_RESPONSE_INVALIDATED"}

Ended == {"APPLIED", "ACKNOWLEDGED", "HUMAN_REQUIRED", "RESOLVED_BY_CONFIRMATION",
          "NON_CONTROLLING", "HISTORICAL_NOT_REPLAYED", "FILE_RESPONSE_INVALIDATED"}

EntryState == {"NONE", "APPLYING", "CONFIRMATION_BLOCKED", "NOT_REQUIRED", "APPLIED"} \cup Eligible \cup Ended

Init ==
  /\ posted = 1 /\ replies = [r \in Report |-> "NONE"]
  /\ replyIds = [r \in Report |-> 0] /\ edits = 0
  /\ registry = [r \in Report |-> "NONE"] /\ loaded = FALSE /\ refused = {}
  /\ pending = NoReply /\ outstanding = 0 /\ processed = {}
  /\ lastReport = 0 /\ lastAction = "NONE" /\ excluded = {}
  /\ cycle = Between
  /\ continued = [r \in Report |-> 0] /\ runs = 0 /\ busRestarts = 0

Least(S) == CHOOSE r \in S : \A q \in S : r <= q
Goes(c) == cycle' = c /\ UNCHANGED <<runs, busRestarts>>
Returns == Goes(Between)
-----------------------------------------------------------------------------
(* _sync_report_registry: the entry of one report, from the comments read.      *)
Anchor(n) ==
  IF outstanding # 0 THEN outstanding ELSE IF pending.report # 0 THEN pending.report ELSE n

Entered(r, n) ==
  IF registry[r] # "NONE" THEN registry[r]
  ELSE IF r = Anchor(n) THEN "WAITING_RESPONSE"
  ELSE IF ~loaded /\ r < Anchor(n) THEN "HISTORICAL_NOT_REPLAYED" ELSE "QUEUED"

(* Mutant: every report that was processed is APPLIED.                          *)
SyncedAsApplied(r, n, said) ==
  LET e == Entered(r, n) IN
  CASE r \in excluded -> "NON_CONTROLLING"
    [] r \notin excluded /\ r \in processed -> "APPLIED"
    [] r \notin excluded \cup processed /\ e \in Waiting /\ Transport[r] = "comment"
       /\ NeedsReply[r] -> IF said[r] # "NONE" THEN "RESPONSE_RECEIVED" ELSE e
    [] OTHER -> e

Synced(r, n, said) ==
  LET e == Entered(r, n)
      open == r \notin excluded /\ ~(r \in processed /\ e \notin {"HUMAN_REQUIRED", "RESOLVED_BY_CONFIRMATION"})
      quiet == open /\ ~NeedsReply[r] /\ e # "HISTORICAL_NOT_REPLAYED" /\ Transport[r] = "comment"
  IN
  CASE r \in excluded -> "NON_CONTROLLING"
    [] r \notin excluded /\ ~open ->
         IF r = lastReport /\ lastAction = "HUMAN_REQUIRED" THEN "HUMAN_REQUIRED" ELSE "APPLIED"
    [] quiet -> IF said[r] # "NONE" THEN "ACKNOWLEDGED" ELSE "NOT_REQUIRED"
    [] open /\ ~quiet /\ e \in Waiting /\ Transport[r] = "comment" ->
         IF said[r] # "NONE" THEN "RESPONSE_RECEIVED" ELSE e
    [] OTHER -> e

(* The comments, read once per cycle; the cycle works on what it has read.      *)
Fetch ==
  /\ cycle.at = "idle"
  /\ Goes([Between EXCEPT !.at = "sync", !.seen = posted, !.ids = replyIds,
             !.said = [r \in Report |-> IF Transport[r] = "comment" THEN replies[r] ELSE "NONE"]])
  /\ UNCHANGED <<remote, busState, continued>>

Sync ==
  /\ cycle.at = "sync"
  /\ registry' = [r \in Report |-> IF r > cycle.seen THEN registry[r]
                                   ELSE Synced(r, cycle.seen, cycle.said)]
  /\ loaded' = TRUE
  /\ Goes([cycle EXCEPT !.at = "files"])
  /\ UNCHANGED <<remote, refused, pending, outstanding, processed, lastReport, lastAction,
                 excluded, continued>>

(* _validate_pending_file_state: a pending file that is not the outstanding     *)
(* report's any more is dropped, and the cycle is over.                         *)
PendingFileFits ==
  pending.report # 0 /\ Transport[pending.report] = "file"
    => outstanding = pending.report /\ pending.report \notin processed

DropPendingFile ==
  /\ cycle.at = "files" /\ ~PendingFileFits
  /\ registry' = [registry EXCEPT ![pending.report] = "FILE_RESPONSE_INVALIDATED"]
  /\ refused' = refused \cup {pending.report}
  /\ pending' = NoReply
  /\ Returns
  /\ UNCHANGED <<remote, loaded, outstanding, processed, lastReport, lastAction, excluded, continued>>

(* binding(): the reports whose reply comes as a file.                          *)
FileReports == {r \in Report : Transport[r] = "file"}

(* GitHubFileReader: which of their files a cycle can read; each read can fail. *)
FilesRead == SUBSET FileReports

(* response(): a file that is there and breaks the report's binding.            *)
FileBad(r) == replies[r] = "BAD"

(* _sync_file_responses: the reply file of every open file-mode report is read  *)
(* again; ok is the reports whose files could be read.  A pending reply whose   *)
(* file has changed or gone is invalidated, one that breaks its binding refused.*)
ReadsFile(r, ok) ==
  /\ r \in FileReports /\ r <= cycle.seen
  /\ registry[r] \notin Ended \cup {"NONE"} /\ r \notin refused /\ r \in ok

(* Mutant: a file that is pending is not compared with what was read before.    *)
FileBrokenOnlyBad(r) == FileBad(r)

FileBroken(r) ==
  IF pending.report = r THEN replies[r] # pending.said \/ outstanding # r \/ r \in processed
                        ELSE FileBad(r)

FileEntry(r) ==
  IF FileBroken(r) THEN IF pending.report = r THEN "FILE_RESPONSE_INVALIDATED" ELSE registry[r]
  ELSE IF replies[r] = "NONE" THEN IF NeedsReply[r] THEN "WAITING_RESPONSE" ELSE "NOT_REQUIRED"
  ELSE IF NeedsReply[r] THEN "RESPONSE_RECEIVED" ELSE "ACKNOWLEDGED"

SyncFiles ==
  /\ cycle.at = "files" /\ PendingFileFits
  /\ \E ok \in FilesRead :
       LET read == {r \in Report : ReadsFile(r, ok)}
           broken == {r \in read : FileBroken(r)} IN
       /\ registry' = [r \in Report |-> IF r \in read THEN FileEntry(r) ELSE registry[r]]
       /\ refused' = refused \cup broken
       /\ pending' = IF pending.report \in broken THEN NoReply ELSE pending
       /\ Goes([cycle EXCEPT !.at = "choose",
                  !.said = [r \in Report |->
                     IF Transport[r] = "comment" THEN cycle.said[r]
                     ELSE IF r \in read \ broken /\ NeedsReply[r] THEN replies[r] ELSE "NONE"]])
  /\ UNCHANGED <<remote, loaded, outstanding, processed, lastReport, lastAction, excluded, continued>>
-----------------------------------------------------------------------------
(* _current_report: the report whose reply is pending, else the oldest one that *)
(* has a reply, else the oldest one that waits for one.                         *)
Controlling == (1..cycle.seen) \ excluded

CurrentReport ==
  LET eligible == {r \in Controlling : r \notin refused /\ registry[r] \in Eligible}
      ready == {r \in eligible : registry[r] = "RESPONSE_RECEIVED"}
      expected == IF outstanding # 0 THEN outstanding ELSE pending.report
  IN  IF pending.report # 0 THEN IF expected \in Controlling THEN expected ELSE 0
      ELSE IF ready # {} THEN Least(ready)
      ELSE IF eligible # {} THEN Least(eligible) ELSE 0

(* _pending_or_matching_response, for replies that are comments: the comment    *)
(* that was bound must still be there and answer the report; what it says now   *)
(* is not compared with what it said then.                                      *)
PendingFits(r) ==
  /\ pending.report = r /\ r \notin processed /\ outstanding \in {0, r}
  /\ cycle.said[r] # "NONE" /\ cycle.ids[r] = pending.id

(* _confirmation_error: a confirmation names a report that waits for a human,   *)
(* and its reply repeats what it names.                                         *)
ConfirmationError(r, said) ==
  /\ Confirms[r] # 0
  /\ \/ Confirms[r] = r \/ registry[Confirms[r]] # "HUMAN_REQUIRED" \/ said = "BAD"

(* _invalidate_pending_response: the report is outstanding again.               *)
Invalidates(r) == pending' = NoReply /\ outstanding' = r

(* _record_unmatched_response: a comment may answer a report nobody knows.      *)
Unmatched(r) ==
  /\ outstanding' \in IF r # 0 /\ Transport[r] = "comment" THEN {outstanding, r} ELSE {outstanding}
  /\ UNCHANGED pending

(* The reply to the current report is bound, and the report is APPLYING.        *)
Choose ==
  /\ cycle.at = "choose"
  /\ LET r == CurrentReport
         said == IF r = 0 THEN "NONE" ELSE cycle.said[r]
         stale == r # 0 /\ Transport[r] = "comment" /\ pending.report # 0 /\ ~PendingFits(r)
         applies == r # 0 /\ said # "NONE" /\ ~stale
                    /\ (Transport[r] = "comment" => r \notin processed)
     IN
     \/ stale /\ Invalidates(r) /\ Returns /\ UNCHANGED <<registry, lastReport>>
     \/ ~stale /\ ~applies /\ Unmatched(r) /\ Returns /\ UNCHANGED <<registry, lastReport>>
     \/ /\ applies /\ ConfirmationError(r, said)
        /\ registry' = [registry EXCEPT ![r] = "CONFIRMATION_BLOCKED"]
        /\ Returns /\ UNCHANGED <<pending, outstanding, lastReport>>
     \/ /\ applies /\ ~ConfirmationError(r, said)
        /\ pending' = [report |-> r, id |-> cycle.ids[r], said |-> said]
        /\ outstanding' = r /\ lastReport' = r
        /\ registry' = [registry EXCEPT ![r] = "APPLYING"]
        /\ Goes([cycle EXCEPT !.at = "codex", !.report = r])
  /\ UNCHANGED <<remote, loaded, refused, processed, lastAction, excluded, continued>>

(* What Codex's last message can be: no envelope, an action that is not known,  *)
(* the end of the exchange, a human's turn, or the next report, valid or not.   *)
Answers == {"INVALID", "OTHER", "NO_REPORT", "HUMAN_REQUIRED", "POST_INVALID", "POST_REPORT"}

(* _continue_codex: the continuation fails, or Codex answers.                   *)
ContinueCodex ==
  /\ cycle.at = "codex" /\ runs < MaxRuns
  /\ runs' = runs + 1 /\ UNCHANGED busRestarts
  /\ continued' = [continued EXCEPT ![cycle.report] = @ + 1]
  /\ \E answer \in Answers :
       /\ registry' = IF answer = "INVALID"
                      THEN [registry EXCEPT ![cycle.report] = "CONTINUATION_FAILED"] ELSE registry
       /\ lastAction' = CASE answer = "INVALID" -> lastAction
                          [] answer = "POST_INVALID" -> "POST_REPORT"
                          [] OTHER -> answer
       /\ answer = "POST_REPORT" => posted < MaxReports
       /\ cycle' = CASE answer \in {"NO_REPORT", "HUMAN_REQUIRED"} -> [cycle EXCEPT !.at = "resolve"]
                     [] answer = "POST_REPORT" -> [cycle EXCEPT !.at = "post"]
                     [] OTHER -> Between
  /\ UNCHANGED <<remote, loaded, refused, pending, outstanding, processed, lastReport, excluded>>

(* _post_comment: a POST that times out may have been delivered.                *)
PostReport ==
  /\ cycle.at = "post" /\ posted < MaxReports
  /\ \/ /\ posted' = posted + 1
        /\ registry' = [registry EXCEPT ![posted + 1] = "WAITING_RESPONSE"]
        /\ Goes([cycle EXCEPT !.at = "resolve", !.next = posted + 1])
     \/ posted' \in {posted, posted + 1} /\ Returns /\ UNCHANGED registry
  /\ UNCHANGED <<replies, replyIds, edits, loaded, refused, pending, outstanding, processed, lastReport,
                 lastAction, excluded, continued>>

(* _mark_response_applied, its first saves: a confirmation ends the wait it     *)
(* names, and the report's entry is closed.                                     *)
Resolve ==
  /\ cycle.at = "resolve"
  /\ LET r == cycle.report
         ends == Confirms[r] # 0 /\ lastAction # "HUMAN_REQUIRED" /\ pending.said = "CONTINUE"
                 /\ ~ConfirmationError(r, pending.said)
     IN registry' = [q \in Report |->
          IF q = r THEN IF lastAction = "HUMAN_REQUIRED" THEN "HUMAN_REQUIRED" ELSE "APPLIED"
          ELSE IF ends /\ q = Confirms[r] THEN "RESOLVED_BY_CONFIRMATION" ELSE registry[q]]
  /\ Goes([cycle EXCEPT !.at = "mark"])
  /\ UNCHANGED <<remote, loaded, refused, pending, outstanding, processed, lastReport,
                 lastAction, excluded, continued>>

(* and its last: processed, and nothing pending any more.                       *)
MarkApplied ==
  /\ cycle.at = "mark"
  /\ processed' = processed \cup {cycle.report}
  /\ pending' = NoReply
  /\ outstanding' = cycle.next /\ lastReport' = IF cycle.next = 0 THEN lastReport ELSE cycle.next
  /\ Returns
  /\ UNCHANGED <<remote, registry, loaded, refused, lastAction, excluded, continued>>
-----------------------------------------------------------------------------
(* recover_outstanding_report: with the watcher stopped, another report is made *)
(* the outstanding one; the present one controls nothing any more.              *)
RecoverOutstanding(target) ==
  /\ cycle.at = "idle" /\ outstanding # 0 /\ outstanding # target /\ target <= posted
  /\ pending.report # 0 => Transport[pending.report] = "file"
  /\ target \notin processed
  /\ excluded' = excluded \cup {outstanding}
  /\ outstanding' = target
  /\ registry' = [r \in Report |->
       IF r = target THEN "WAITING_RESPONSE"
       ELSE IF r \in excluded' THEN "NON_CONTROLLING" ELSE registry[r]]
  /\ loaded' = TRUE
  /\ UNCHANGED <<remote, refused, pending, processed, lastReport, lastAction, cycle, continued,
                 runs, busRestarts>>

(* The reviewer and whoever else writes to the pull request.                    *)
Replies(r) ==
  /\ r <= posted /\ replies[r] = "NONE"
  /\ \E said \in Reply \ {"NONE"} : replies' = [replies EXCEPT ![r] = said]
  /\ UNCHANGED <<posted, replyIds, edits, busState, cycle, continued, runs, busRestarts>>

(* A reply is edited, removed or made to answer another report; where it was a  *)
(* comment, another comment may be the reply from now on.                       *)
ReplyChanges(r) ==
  /\ replies[r] # "NONE" /\ edits < MaxEdits
  /\ edits' = edits + 1
  /\ \E said \in Reply, other \in IF Transport[r] = "comment" THEN {0, 1} ELSE {0} :
       /\ other = 1 \/ said # replies[r]
       /\ replies' = [replies EXCEPT ![r] = said]
       /\ replyIds' = [replyIds EXCEPT ![r] = @ + other]
  /\ UNCHANGED <<posted, busState, cycle, continued, runs, busRestarts>>

PostedElsewhere ==
  /\ posted < MaxReports /\ posted' = posted + 1
  /\ UNCHANGED <<replies, replyIds, edits, busState, cycle, continued, runs, busRestarts>>

Restart ==
  /\ cycle.at # "idle" /\ busRestarts < MaxRestarts
  /\ cycle' = Between /\ busRestarts' = busRestarts + 1
  /\ UNCHANGED <<remote, busState, continued, runs>>

Next ==
  \/ Fetch \/ Sync \/ DropPendingFile \/ SyncFiles \/ Choose \/ ContinueCodex \/ PostReport
  \/ Resolve \/ MarkApplied
  \/ \E r \in Report : RecoverOutstanding(r) \/ Replies(r) \/ ReplyChanges(r)
  \/ PostedElsewhere \/ Restart

Spec == Init /\ [][Next]_busVars
-----------------------------------------------------------------------------
TypeOK ==
  /\ posted \in Report /\ replies \in [Report -> Reply]
  /\ replyIds \in [Report -> 0..MaxEdits] /\ edits \in 0..MaxEdits
  /\ registry \in [Report -> EntryState] /\ loaded \in BOOLEAN /\ refused \subseteq Report
  /\ pending \in [report : 0..MaxReports, id : 0..MaxEdits, said : Reply]
  /\ outstanding \in 0..MaxReports /\ lastReport \in 0..MaxReports
  /\ processed \subseteq Report /\ excluded \subseteq Report
  /\ lastAction \in {"NONE", "OTHER", "POST_REPORT", "NO_REPORT", "HUMAN_REQUIRED"}
  /\ continued \in [Report -> 0..MaxRuns]
  /\ cycle.at \in {"idle", "sync", "files", "choose", "codex", "post", "resolve", "mark"}

(* A report that was processed is never given to Codex again: not after a       *)
(* restart, a second reply, a changed file or a recovery of the bus.            *)
ProcessedIsNotContinued ==
  [][\A r \in processed : continued'[r] = continued[r]]_busVars

(* The wait for a human ends only by a confirmation that names it and was       *)
(* applied, or by an authorised recovery that makes the report non-controlling. *)
HumanWaitEndsByConfirmation ==
  [][\A r \in processed \ excluded' :
       registry[r] = "HUMAN_REQUIRED" /\ registry'[r] # "HUMAN_REQUIRED"
         => /\ registry'[r] = "RESOLVED_BY_CONFIRMATION"
            /\ Confirms[cycle.report] = r /\ pending.said = "CONTINUE"]_busVars

(* A reply that is pending stays the one that was bound, over failed attempts,  *)
(* restarts and later polls: a file is applied as it was bound or not at all,   *)
(* and a comment is the same comment, though it may have been edited: the code  *)
(* reads it again and gives Codex what it says now.                             *)
AppliesWhatWasBound ==
  [][\A r \in Report : pending.report = r /\ pending'.report = r
       => IF Transport[r] = "file" THEN pending'.said = pending.said
                                   ELSE pending'.id = pending.id]_busVars
=============================================================================
