-------------------------- MODULE TransportRecovery --------------------------
(* The repair of one rejected file-mode report: class TransportRecovery of      *)
(* backend/control/reviewer_recovery.py, with the files of reviewer_files.py.   *)
(*                                                                              *)
(* A tick follows every poll of the reviewer bus, in the same thread.  It may   *)
(* publish one replacement of the rejected report: a request file, created on   *)
(* the branch, and a comment that triggers it.  Both calls can fail, time out   *)
(* after they have taken effect, or take effect late; the process may die at    *)
(* any of them.  Somebody may also publish a replacement by hand.  What the bus *)
(* does with a replacement (ReviewerBus) is reduced to the state of its entry:  *)
(* reading its reply file, which no recovery holds back, and giving the reply   *)
(* to Codex, which the recovery can block.                                      *)
EXTENDS Naturals

CONSTANTS
  Deadline,     \* ticks of the clock until a recovery is given up
  MaxForeign,   \* bound: replacements published by hand
  MaxCrash      \* bound: restarts

RecoveryAssumption ==
  Deadline \in Nat \ {0} /\ MaxForeign \in Nat /\ MaxCrash \in Nat

VARIABLES
  phase,        \* the record's phase; NONE before the report is rejected
  repairable,   \* is an omitted AUTHORITY_RECORD all that is wrong with it?
  child,        \* the replacement the record names
  attempts,     \* the record's attempts
  clock,        \* time since the rejection
  request,      \* the file at the replacement's request path
  inFlight,     \* a POST that has timed out and not reached the server yet
  comments,     \* replacements on the pull request, by who published them
  posts,        \* how often the tick has issued its POST
  entry,        \* the registry's state of each replacement
  tickAt,       \* where the tick is
  seen,         \* the comments of this poll; UNREAD when the fetch failed
  restarts

recoveryVars == <<phase, repairable, child, attempts, clock, request, inFlight, comments, posts,
                  entry, tickAt, seen, restarts>>

Children == {"own", "foreign"}
Final == {"RESOLVED", "ESCALATED"}
Phases == {"NONE", "DETECTED", "PREPARING", "POSTING", "WAITING_RESPONSE", "RESPONSE_RECEIVED"}
          \cup Final

(* An entry as the tick tells it apart.  A replacement that asks for no reply   *)
(* is NOT_REQUIRED, or FILE_ERROR while its file cannot be read, until it is    *)
(* ACKNOWLEDGED; FAILED is a file error, CONTINUATION_FAILED or                 *)
(* CONFIRMATION_BLOCKED of one that asks for a reply.                           *)
Applied == {"APPLIED", "ACKNOWLEDGED", "RESOLVED_BY_CONFIRMATION"}
Failed == {"FAILED", "FILE_ERROR", "HUMAN_REQUIRED"}
Entries == {"ABSENT", "QUEUED", "RESPONSE_RECEIVED", "APPLYING", "NOT_REQUIRED"} \cup Applied \cup Failed
NoComments == [own |-> 0, foreign |-> 0]
Unread == [own |-> 9, foreign |-> 9]

Init ==
  /\ phase = "NONE" /\ repairable = FALSE /\ child = "none" /\ attempts = 0
  /\ clock = 0
  /\ request = "absent" /\ inFlight = FALSE
  /\ comments = NoComments /\ posts = 0
  /\ entry = [c \in Children |-> "ABSENT"]
  /\ tickAt = "idle" /\ seen = Unread /\ restarts = 0

Target == IF child = "none" THEN "ABSENT" ELSE entry[child]
Expired == clock >= Deadline

world == <<repairable, request, inFlight, comments, posts, entry>>
-----------------------------------------------------------------------------
(* reject(): one record per report, whatever is found wrong later.  What is     *)
(* wrong with it, and what is at the replacement's request path, is not ours.   *)
Reject ==
  /\ phase = "NONE"
  /\ phase' = "DETECTED"
  /\ repairable' \in BOOLEAN /\ request' \in {"absent", "other"}
  /\ UNCHANGED <<child, attempts, clock, inFlight, comments, posts, entry, tickAt, seen, restarts>>

(* The poll before the tick.                                                    *)
Poll ==
  /\ tickAt = "idle" /\ phase \notin Final \cup {"NONE"}
  /\ seen' \in {comments, Unread}
  /\ tickAt' = "tick"
  /\ UNCHANGED <<phase, child, attempts, clock, world, restarts>>

Saves(p) == phase' = p /\ tickAt' = "idle" /\ UNCHANGED <<child, attempts>>

(* A FileReplyError: only a failed read is worth another tick.                  *)
Fails(fetch) ==
  IF fetch /\ attempts < 2 THEN Saves(phase) ELSE Saves("ESCALATED")

(* Mutant: a replacement is continued until the deadline, given up or not.      *)
BlocksWhenExpired(c) == child = c /\ phase # "RESOLVED" /\ Expired

(* blocks_continuation(): the bus does not continue a replacement whose record  *)
(* was given up, or whose time is over.                                         *)
Blocks(c) == child = c /\ phase # "RESOLVED" /\ (phase = "ESCALATED" \/ Expired)

(* Mutant: the deadline is not looked at.                                       *)
OutcomeKnownOnly ==
  \/ Target \in Applied /\ Saves("RESOLVED")
  \/ Target \in Failed /\ Saves("ESCALATED")

(* What is settled by the replacement's own state, or by the deadline.          *)
Settles ==
  \/ Target \in Applied /\ Saves("RESOLVED")
  \/ Target \in Failed /\ Saves("ESCALATED")
  \/ Target \notin Applied \cup Failed /\ Expired /\ Saves("ESCALATED")

Open == Target \notin Applied \cup Failed /\ ~Expired

(* Waiting for a reply to the replacement and for its application.              *)
Waits ==
  /\ phase \in {"WAITING_RESPONSE", "RESPONSE_RECEIVED"}
  /\ Saves(IF Target \in {"RESPONSE_RECEIVED", "APPLYING"} THEN "RESPONSE_RECEIVED" ELSE phase)

(* A replacement published by hand is taken over when it is the only one.       *)
Adopts ==
  /\ phase \in {"DETECTED", "PREPARING", "POSTING"} /\ child = "none" /\ seen.foreign > 0
  /\ IF seen.foreign > 1 THEN Saves("ESCALATED")
     ELSE \/ \E fetch \in BOOLEAN : Fails(fetch)
          \/ /\ phase' = "WAITING_RESPONSE" /\ child' = "foreign" /\ tickAt' = "idle"
             /\ UNCHANGED attempts

(* The outcome of a POST is read back, never posted again.                      *)
ReadsBack ==
  /\ phase = "POSTING"
  /\ Saves(IF seen.own = 1 THEN "WAITING_RESPONSE" ELSE "ESCALATED")

(* Mutant: the attempts are not bounded.                                        *)
PreparesAgain ==
  /\ phase \in {"DETECTED", "PREPARING"} /\ (child # "none" \/ seen.foreign = 0)
  /\ \/ \E fetch \in BOOLEAN : (fetch \/ ~repairable) /\ Fails(fetch)
     \/ /\ repairable
        /\ phase' = "PREPARING" /\ child' = "own" /\ attempts' = attempts + 1
        /\ tickAt' = "create"

(* The first save of a repair names the replacement and counts the attempt.     *)
Prepares ==
  /\ phase \in {"DETECTED", "PREPARING"} /\ (child # "none" \/ seen.foreign = 0)
  /\ IF attempts >= 2 THEN Saves("ESCALATED")
     ELSE \/ \E fetch \in BOOLEAN : (fetch \/ ~repairable) /\ Fails(fetch)
          \/ /\ repairable
             /\ phase' = "PREPARING" /\ child' = "own" /\ attempts' = attempts + 1
             /\ tickAt' = "create"

(* tick(): one record, one step towards its end per poll.                       *)
Tick ==
  /\ tickAt = "tick"
  /\ \/ Settles
     \/ Open /\ seen = Unread /\ Saves(phase)
     \/ Open /\ seen # Unread /\ (Waits \/ Adopts \/ ReadsBack \/ Prepares)
  /\ seen' = Unread
  /\ UNCHANGED <<clock, world, restarts>>

(* Mutant: POSTING is not saved before the comment is posted.                   *)
CreateUnsaved ==
  /\ tickAt = "create"
  /\ request # "other" /\ request' = "ours"
  /\ tickAt' = "post" /\ UNCHANGED <<phase, child, attempts>>
  /\ UNCHANGED <<clock, repairable, inFlight, comments, posts, entry, seen, restarts>>

(* create_request() and the reads around it: a file that is there already is    *)
(* ours from an earlier attempt, or not ours at all.                            *)
CreateRequest ==
  /\ tickAt = "create"
  /\ \/ Fails(TRUE) /\ request' \in {request, IF request = "absent" THEN "ours" ELSE request}
     \/ request = "other" /\ Fails(FALSE) /\ UNCHANGED request
     \/ /\ request # "other" /\ request' = "ours"
        /\ phase' = "POSTING" /\ tickAt' = "post" /\ UNCHANGED <<child, attempts>>
  /\ UNCHANGED <<clock, repairable, inFlight, comments, posts, entry, seen, restarts>>

(* _post_comment(), its outcome ignored: delivered, lost, or still on its way.  *)
Post ==
  /\ tickAt = "post"
  /\ posts' = posts + 1
  /\ \/ comments' = [comments EXCEPT !.own = @ + 1] /\ UNCHANGED inFlight
     \/ inFlight' = TRUE /\ UNCHANGED comments
     \/ UNCHANGED <<comments, inFlight>>
  /\ tickAt' = "idle"
  /\ UNCHANGED <<phase, child, attempts, clock, repairable, request, entry, seen, restarts>>
-----------------------------------------------------------------------------
(* The server, the reviewer and the clock.                                      *)
ArrivesLate ==
  /\ inFlight /\ inFlight' = FALSE
  /\ comments' = [comments EXCEPT !.own = @ + 1]
  /\ UNCHANGED <<phase, repairable, child, attempts, clock, request, posts, entry, tickAt, seen,
                 restarts>>

ReplacedByHand ==
  /\ phase # "NONE" /\ comments.foreign < MaxForeign
  /\ comments' = [comments EXCEPT !.foreign = @ + 1]
  /\ UNCHANGED <<phase, repairable, child, attempts, clock, request, inFlight, posts, entry,
                 tickAt, seen, restarts>>

ClockAdvances ==
  /\ phase # "NONE" /\ ~Expired
  /\ clock' = clock + 1
  /\ UNCHANGED <<phase, child, attempts, world, tickAt, seen, restarts>>

Becomes(c, states) ==
  /\ tickAt = "idle" /\ \E s \in states : entry' = [entry EXCEPT ![c] = s]
  /\ UNCHANGED <<phase, repairable, child, attempts, clock, request, inFlight, comments, posts,
                 tickAt, seen, restarts>>

(* The bus reads the comments and the reply files: a replacement is entered,    *)
(* its reply is there, gone again or cannot be read, one that asks for none is  *)
(* acknowledged, and a confirmation ends a wait for a human.  None of this asks *)
(* whether the recovery has been given up.                                      *)
BusReads(c) ==
  \/ entry[c] = "ABSENT" /\ comments[c] > 0 /\ Becomes(c, {"QUEUED", "NOT_REQUIRED"})
  \/ /\ entry[c] \in {"NOT_REQUIRED", "FILE_ERROR"}
     /\ Becomes(c, {"NOT_REQUIRED", "FILE_ERROR", "ACKNOWLEDGED"})
  \/ /\ entry[c] \in {"QUEUED", "RESPONSE_RECEIVED", "APPLYING", "FAILED"}
     /\ Becomes(c, {"QUEUED", "RESPONSE_RECEIVED", "FAILED"})
  \/ entry[c] = "HUMAN_REQUIRED" /\ Becomes(c, {"RESOLVED_BY_CONFIRMATION"})

(* _current_report lets a reply through to Codex unless the recovery blocks it. *)
(* An entry left APPLYING, by a crash or an answer that could not be used, is   *)
(* read again first.                                                            *)
BusContinues(c) ==
  /\ entry[c] = "RESPONSE_RECEIVED" /\ ~Blocks(c)
  /\ Becomes(c, {"APPLYING", "FAILED", "APPLIED", "HUMAN_REQUIRED"})

(* A restart: the record and the registry are on disk.                          *)
Restart ==
  /\ tickAt # "idle" /\ restarts < MaxCrash
  /\ restarts' = restarts + 1
  /\ tickAt' = "idle" /\ seen' = Unread
  /\ UNCHANGED <<phase, child, attempts, clock, world>>

TickSteps == Tick \/ CreateRequest \/ Post

Next ==
  \/ Reject \/ Poll \/ TickSteps
  \/ ArrivesLate \/ ReplacedByHand \/ ClockAdvances
  \/ \E c \in Children : BusReads(c) \/ BusContinues(c)
  \/ Restart

(* The bus polls for as long as it runs, and time passes.                       *)
Fairness == WF_recoveryVars(Poll) /\ WF_recoveryVars(TickSteps)
            /\ WF_recoveryVars(ClockAdvances)

Spec == Init /\ [][Next]_recoveryVars /\ Fairness
-----------------------------------------------------------------------------
TypeOK ==
  /\ phase \in Phases /\ repairable \in BOOLEAN /\ child \in Children \cup {"none"}
  /\ attempts \in 0..2 /\ clock \in 0..Deadline
  /\ request \in {"absent", "ours", "other"} /\ inFlight \in BOOLEAN
  /\ comments \in [own : 0..2, foreign : 0..MaxForeign] /\ posts \in 0..2
  /\ entry \in [Children -> Entries]
  /\ tickAt \in {"idle", "tick", "create", "post"}
  /\ seen = Unread \/ seen \in [own : 0..2, foreign : 0..MaxForeign]
  /\ restarts \in 0..MaxCrash

(* The trigger is posted once, over restarts, lost answers and two attempts.    *)
PostedAtMostOnce == posts <= 1

(* Codex does not apply a replacement once its recovery has been given up, also *)
(* when its comment, or the answer to it, comes later, or when it was answered  *)
(* before a restart.  It may still be acknowledged, or a wait of it confirmed:  *)
(* the bus does neither through Codex.                                          *)
EscalatedIsNotApplied == phase = "ESCALATED" /\ child # "none" => entry[child] # "APPLIED"

(* Every rejected report is resolved or escalated, with or without GitHub.      *)
RecoveryEnds == phase = "DETECTED" ~> phase \in Final
=============================================================================
