--------------------------- MODULE DayStages_proofs ---------------------------
(* What DayController guarantees when the operator's requests wait for the      *)
(* previous worker to return: the state machine never refuses a transition, no  *)
(* action runs while the Day is blocked, there is one unfinished repair, the    *)
(* run record shows the settled state, and a completion rests on evidence.      *)
EXTENDS DayController_proofs

(* The Day states a worker can see at each of its places: every place has the   *)
(* state its own last transition entered, because nobody else moves the Day     *)
(* while a worker is running.                                                   *)
Stage(p) ==
  CASE p \in {"preflight", "sources", "load"}                     -> {"PREFLIGHT"}
    [] p = "inventory"                                            -> {"LOADING_CONTRACT"}
    [] p = "validating"                                           -> {"INVENTORY"}
    [] p = "loop"                                                 -> {"VALIDATING"}
    [] p \in {"diagnose", "begin", "resumeRepair"}                -> {"DIAGNOSING_GAP"}
    [] p \in {"run", "result"}                                    -> Worked
    [] p \in {"repair", "verdict", "accept", "block", "direct"}   -> {"REPAIR_SUPERVISOR"}
    [] p = "reval"                                                -> {"REVALIDATING"}
    [] p = "fail"    -> {"PREFLIGHT", "DIAGNOSING_GAP", "REPAIR_SUPERVISOR"} \cup Worked
    [] p \in {"recheck", "reroute"}       -> AUTHORITY \cup Worked \cup {"REPAIR_SUPERVISOR"}
    [] p = "except"           -> {"PREFLIGHT", "DIAGNOSING_GAP", "REPAIR_SUPERVISOR"}
    [] p = "stopTail"                                             -> {"STOPPED"}
    [] p \in {"settle", "notify"}                                 -> AUTHORITY \cup RESTING
    [] OTHER                                                      -> DayState

(* Places a worker reaches only with the blocker cleared.                       *)
Unblocked == {"sources", "load", "inventory", "validating", "loop", "diagnose",
              "resumeRepair", "begin", "run", "result", "repair", "verdict",
              "accept", "block", "direct", "reval"}

(* Where a worker is, the state, the blocker and its goal agree.                *)
Staged(w) ==
  /\ snap.state \in Stage(pc[w])
  /\ pc[w] \in Unblocked => snap.blocker = None
  /\ pc[w] \in {"recheck", "reroute"} /\ snap.state \in ACTIVE => snap.blocker = None
  /\ pc[w] = "fail" => goal[w] \in AUTHORITY /\ snap.blocker # None

(* The part of the snapshot that restarts depend on is never ahead of the disk: *)
(* only a completion a restart refuses to believe is PAUSED in memory first.    *)
Durable ==
  /\ disk.items = snap.items /\ disk.lastEpisode = snap.lastEpisode
  /\ disk.state = snap.state \/ (disk.state = "COMPLETE" /\ snap.state = "PAUSED")
  /\ lockHolder # None => snap.state = "EXTERNAL_ACTION_REQUIRED"

Unfinished(g) == episodes[g].open /\ episodes[g].final = None

(* What a worker knows about the unfinished repair at each of its places.       *)
Repairing(w) ==
  /\ pc[w] \in {"diagnose", "resumeRepair", "begin", "run", "result", "repair",
                "verdict", "accept", "block"} => opEpisode = None
  /\ pc[w] = "resumeRepair" => job[w] = snap.lastEpisode /\ Unfinished(job[w])
  /\ pc[w] \in {"begin", "run", "result"} => \A g \in Gaps : ~Unfinished(g)
  /\ pc[w] = "repair" /\ Resumed(w) => Unfinished(job[w])
  /\ pc[w] = "repair" /\ ~Resumed(w) => \A g \in Gaps : ~Unfinished(g)
  /\ pc[w] = "verdict" => Unfinished(job[w])
  /\ pc[w] = "accept" => /\ episodes[job[w]].final = "VERIFIED"
                         /\ snap.lastEpisode = job[w]

Carried(g) ==
  \/ episodes[g].interrupted
  \/ \E w \in Worker : pc[w] \in {"repair", "verdict"} /\ job[w] = g
  \/ snap.state = "FAILED_UNRECOVERABLE"

(* An unfinished repair is the one the snapshot names, and somebody carries it: *)
(* a restart or the operator marked it interrupted, a worker is at it, or the   *)
(* Day has failed for good.                                                     *)
Pending ==
  /\ \A g \in Gaps : Unfinished(g) => /\ snap.lastEpisode = g /\ Failed(snap, g)
                                      /\ Carried(g)
  /\ \A g \in Gaps : /\ episodes[g].final = "REVIEW" => Failed(snap, g)
                     /\ episodes[g].final # None => episodes[g].open
  /\ opEpisode # None => /\ snap.lastEpisode = opEpisode
                         /\ episodes[opEpisode].interrupted /\ Unfinished(opEpisode)

(* A strategy that has left an episode behind, or whose episode is not for its  *)
(* first item, has been repaired twice.                                         *)
Twice ==
  \A g \in Gaps : episodes[g].left \/ ~episodes[g].matches => Len(snap.items[g]) >= 2

Controlled == Durable /\ \A w \in Worker : Staged(w)
Repairs == Pending /\ Twice /\ \A w \in Worker : Repairing(w)
-----------------------------------------------------------------------------
(* The transitions the controller makes, read off the table.                    *)
LEMMA Legal ==
  /\ ValidTransition("PREFLIGHT", "LOADING_CONTRACT")
  /\ ValidTransition("LOADING_CONTRACT", "INVENTORY")
  /\ ValidTransition("INVENTORY", "VALIDATING")
  /\ ValidTransition("VALIDATING", "STOPPED")
  /\ ValidTransition("VALIDATING", "COMPLETE")
  /\ ValidTransition("VALIDATING", "DIAGNOSING_GAP")
  /\ ValidTransition("DIAGNOSING_GAP", "REPAIR_SUPERVISOR")
  /\ \A to \in {"COLLECTING_EVIDENCE", "EXECUTING_DAY_WORK"} :
       ValidTransition("DIAGNOSING_GAP", to)
  /\ \A from \in Worked : ValidTransition(from, "REPAIR_SUPERVISOR")
  /\ \A from \in Worked \cup {"REPAIR_SUPERVISOR"} : ValidTransition(from, "REVALIDATING")
  /\ ValidTransition("REVALIDATING", "VALIDATING")
  /\ \A from \in {"PREFLIGHT", "DIAGNOSING_GAP", "REPAIR_SUPERVISOR"} \cup Worked,
        to \in AUTHORITY : ValidTransition(from, to)
  /\ \A from \in {"PREFLIGHT", "DIAGNOSING_GAP", "REPAIR_SUPERVISOR"} :
       ValidTransition(from, "FAILED_UNRECOVERABLE")
BY DEF ValidTransition, TRANSITIONS, Targets, DayState, ACTIVE, AUTHORITY, RESTING, Worked

LEMMA StageTable ==
  /\ Stage("idle") = DayState
  /\ Stage("preflight") = {"PREFLIGHT"} /\ Stage("sources") = {"PREFLIGHT"}
  /\ Stage("load") = {"PREFLIGHT"}
  /\ Stage("inventory") = {"LOADING_CONTRACT"} /\ Stage("validating") = {"INVENTORY"}
  /\ Stage("loop") = {"VALIDATING"}
  /\ Stage("diagnose") = {"DIAGNOSING_GAP"} /\ Stage("begin") = {"DIAGNOSING_GAP"}
  /\ Stage("resumeRepair") = {"DIAGNOSING_GAP"}
  /\ Stage("run") = Worked /\ Stage("result") = Worked
  /\ Stage("repair") = {"REPAIR_SUPERVISOR"} /\ Stage("verdict") = {"REPAIR_SUPERVISOR"}
  /\ Stage("accept") = {"REPAIR_SUPERVISOR"} /\ Stage("block") = {"REPAIR_SUPERVISOR"}
  /\ Stage("direct") = {"REPAIR_SUPERVISOR"} /\ Stage("reval") = {"REVALIDATING"}
  /\ Stage("fail") = {"PREFLIGHT", "DIAGNOSING_GAP", "REPAIR_SUPERVISOR"} \cup Worked
  /\ Stage("recheck") = AUTHORITY \cup Worked \cup {"REPAIR_SUPERVISOR"}
  /\ Stage("reroute") = AUTHORITY \cup Worked \cup {"REPAIR_SUPERVISOR"}
  /\ Stage("except") = {"PREFLIGHT", "DIAGNOSING_GAP", "REPAIR_SUPERVISOR"}
  /\ Stage("stopTail") = {"STOPPED"}
  /\ Stage("settle") = AUTHORITY \cup RESTING /\ Stage("notify") = AUTHORITY \cup RESTING
BY DEF Stage

(* A legal transition: one save, and nothing but the state changes.             *)
LEMMA MoveEffect ==
  ASSUME TypeOK, NEW w \in Worker, NEW s \in Snapshot, NEW to \in DayState,
         NEW p \in PCs, Move(w, s, to, p), ValidTransition(s.state, to)
  PROVE  /\ snap'.state = to /\ disk' = snap' /\ pc'[w] = p
         /\ snap'.blocker = s.blocker /\ snap'.items = s.items
         /\ snap'.lastEpisode = s.lastEpisode /\ snap'.gaps = s.gaps
         /\ snap'.evidence = s.evidence
BY DEF TypeOK, Move, Goto, Snapshot

LEMMA BlockEffect ==
  ASSUME TypeOK, NEW w \in Worker, NEW s \in Snapshot, NEW b \in Blockers \ {None},
         NEW r, Block(w, s, b, r)
  PROVE  /\ snap'.state = s.state /\ disk' = disk /\ pc'[w] = "fail"
         /\ snap'.blocker # None /\ snap'.items = s.items
         /\ snap'.lastEpisode = s.lastEpisode /\ snap'.evidence = s.evidence
         /\ goal'[w] \in AUTHORITY
BY DEF TypeOK, Block, Goto, Snapshot, TerminalState, AUTHORITY

LEMMA EvidenceFrame ==
  ASSUME TypeOK, NEW s \in Snapshot, NEW G \in SUBSET Gaps
  PROVE  /\ Ingested(s, G).items = s.items /\ Ingested(s, G).blocker = s.blocker
         /\ Ingested(s, G).lastEpisode = s.lastEpisode
         /\ Evaluated(s, G).items = s.items /\ Evaluated(s, G).blocker = s.blocker
         /\ Evaluated(s, G).lastEpisode = s.lastEpisode
         /\ Invalidated(s).items = s.items /\ Invalidated(s).blocker = s.blocker
         /\ Invalidated(s).lastEpisode = s.lastEpisode
         /\ Invalidated(s).state = s.state
         /\ s.evidence \subseteq Ingested(s, G).evidence
         /\ s.evidence \subseteq Evaluated(s, G).evidence
BY DEF Ingested, Evaluated, Invalidated, Snapshot

(* While a worker acts every other thread is idle and no request holds the lock. *)
LEMMA Alone ==
  ASSUME TypeOK, JobOK, Serial, NEW w \in Worker, WorkerStep(w)
  PROVE  /\ pc[w] # "idle" /\ lockHolder = None /\ lockHolder' = None
         /\ \A v \in Worker \ {w} : pc[v] = "idle" /\ pc'[v] = "idle"
<1>1. pc[w] # "idle"
  BY DEF WorkerStep, DiagnoseAction, PreflightContract, PreflightBlocked, PreflightResolved, PreflightSources,
    LoadDay, LoopStopped, LoopComplete, LoopOperatorResume, LoopDiagnose,
    DiagnoseInterrupted, DiagnoseAuthority, DiagnoseNothing, RouteObservedGap,
    ResumeRepair, BeginAction, RunAction, RecordResult, OpenRepair,
    RepairVerdict, AcceptRepair, CatalogRefuses, BlockRepair, Fail, Recheck, Repaired,
    Revalidate, StopTail, HandleException, Settle, Notify
<1>2. lockHolder = None
  BY <1>1 DEF Serial, Returned
<1>3. lockHolder' = None
  BY <1>2, WorkerFrame
<1>4. \A v \in Worker \ {w} : pc[v] = "idle" /\ pc'[v] = "idle"
  BY <1>1, WorkerFrame DEF Serial
<1> QED BY <1>1, <1>2, <1>3, <1>4

SameRepair == snap'.items = snap.items /\ snap'.lastEpisode = snap.lastEpisode

(* Which action a change of a worker comes from.                                *)
Explained(w) ==
  /\ OpenRepair(w) \/ AcceptRepair(w) \/ SameRepair
  /\ pc'[w] = "except" => PreflightContract(w) \/ DiagnoseNothing(w) \/ CatalogRefuses(w)
  /\ pc'[w] = "idle" => Settle(w) \/ Notify(w)
  /\ snap'.state = "FAILED_UNRECOVERABLE" =>
       snap.state = "FAILED_UNRECOVERABLE" \/ HandleException(w)
  /\ snap'.state = "COMPLETE" => snap.state = "COMPLETE" \/ LoopComplete(w)
  /\ snap'.state \in AUTHORITY =>
       snap'.blocker # None \/ (snap.state \in AUTHORITY /\ snap'.blocker = snap.blocker)

(* One step of a worker keeps the table: it saves what it enters, enters only   *)
(* what the state machine allows, and raises nothing but a contract error.      *)
LEMMA ControlledWorker ==
  ASSUME TypeOK, JobOK, Serial, Controlled, Repairs, NEW w \in Worker, WorkerStep(w)
  PROVE  Controlled' /\ Explained(w)
<1> USE StageTable DEF Staged, Durable, SameRepair, Explained, AUTHORITY, OutsideUnchanged, local
<1>a. /\ snap \in Snapshot /\ disk \in Snapshot /\ pc \in [Worker -> PCs]
      /\ found[w] \in SUBSET Gaps /\ retained \in SUBSET Gaps
      /\ result[w].evidence \in SUBSET Gaps
      /\ goal[w] \in DayState /\ back[w] \in {"settle", "recheck", "reroute"}
      /\ snap.state \in DayState
  <2>1. /\ snap \in Snapshot /\ disk \in Snapshot /\ pc \in [Worker -> PCs]
        /\ found[w] \in SUBSET Gaps /\ retained \in SUBSET Gaps
        /\ result[w].evidence \in SUBSET Gaps
        /\ goal[w] \in DayState /\ back[w] \in {"settle", "recheck", "reroute"}
    BY Names DEF TypeOK, Results
  <2>2. snap.state \in DayState
    BY <2>1 DEF Snapshot
  <2> QED BY <2>1, <2>2
<1>b. Durable /\ Staged(w) /\ lockHolder = None /\ lockHolder' = None
  BY Alone DEF Controlled
<1>c. SUFFICES Staged(w)' /\ Durable' /\ Explained(w)
  <2>1. snap'.state \in DayState
    BY WorkerType DEF TypeOK, Snapshot
  <2>2. \A v \in Worker \ {w} : pc'[v] = "idle"
    BY Alone
  <2>3. \A v \in Worker \ {w} : Staged(v)'
    BY <2>1, <2>2 DEF Unblocked
  <2> QED BY <2>3 DEF Controlled
<1>1. CASE PreflightContract(w)
  BY <1>1, <1>a, <1>b, EvidenceFrame DEF PreflightContract, Goto, Unblocked
<1>2. CASE PreflightBlocked(w)
  BY <1>2, <1>a, <1>b DEF PreflightBlocked, Goto, Unblocked, TerminalState, AUTHORITY, TypeOK
<1>3. CASE PreflightResolved(w)
  <2>1. /\ snap'.state = snap.state /\ snap'.blocker = None
        /\ snap'.items = snap.items /\ snap'.lastEpisode = snap.lastEpisode
        /\ disk' = snap' \/ (snap' = snap /\ disk' = disk)
    BY <1>3, <1>a DEF PreflightResolved, Snapshot
  <2>2. pc[w] = "preflight" /\ pc'[w] = "sources"
    BY <1>3, <1>a DEF PreflightResolved, Goto
  <2> QED BY <2>1, <2>2, <1>b DEF Unblocked
<1>4. CASE PreflightSources(w)
  <2>1. CASE sources
    BY <1>4, <1>a, <1>b, <2>1 DEF PreflightSources, Goto, Unblocked
  <2>2. CASE ~sources
    BY <1>4, <1>a, <1>b, <2>2, BlockEffect, Names DEF PreflightSources, Unblocked, Blockers, None
  <2> QED BY <2>1, <2>2
<1>5. CASE LoadDay(w)
  BY <1>5, <1>a, <1>b, Legal, MoveEffect, EvidenceType, EvidenceFrame, Names DEF LoadDay, Unblocked
<1>6. CASE LoopStopped(w)
  BY <1>6, <1>a, <1>b, Legal, MoveEffect, Names DEF LoopStopped, Unblocked
<1>7. CASE LoopComplete(w)
  BY <1>7, <1>a, <1>b, Legal, MoveEffect, EvidenceType, EvidenceFrame, Names DEF LoopComplete, Unblocked, RESTING
<1>8. CASE LoopOperatorResume(w)
  <2>1. episodes[opEpisode].interrupted /\ episodes[opEpisode].final = None
    BY <1>8 DEF LoopOperatorResume, Repairs, Pending, Unfinished
  <2>2. Move(w, Evaluated(snap, found[w]), "DIAGNOSING_GAP", "resumeRepair") /\ pc[w] = "loop"
    BY <1>8, <2>1 DEF LoopOperatorResume
  <2> QED BY <2>2, <1>a, <1>b, Legal, MoveEffect, EvidenceType, EvidenceFrame, Names DEF Unblocked
<1>9. CASE LoopDiagnose(w)
  BY <1>9, <1>a, <1>b, Legal, MoveEffect, EvidenceType, EvidenceFrame, Names DEF LoopDiagnose, Unblocked
<1>10. CASE DiagnoseInterrupted(w)
  BY <1>10, <1>a, <1>b DEF DiagnoseInterrupted, Goto, Unblocked
<1>11. CASE DiagnoseAction(w)
  BY <1>11, <1>a, <1>b DEF DiagnoseAction, Goto, Unblocked
<1>12. CASE DiagnoseAuthority(w)
  BY <1>12, <1>a, <1>b, BlockEffect, Names DEF DiagnoseAuthority, Unblocked, Blockers, None
<1>13. CASE DiagnoseNothing(w)
  BY <1>13, <1>a, <1>b DEF DiagnoseNothing, Goto, Unblocked
<1>14. CASE RouteObservedGap(w)
  <2>1. CASE Block(w, snap, "HUMAN", "reroute")
    BY <1>14, <2>1, <1>a, <1>b, BlockEffect, Names DEF RouteObservedGap, Unblocked, Blockers, None
  <2>2. CASE Move(w, snap, "REPAIR_SUPERVISOR", "repair")
    BY <1>14, <2>2, <1>a, <1>b, Legal, MoveEffect, Names DEF RouteObservedGap, Unblocked
  <2> QED BY <1>14, <2>1, <2>2 DEF RouteObservedGap
<1>15. CASE ResumeRepair(w)
  BY <1>15, <1>a, <1>b, Legal, MoveEffect, Names DEF ResumeRepair, Unblocked
<1>16. CASE BeginAction(w)
  <2> DEFINE to == IF Mode[Template[job[w]]] = "READ_ONLY"
                   THEN "COLLECTING_EVIDENCE" ELSE "EXECUTING_DAY_WORK"
             s == [snap EXCEPT !.attempts[key[w]] = "STARTED"]
  <2>1. to \in Worked /\ to \in DayState /\ ValidTransition(snap.state, to) /\ pc[w] = "begin"
    BY <1>16, <1>b, Legal, Names DEF BeginAction, Worked
  <2>2. Move(w, s, to, "run")
    BY <1>16, <2>1 DEF BeginAction
  <2>3. s \in Snapshot /\ s.state = snap.state /\ s.blocker = snap.blocker
        /\ s.items = snap.items /\ s.lastEpisode = snap.lastEpisode
    BY <1>a DEF Snapshot, Outcomes
  <2> HIDE DEF s, to
  <2>4. /\ snap'.state = to /\ disk' = snap' /\ pc'[w] = "run"
        /\ snap'.blocker = snap.blocker /\ SameRepair
    BY <2>1, <2>2, <2>3, <1>a, MoveEffect, Names
  <2> QED BY <2>1, <2>4, <1>b DEF Unblocked, Worked
<1>17. CASE RunAction(w)
  BY <1>17, <1>a, <1>b DEF RunAction, Goto, Unblocked
<1>18. CASE RecordResult(w)
  <2> DEFINE r == result[w]
             outcome == IF r.kind \in {"REPAIR", "NO_ORDER"} THEN "FAILED" ELSE r.kind
             s == [Ingested(snap, r.evidence) EXCEPT !.attempts[key[w]] = outcome]
  <2>1. outcome \in Outcomes
    BY DEF TypeOK, Results, Kinds, Outcomes
  <2>2. s \in Snapshot /\ s.state = snap.state /\ s.blocker = snap.blocker
        /\ s.items = snap.items /\ s.lastEpisode = snap.lastEpisode
    <3> DEFINE t == Ingested(snap, r.evidence)
    <3>1. t \in Snapshot /\ t.state = snap.state /\ t.blocker = snap.blocker
          /\ t.items = snap.items /\ t.lastEpisode = snap.lastEpisode
      BY <1>a, EvidenceType, EvidenceFrame
    <3> DEFINE a == [t.attempts EXCEPT ![key[w]] = outcome]
    <3>2. s = [t EXCEPT !.attempts = a]
      OBVIOUS
    <3> HIDE DEF t, outcome
    <3>3. a \in [Keys -> Outcomes]
      BY <2>1, <3>1 DEF Snapshot
    <3> HIDE DEF a, s
    <3> QED BY <3>1, <3>2, <3>3 DEF Snapshot
  <2> HIDE DEF outcome
  <2>3. CASE r.kind \in {"HUMAN", "EXTERNAL"}
    <3>1. Block(w, s, r.kind, "recheck") /\ pc[w] = "result"
      BY <1>18, <2>3 DEF RecordResult, outcome
    <3> HIDE DEF s
    <3> QED BY <3>1, <2>2, <2>3, <1>a, <1>b, BlockEffect DEF Unblocked, Blockers, None
  <2>4. CASE r.kind \in {"REPAIR", "NO_ORDER"}
    <3>1. Move(w, s, "REPAIR_SUPERVISOR",
               IF r.kind = "REPAIR" THEN "repair" ELSE "recheck") /\ pc[w] = "result"
      BY <1>18, <2>4 DEF RecordResult, outcome
    <3> HIDE DEF s
    <3> QED BY <3>1, <2>2, <2>4, <1>a, <1>b, Legal, MoveEffect, Names DEF Unblocked
  <2>5. CASE r.kind \notin {"HUMAN", "EXTERNAL", "REPAIR", "NO_ORDER"}
    <3>1. snap' = s /\ Goto(w, "recheck") /\ UNCHANGED disk /\ pc[w] = "result"
      BY <1>18, <2>5 DEF RecordResult, outcome
    <3> HIDE DEF s
    <3> QED BY <3>1, <2>2, <1>a, <1>b DEF Goto, Unblocked
  <2> QED BY <2>3, <2>4, <2>5
<1>19. CASE OpenRepair(w)
  <2>1. job[w] \in Gaps
    BY <1>19 DEF OpenRepair, JobOK
  <2> QED BY <1>19, <2>1, <1>a, <1>b, RepairWrites DEF OpenRepair, Goto, Unblocked
<1>20. CASE RepairVerdict(w)
  BY <1>20, <1>a, <1>b DEF RepairVerdict, Goto, Unblocked
<1>21. CASE AcceptRepair(w)
  <2> DEFINE accepted == ItemDone(w)
  <2>0. job[w] \in Gaps
    BY <1>21 DEF AcceptRepair, JobOK
  <2>1. accepted \in Snapshot /\ accepted.state = snap.state
        /\ accepted.blocker = snap.blocker /\ accepted.lastEpisode = snap.lastEpisode
    BY <2>0, RepairWrites
  <2>2. /\ disk' = accepted /\ snap' = Ingested(accepted, result[w].evidence)
        /\ Goto(w, IF back[w] = "settle" THEN "direct" ELSE back[w])
        /\ pc[w] = "accept"
    BY <1>21 DEF AcceptRepair, Resumed
  <2> HIDE DEF accepted
  <2> QED BY <1>21, <2>1, <2>2, <1>a, <1>b, EvidenceType, EvidenceFrame DEF Goto, Unblocked
<1>22. CASE BlockRepair(w)
  BY <1>22, <1>a, <1>b, BlockEffect, Names DEF BlockRepair, Unblocked, Blockers, None
<1>23. CASE Fail(w)
  <2> HIDE DEF AUTHORITY
  <2>1. snap.state # goal[w] /\ goal[w] \in AUTHORITY /\ pc[w] = "fail"
    BY <1>23, <1>b DEF Fail, AUTHORITY, Worked
  <2>2. Move(w, snap, goal[w], back[w])
    BY <1>23, <2>1 DEF Fail
  <2>3. ValidTransition(snap.state, goal[w])
    BY <2>1, <1>b, Legal
  <2>4. /\ snap'.state = goal[w] /\ disk' = snap' /\ pc'[w] = back[w]
        /\ snap'.blocker = snap.blocker /\ SameRepair
    BY <2>2, <2>3, <1>a, Names, MoveEffect
  <2>5. snap'.state \notin ACTIVE
    BY <2>1, <2>4 DEF AUTHORITY, ACTIVE
  <2>6. snap'.state \in AUTHORITY /\ pc'[w] \in {"settle", "recheck", "reroute"}
    BY <2>1, <2>4, <1>a
  <2>7. snap'.state \in Stage(pc'[w])
    BY <2>6
  <2>8. Durable'
    BY <2>4, <1>b
  <2>9. Staged(w)'
    BY <2>5, <2>6, <2>7 DEF Unblocked
  <2>10. Explained(w)
    BY <2>1, <2>4, <2>6, <1>b DEF AUTHORITY
  <2> QED BY <2>8, <2>9, <2>10
<1>24. CASE Recheck(w)
  <2>1. CASE snap.state \in ACTIVE
    <3>1. snap.state \in Worked \cup {"REPAIR_SUPERVISOR"} /\ pc[w] \in {"recheck", "reroute"}
      BY <1>24, <2>1, <1>b DEF Recheck, ACTIVE, AUTHORITY
    <3>2. Move(w, snap, "REVALIDATING", "reval")
      BY <1>24, <2>1 DEF Recheck
    <3>3. /\ snap'.state = "REVALIDATING" /\ disk' = snap' /\ pc'[w] = "reval"
          /\ snap'.blocker = snap.blocker /\ SameRepair
      BY <3>1, <3>2, <1>a, Legal, MoveEffect, Names
    <3> QED BY <3>1, <3>3, <2>1, <1>a, <1>b DEF Unblocked
  <2>2. CASE snap.state \notin ACTIVE
    BY <1>24, <2>2, <1>a, <1>b DEF Recheck, Goto, Unblocked, DayState
  <2> QED BY <2>1, <2>2
<1>25. CASE Repaired(w)
  BY <1>25, <1>a, <1>b, Legal, MoveEffect, Names DEF Repaired, Unblocked
<1>26. CASE Revalidate(w)
  BY <1>26, <1>a, <1>b, Legal, MoveEffect, EvidenceType, EvidenceFrame, Names DEF Revalidate, Unblocked
<1>27. CASE StopTail(w)
  BY <1>27, <1>a, <1>b DEF StopTail, Goto, Unblocked, Snapshot, RESTING
<1>28. CASE HandleException(w)
  <2>1. Move(w, snap, "FAILED_UNRECOVERABLE", "settle") /\ pc[w] = "except"
    BY <1>28, <1>b, Legal DEF HandleException
  <2>2. /\ snap'.state = "FAILED_UNRECOVERABLE" /\ disk' = snap' /\ pc'[w] = "settle"
        /\ SameRepair
    BY <2>1, <1>a, <1>b, Legal, MoveEffect, Names
  <2> QED BY <1>28, <2>2, <1>b DEF Unblocked, RESTING
<1>29. CASE Settle(w)
  BY <1>29, <1>a, <1>b DEF Settle, Goto, Unblocked
<1>30. CASE Notify(w)
  BY <1>30, <1>a, <1>b DEF Notify, Goto, Unblocked, mem
<1>31. CASE CatalogRefuses(w)
  BY <1>31, <1>a, <1>b DEF CatalogRefuses, Goto, Unblocked
<1> QED BY <1>1, <1>2, <1>3, <1>4, <1>5, <1>6, <1>7, <1>8, <1>9, <1>10, <1>11, <1>12, <1>13, <1>14, <1>15, <1>16, <1>17, <1>18, <1>19, <1>20, <1>21, <1>22, <1>23, <1>24, <1>25, <1>26, <1>27, <1>28, <1>29, <1>30, <1>31 DEF WorkerStep

(* The steps other than those of a repair leave its episode, its item and the   *)
(* operator's retry alone.                                                      *)
LEMMA RepairFrame ==
  ASSUME TypeOK, JobOK, Serial, Controlled, Repairs, NEW w \in Worker, WorkerStep(w),
         ~LoopOperatorResume(w), ~ResumeRepair(w), ~OpenRepair(w), ~RepairVerdict(w),
         ~AcceptRepair(w)
  PROVE  /\ episodes' = episodes /\ opEpisode' = opEpisode /\ SameRepair
         /\ pc[w] \notin {"repair", "verdict"}
         /\ snap.state = "FAILED_UNRECOVERABLE" => snap'.state = "FAILED_UNRECOVERABLE"
<1> USE DEF OutsideUnchanged, local, mem
<1>1. /\ episodes' = episodes /\ opEpisode' = opEpisode
      /\ pc[w] \notin {"repair", "verdict"}
      /\ pc[w] \in {"settle", "notify"} => snap' = snap
  BY DEF WorkerStep, PreflightContract, PreflightBlocked, PreflightResolved,
    PreflightSources, LoadDay, LoopStopped, LoopComplete, LoopDiagnose,
    DiagnoseInterrupted, DiagnoseAction, DiagnoseAuthority, DiagnoseNothing,
    RouteObservedGap, BeginAction, RunAction, RecordResult, CatalogRefuses, BlockRepair, Fail, Recheck,
    Repaired, Revalidate, StopTail, HandleException, Settle, Notify
<1>2. snap.state = "FAILED_UNRECOVERABLE" => pc[w] \in {"settle", "notify"}
  <2>1. pc[w] \in PCs \ {"idle"} /\ snap.state \in Stage(pc[w])
    BY Alone DEF Controlled, Staged, TypeOK
  <2> QED BY <2>1, StageTable DEF PCs, Worked, AUTHORITY
<1> QED BY <1>1, <1>2, ControlledWorker DEF Explained

(* At a diagnosis that sees no interrupted repair there is no unfinished one.   *)
LEMMA NothingPending ==
  ASSUME TypeOK, Serial, Controlled, Repairs, NEW w \in Worker, pc[w] = "diagnose",
         ~Interrupted(snap)
  PROVE  \A g \in Gaps : ~Unfinished(g)
<1> SUFFICES ASSUME NEW g \in Gaps, Unfinished(g) PROVE FALSE
  OBVIOUS
<1>1. snap.lastEpisode = g /\ Carried(g)
  BY DEF Repairs, Pending
<1>2. g # None
  BY ConstantsAssumption
<1>3. ~episodes[g].interrupted
  BY <1>1, <1>2 DEF Interrupted, OpenEpisode, Unfinished
<1>4. \A v \in Worker : pc[v] \notin {"repair", "verdict"}
  BY DEF Serial
<1>5. snap.state = "DIAGNOSING_GAP"
  BY StageTable DEF Controlled, Staged
<1> QED BY <1>1, <1>3, <1>4, <1>5 DEF Carried

(* What a new episode says of itself.                                           *)
LEMMA NewFields ==
  ASSUME NEW m \in BOOLEAN, NEW l \in BOOLEAN
  PROVE  /\ NewEpisode(m, l).open = TRUE /\ NewEpisode(m, l).final = None
         /\ NewEpisode(m, l).matches = m /\ NewEpisode(m, l).left = l
         /\ NewEpisode(m, l).interrupted = FALSE
BY DEF NewEpisode, NoEpisode

(* The repair a worker opens or goes on with is unfinished, with a failed item, *)
(* and one left behind or opened for another failure has two.                   *)
LEMMA RepairOpened ==
  ASSUME TypeOK, Pending, Twice, NEW w \in Worker, job[w] \in Gaps,
         Resumed(w) => Unfinished(job[w]),
         ~Resumed(w) => \A g \in Gaps : ~Unfinished(g),
         NEW m \in BOOLEAN, Resumed(w) => m = episodes[job[w]].matches
  PROVE  /\ Supervised(w, m)[job[w]].open /\ Supervised(w, m)[job[w]].final = None
         /\ Failed(WithItem(w), job[w])
         /\ Supervised(w, m)[job[w]].left \/ ~Supervised(w, m)[job[w]].matches
              => Len(WithItem(w).items[job[w]]) >= 2
<1> DEFINE g == job[w]
           q == snap.items[g]
           e == episodes[g]
<1>1. /\ q \in Seq({"FAILED", "COMPLETE"}) /\ e.left \in BOOLEAN /\ e.matches \in BOOLEAN
      /\ episodes \in [Gaps -> Episode] /\ None \notin Gaps
  BY ConstantsAssumption DEF TypeOK, Snapshot, Episode
<1>2. e.left \/ ~e.matches => Len(q) >= 2
  BY DEF Twice
<1>3. CASE Resumed(w)
  <2>1. /\ Unfinished(g) /\ snap.lastEpisode = g /\ Failed(snap, g)
    BY <1>3 DEF Pending
  <2>2. WithItem(w).items[g] = q
    BY <1>3, RepairWrites
  <2>3. OpenEpisode(snap)
    BY <2>1, <1>1 DEF OpenEpisode, Unfinished
  <2>4. CASE m
    <3>1. Supervised(w, m) = episodes
      BY <2>1, <2>3, <2>4 DEF Supervised
    <3> QED BY <3>1, <2>1, <2>2, <1>2 DEF Unfinished, Failed
  <2>5. CASE ~m
    <3>1. Supervised(w, m)[g] =
            NewEpisode(Resumed(w) \/ q = <<>> \/ m, e.left \/ (e.open /\ e.final = None))
      BY <2>5, <1>1 DEF Supervised
    <3>2. Len(q) >= 2
      BY <2>5, <1>2, <1>3
    <3>3. NewEpisode(Resumed(w) \/ q = <<>> \/ m, e.left \/ (e.open /\ e.final = None)).open
          /\ NewEpisode(Resumed(w) \/ q = <<>> \/ m,
                        e.left \/ (e.open /\ e.final = None)).final = None
      BY NewFields
    <3> QED BY <3>1, <3>2, <3>3, <2>1, <2>2 DEF Failed
  <2> QED BY <2>4, <2>5
<1>4. CASE ~Resumed(w)
  <2>1. ~Unfinished(g)
    BY <1>4
  <2>2. WithItem(w).items[g] = Append(q, "FAILED")
    BY <1>4, RepairWrites
  <2>3. ~(OpenEpisode(snap) /\ snap.lastEpisode = g)
    BY <2>1 DEF OpenEpisode, Unfinished
  <2>4. Supervised(w, m)[g] =
          NewEpisode(Resumed(w) \/ q = <<>> \/ m, e.left \/ (e.open /\ e.final = None))
    BY <2>3, <1>1 DEF Supervised
  <2>5. e.left \/ (e.open /\ e.final = None) <=> e.left
    BY <2>1 DEF Unfinished
  <2>6. /\ Supervised(w, m)[g].open /\ Supervised(w, m)[g].final = None
        /\ Supervised(w, m)[g].left => e.left
        /\ ~Supervised(w, m)[g].matches => q # <<>>
    BY <2>4, <2>5, NewFields
  <2>7. /\ Len(Append(q, "FAILED")) = Len(q) + 1 /\ Len(q) \in Nat
        /\ q # <<>> => Len(q) # 0
        /\ Failed(WithItem(w), g)
    BY <1>1, <2>2, ItemsChanged DEF Failed
  <2> QED BY <2>2, <2>6, <2>7, <1>2
<1> QED BY <1>3, <1>4

(* One step of a worker keeps the one unfinished repair accounted for.          *)
LEMMA RepairsWorker ==
  ASSUME TypeOK, JobOK, Serial, Controlled, Repairs, NEW w \in Worker, WorkerStep(w)
  PROVE  Repairs'
<1> USE DEF Repairing, SameRepair, Unfinished, OutsideUnchanged, local
<1>a. /\ snap \in Snapshot /\ pc \in [Worker -> PCs]
      /\ episodes \in [Gaps -> Episode] /\ job \in [Worker -> Gaps \cup {None}]
      /\ found[w] \in SUBSET Gaps /\ None \notin Gaps
  BY ConstantsAssumption DEF TypeOK
<1>b. Pending /\ Twice /\ Repairing(w)
  BY DEF Repairs
<1>c. \A v \in Worker \ {w} : pc[v] = "idle" /\ pc'[v] = "idle"
  BY Alone
<1>d. SUFFICES Pending' /\ Twice' /\ Repairing(w)'
  BY <1>c DEF Repairs
<1>e. \A g \in Gaps : Carried(g) =>
        \/ episodes[g].interrupted
        \/ pc[w] \in {"repair", "verdict"} /\ job[w] = g
        \/ snap.state = "FAILED_UNRECOVERABLE"
  BY <1>c DEF Carried
<1>f. \A g \in Gaps :
        \/ episodes'[g].interrupted
        \/ pc'[w] \in {"repair", "verdict"} /\ job'[w] = g
        \/ snap'.state = "FAILED_UNRECOVERABLE"
        => Carried(g)'
  BY DEF Carried
<1>1. CASE LoopOperatorResume(w)
  <2>1. /\ opEpisode \in Gaps /\ opEpisode' = None /\ job'[w] = opEpisode
        /\ Move(w, Evaluated(snap, found[w]), "DIAGNOSING_GAP", "resumeRepair")
        /\ pc[w] = "loop" /\ episodes' = episodes
    BY <1>1, <1>a, <1>b DEF LoopOperatorResume, Pending, TypeOK
  <2>2. snap.state = "VALIDATING"
    BY <2>1, StageTable DEF Controlled, Staged
  <2>3. /\ snap'.state = "DIAGNOSING_GAP" /\ pc'[w] = "resumeRepair"
        /\ SameRepair
    BY <2>1, <2>2, <1>a, Legal, Names, MoveEffect, EvidenceType, EvidenceFrame
  <2>4. Pending' /\ Twice'
    BY <2>1, <2>2, <2>3, <1>b, <1>e, <1>f DEF Pending, Twice, Failed
  <2>5. snap.lastEpisode = opEpisode
    BY <2>1, <1>a, <1>b DEF Pending
  <2>6. episodes'[opEpisode].open /\ episodes'[opEpisode].final = None
    BY <2>1, <1>a, <1>b DEF Pending
  <2> QED BY <2>1, <2>3, <2>4, <2>5, <2>6
<1>2. CASE ResumeRepair(w)
  <2>1. /\ pc[w] = "resumeRepair" /\ snap.state = "DIAGNOSING_GAP"
        /\ job[w] = snap.lastEpisode /\ opEpisode = None /\ opEpisode' = None
        /\ job' = job /\ job[w] \in Gaps /\ Unfinished(job[w])
    BY <1>2, <1>b, StageTable DEF ResumeRepair, Controlled, Staged, JobOK
  <2>2. pc'[w] = "repair" /\ SameRepair
    BY <1>2, <2>1, <1>a, Legal, Names, MoveEffect DEF ResumeRepair
  <2>3. episodes' = [episodes EXCEPT ![job[w]].interrupted = FALSE]
    BY <1>2, <2>1, Legal DEF ResumeRepair
  <2>4. \A g \in Gaps : /\ episodes'[g].open = episodes[g].open
                        /\ episodes'[g].final = episodes[g].final
                        /\ episodes'[g].left = episodes[g].left
                        /\ episodes'[g].matches = episodes[g].matches
    BY <2>1, <2>3, <1>a DEF Episode
  <2>5. Pending' /\ Twice'
    BY <2>1, <2>2, <2>4, <1>b, <1>f DEF Pending, Twice, Failed
  <2>6. Resumed(w)'
    BY <1>2 DEF ResumeRepair, Resumed, TypeOK
  <2> QED BY <2>1, <2>2, <2>4, <2>5, <2>6
<1>3. CASE OpenRepair(w)
  <2>1. /\ pc[w] = "repair" /\ pc'[w] = "verdict" /\ job' = job /\ job[w] \in Gaps
        /\ opEpisode = None /\ opEpisode' = None /\ snap' = WithItem(w)
        /\ Resumed(w) => Unfinished(job[w])
        /\ ~Resumed(w) => \A g \in Gaps : ~Unfinished(g)
    BY <1>3, <1>a, <1>b DEF OpenRepair, Goto, JobOK
  <2>2. PICK m \in BOOLEAN : /\ Resumed(w) => m = episodes[job[w]].matches
                             /\ episodes' = Supervised(w, m)
    BY <1>3 DEF OpenRepair
  <2>3. /\ snap'.lastEpisode = job[w]
        /\ \A g \in Gaps \ {job[w]} : /\ snap'.items[g] = snap.items[g]
                                      /\ episodes'[g] = episodes[g]
    BY <2>1, <2>2, RepairWrites, SupervisedType
  <2>4. /\ episodes'[job[w]].open /\ episodes'[job[w]].final = None
        /\ Failed(snap', job[w])
        /\ episodes'[job[w]].left \/ ~episodes'[job[w]].matches
             => Len(snap'.items[job[w]]) >= 2
    <3>1. /\ Supervised(w, m)[job[w]].open /\ Supervised(w, m)[job[w]].final = None
          /\ Failed(WithItem(w), job[w])
          /\ Supervised(w, m)[job[w]].left \/ ~Supervised(w, m)[job[w]].matches
               => Len(WithItem(w).items[job[w]]) >= 2
      <4> HIDE DEF Unfinished
      <4> QED BY <2>1, <2>2, <1>b, RepairOpened
    <3> QED BY <3>1, <2>1, <2>2
  <2>5. \A g \in Gaps \ {job[w]} : ~Unfinished(g)
    BY <2>1, <1>b DEF Pending
  <2>6. Pending'
    BY <2>1, <2>3, <2>4, <2>5, <1>b, <1>f DEF Pending, Failed, None
  <2>7. Twice'
    BY <2>3, <2>4, <1>b DEF Twice
  <2> QED BY <2>1, <2>4, <2>6, <2>7
<1>4. CASE RepairVerdict(w)
  <2>1. PICK v \in Finals \ {None} :
          /\ episodes' = [episodes EXCEPT ![job[w]].final = v]
          /\ Goto(w, IF v = "VERIFIED" THEN "accept" ELSE "block")
    BY <1>4 DEF RepairVerdict
  <2>2. /\ pc[w] = "verdict" /\ job' = job /\ job[w] \in Gaps /\ snap' = snap
        /\ opEpisode = None /\ opEpisode' = None /\ Unfinished(job[w])
    BY <1>4, <1>b DEF RepairVerdict, JobOK
  <2>3. snap.lastEpisode = job[w] /\ Failed(snap, job[w]) /\ episodes[job[w]].open
    BY <2>2, <1>b DEF Pending
  <2>4. /\ pc'[w] \in {"accept", "block"}
        /\ pc'[w] = "accept" => v = "VERIFIED"
    BY <2>1, <1>a DEF Goto
  <2>5. /\ episodes'[job[w]].final = v /\ ~Unfinished(job[w])'
        /\ episodes'[job[w]].open = episodes[job[w]].open
        /\ episodes'[job[w]].left = episodes[job[w]].left
        /\ episodes'[job[w]].matches = episodes[job[w]].matches
        /\ \A g \in Gaps \ {job[w]} : episodes'[g] = episodes[g]
    BY <2>1, <2>2, <1>a DEF Episode
  <2>6. Pending'
    BY <2>2, <2>3, <2>5, <1>b, <1>e, <1>f DEF Pending
  <2>7. Twice'
    BY <2>2, <2>5, <1>b DEF Twice
  <2> QED BY <2>2, <2>3, <2>4, <2>5, <2>6, <2>7
<1>5. CASE AcceptRepair(w)
  <2>1. /\ pc[w] = "accept" /\ job' = job /\ job[w] \in Gaps /\ episodes' = episodes
        /\ opEpisode = None /\ opEpisode' = None
        /\ episodes[job[w]].final = "VERIFIED"
        /\ snap' = Ingested(ItemDone(w), result[w].evidence)
    BY <1>5, <1>b DEF AcceptRepair, JobOK
  <2>2. pc'[w] \in {"direct", "recheck", "reroute"}
    BY <1>5, <1>a DEF AcceptRepair, Resumed, Goto, TypeOK
  <2>3. /\ ItemDone(w) \in Snapshot /\ result[w].evidence \in SUBSET Gaps
        /\ ItemDone(w).lastEpisode = snap.lastEpisode /\ ItemDone(w).state = snap.state
        /\ \A g \in Gaps \ {job[w]} : ItemDone(w).items[g] = snap.items[g]
        /\ Len(ItemDone(w).items[job[w]]) = Len(snap.items[job[w]])
    BY <2>1, RepairWrites DEF TypeOK, Results
  <2>4. /\ snap'.lastEpisode = snap.lastEpisode /\ snap'.state = snap.state
        /\ \A g \in Gaps \ {job[w]} : snap'.items[g] = snap.items[g]
        /\ Len(snap'.items[job[w]]) = Len(snap.items[job[w]])
    BY <2>1, <2>3, EvidenceType, EvidenceFrame
  <2>5. Pending'
    BY <2>1, <2>4, <1>b, <1>e, <1>f DEF Pending, Failed, None
  <2>6. Twice'
    BY <2>1, <2>4, <1>b DEF Twice
  <2> QED BY <2>1, <2>2, <2>5, <2>6
<1>6. CASE ~LoopOperatorResume(w) /\ ~ResumeRepair(w) /\ ~OpenRepair(w)
           /\ ~RepairVerdict(w) /\ ~AcceptRepair(w)
  <2>1. /\ episodes' = episodes /\ opEpisode' = opEpisode /\ SameRepair
        /\ pc[w] \notin {"repair", "verdict"}
        /\ snap.state = "FAILED_UNRECOVERABLE" => snap'.state = "FAILED_UNRECOVERABLE"
    BY <1>6, RepairFrame
  <2>2. Pending' /\ Twice'
    BY <2>1, <1>b, <1>e, <1>f DEF Pending, Twice, Failed
  <2>3. CASE LoopDiagnose(w)
    <3>1. pc'[w] \in {"diagnose", "except"} /\ opEpisode = None
      BY <2>3, <1>a DEF LoopDiagnose, Move, Goto
    <3> QED BY <2>1, <2>2, <3>1
  <2>4. CASE DiagnoseInterrupted(w)
    <3>1. /\ pc'[w] = "resumeRepair" /\ job'[w] = snap.lastEpisode
          /\ pc[w] = "diagnose" /\ Unfinished(snap.lastEpisode)
      BY <2>4, <1>a DEF DiagnoseInterrupted, Goto, Interrupted, OpenEpisode
    <3> QED BY <2>1, <2>2, <3>1, <1>b
  <2>5. CASE DiagnoseAction(w)
    <3>1. pc'[w] = "begin" /\ pc[w] = "diagnose" /\ ~Interrupted(snap)
      BY <2>5, <1>a DEF DiagnoseAction, Goto
    <3>2. \A g \in Gaps : ~Unfinished(g)
      BY <3>1, NothingPending
    <3> QED BY <2>1, <2>2, <3>1, <3>2, <1>b
  <2>6. CASE BeginAction(w) \/ RunAction(w) \/ RecordResult(w)
    <3>1. pc[w] \in {"begin", "run", "result"}
      BY <2>6 DEF BeginAction, RunAction, RecordResult
    <3>2. pc'[w] \in {"run", "result", "repair", "recheck", "fail", "except"}
      BY <2>6, <1>a DEF BeginAction, RunAction, RecordResult, Move, Block, Goto
    <3>3. pc'[w] = "repair" => ~Resumed(w)'
      BY <2>6, <1>a DEF BeginAction, RunAction, RecordResult, Move, Block, Goto, Resumed, TypeOK
    <3> QED BY <2>1, <2>2, <3>1, <3>2, <3>3, <1>b
  <2>7. CASE RouteObservedGap(w)
    <3>1. pc'[w] \in {"repair", "fail", "except"} /\ pc[w] = "diagnose" /\ ~Interrupted(snap)
      BY <2>7, <1>a DEF RouteObservedGap, Move, Block, Goto
    <3>2. \A g \in Gaps : ~Unfinished(g)
      BY <3>1, NothingPending
    <3>3. pc'[w] = "repair" => ~Resumed(w)'
      BY <2>7, <1>a DEF RouteObservedGap, Move, Block, Goto, Resumed, TypeOK
    <3> QED BY <2>1, <2>2, <3>1, <3>2, <3>3, <1>b
  <2>8. CASE ~LoopDiagnose(w) /\ ~DiagnoseInterrupted(w) /\ ~DiagnoseAction(w)
             /\ ~BeginAction(w) /\ ~RunAction(w) /\ ~RecordResult(w) /\ ~RouteObservedGap(w)
    <3>1. pc'[w] \notin {"diagnose", "resumeRepair", "begin", "run", "result", "repair",
                         "verdict", "accept", "block"}
      BY <2>8, <1>6, <1>a DEF TypeOK, WorkerStep, PreflightContract, PreflightBlocked,
        PreflightResolved, PreflightSources, LoadDay, LoopStopped, LoopComplete,
        DiagnoseAuthority, DiagnoseNothing, CatalogRefuses, BlockRepair, Fail, Recheck, Repaired,
        Revalidate, StopTail, HandleException, Settle, Notify, Move, Block, Goto
    <3> QED BY <2>2, <3>1
  <2> QED BY <2>3, <2>4, <2>5, <2>6, <2>7, <2>8
<1> QED BY <1>1, <1>2, <1>3, <1>4, <1>5, <1>6

(* The operator's requests, a restart and the world outside keep both.          *)
LEMMA ControlRequest ==
  ASSUME ~EagerOperator, TypeOK, Serial, Controlled, Repairs, Request
  PROVE  Controlled' /\ Repairs'
<1> USE StageTable DEF Returned, Staged, Repairing, Durable, Unblocked, Unfinished, Carried, local
<1>a. /\ snap \in Snapshot /\ disk \in Snapshot /\ pc \in [Worker -> PCs]
      /\ episodes \in [Gaps -> Episode] /\ retained \in SUBSET Gaps
      /\ None \notin Gaps
  BY ConstantsAssumption DEF TypeOK
<1>b. Durable /\ Pending /\ Twice
  BY DEF Controlled, Repairs
<1>c. lockHolder # None => Returned
  BY DEF Serial
<1>1. ASSUME NEW b \in BOOLEAN, Launch(snap, b), lockHolder' = None, episodes' = episodes,
             snap.state # "FAILED_UNRECOVERABLE"
      PROVE  Controlled' /\ Repairs'
  <2>1. Returned /\ opEpisode' = opEpisode
    BY <1>1 DEF Launch
  <2>2. PICK w \in Worker : pc' = [pc EXCEPT ![w] = "preflight"]
    BY <1>1 DEF Launch, Goto
  <2>3. /\ snap'.state = "PREFLIGHT" /\ disk' = snap' /\ snap' \in Snapshot
        /\ snap'.items = snap.items /\ snap'.lastEpisode = snap.lastEpisode
    BY <1>1, <1>a, Names DEF Launch, Snapshot
  <2>4. \A v \in Worker : pc'[v] = "preflight" \/ pc'[v] = "idle"
    BY <2>1, <2>2, <1>a
  <2>5. Controlled'
    BY <1>1, <2>3, <2>4, Names DEF Controlled
  <2>6. \A g \in Gaps : Unfinished(g) => episodes[g].interrupted
    BY <1>1, <1>b, <2>1 DEF Pending
  <2>7. Pending' /\ Twice'
    BY <1>1, <1>b, <2>1, <2>3, <2>6 DEF Pending, Twice, Failed
  <2> QED BY <2>4, <2>5, <2>7 DEF Repairs
<1>2. CASE Start \/ Resume \/ OperatorLaunch \/ RepairAndGo
  <2>1. snap.state # "FAILED_UNRECOVERABLE"
    BY <1>2, <1>b DEF Start, Resume, OperatorLaunch, RepairAndGo, RepairResumable,
      AUTHORITY, None
  <2> QED BY <1>1, <1>2, <2>1 DEF Start, Resume, OperatorLaunch, RepairAndGo
<1>3. CASE OperatorResume
  <2> DEFINE l == snap.lastEpisode
  <2>1. /\ Returned /\ l \in Gaps /\ episodes[l].final = "REVIEW" /\ snap' = snap /\ disk' = disk
        /\ snap.state = "EXTERNAL_ACTION_REQUIRED" /\ pc' = pc /\ opEpisode' = l
        /\ episodes' = [episodes EXCEPT ![l] = Retried(@)]
    BY <1>3, <1>a DEF OperatorResume, OperatorResumable, Snapshot
  <2>2. /\ episodes'[l].final = None /\ episodes'[l].interrupted
        /\ episodes'[l].open = episodes[l].open
        /\ episodes'[l].left = episodes[l].left
        /\ episodes'[l].matches = episodes[l].matches
        /\ \A g \in Gaps \ {l} : episodes'[g] = episodes[g]
    BY <2>1, <1>a DEF Retried, Episode
  <2>3. \A g \in Gaps \ {l} : ~Unfinished(g)
    BY <1>b DEF Pending
  <2>4. Failed(snap, l) /\ episodes[l].open
    BY <2>1, <1>b DEF Pending, None
  <2>5. Pending'
    <3> HIDE DEF l
    <3>1. \A g \in Gaps : Unfinished(g)' => g = l
      BY <2>2, <2>3
    <3>2. snap'.lastEpisode = l /\ snap'.items = snap.items
      BY <2>1 DEF l
    <3>3. Failed(snap', l) /\ l \in Gaps
      BY <2>1, <2>4, <3>2 DEF Failed
    <3>7. \A g \in Gaps : Unfinished(g)' => Carried(g)'
      BY <2>2, <3>1
    <3>4. \A g \in Gaps : Failed(snap, g) <=> Failed(snap', g)
      BY <3>2 DEF Failed
    <3>5. \A g \in Gaps : /\ episodes'[g].final = "REVIEW" => Failed(snap', g)
                          /\ episodes'[g].final # None => episodes'[g].open
      BY <2>2, <3>3, <3>4, <1>b DEF Pending
    <3>6. opEpisode' # None => /\ snap'.lastEpisode = opEpisode' /\ opEpisode' = l
                               /\ episodes'[l].interrupted
      BY <2>1, <2>2, <3>2
    <3>8. opEpisode' # None => Unfinished(opEpisode)'
      BY <2>1, <2>2, <2>4
    <3> HIDE DEF Unfinished, Carried
    <3> QED BY <3>1, <3>2, <3>3, <3>5, <3>6, <3>7, <3>8 DEF Pending
  <2>6. Controlled'
    BY <2>1, <1>b, <1>a DEF Controlled, Snapshot
  <2>7. Twice'
    <3> HIDE DEF l
    <3> QED BY <2>1, <2>2, <1>b DEF Twice
  <2> QED BY <2>1, <2>5, <2>6, <2>7 DEF Repairs
<1>4. CASE OperatorUnblock
  <2>1. /\ Returned /\ pc' = pc /\ episodes' = episodes /\ opEpisode' = opEpisode
        /\ disk' = snap' /\ job' = job
    BY <1>4, <1>c, "retry" # None DEF OperatorUnblock, None
  <2>2. /\ snap'.state = snap.state /\ snap'.items = snap.items
        /\ snap'.lastEpisode = snap.lastEpisode /\ snap.state \in DayState
        /\ snap.state = "EXTERNAL_ACTION_REQUIRED"
    BY <1>4, <1>a, <1>b, "retry" # None DEF OperatorUnblock, Snapshot, None
  <2>3. Controlled'
    BY <2>1, <2>2, <1>b DEF Controlled
  <2>4. Pending' /\ Twice'
    BY <2>1, <2>2, <1>b DEF Pending, Twice, Failed
  <2> QED BY <2>1, <2>3, <2>4 DEF Repairs
<1>5. CASE Stop
  <2>1. /\ snap' = snap /\ disk' = snap /\ lockHolder = None
        /\ UNCHANGED <<pc, episodes, opEpisode, lockHolder, job, goal, back>>
    BY <1>5 DEF Stop
  <2>2. Controlled'
    BY <2>1, <1>b DEF Controlled
  <2>3. Pending' /\ Twice'
    BY <2>1, <1>b DEF Pending, Twice
  <2>4. \A w \in Worker : Repairing(w)'
    BY <2>1 DEF Repairs, Resumed
  <2> QED BY <2>2, <2>3, <2>4 DEF Repairs
<1>6. CASE RegisterRetainedEvidence
  <2>1. /\ disk' = snap' /\ lockHolder = None /\ snap' = Evaluated(snap, retained)
        /\ UNCHANGED <<pc, episodes, opEpisode, lockHolder, job, goal, back>>
    BY <1>6 DEF RegisterRetainedEvidence
  <2>2. /\ snap'.state = snap.state /\ snap'.items = snap.items /\ snap'.blocker = snap.blocker
        /\ snap'.lastEpisode = snap.lastEpisode
    BY <2>1, <1>a, EvidenceType, EvidenceFrame
  <2>3. Controlled'
    BY <2>1, <2>2, <1>b DEF Controlled
  <2>4. Pending' /\ Twice'
    BY <2>1, <2>2, <1>b DEF Pending, Twice, Failed
  <2>5. \A w \in Worker : Repairing(w)'
    BY <2>1, <2>2 DEF Repairs, Resumed
  <2> QED BY <2>3, <2>4, <2>5 DEF Repairs
<1> QED BY <1>2, <1>3, <1>4, <1>5, <1>6 DEF Request

(* A restart finds on disk what memory had, and marks a repair interrupted      *)
(* exactly when a worker could have been at it.                                 *)
LEMMA ControlRestart ==
  ASSUME TypeOK, Controlled, Repairs, Restart
  PROVE  Controlled' /\ Repairs'
<1> USE DEF Durable, Unfinished
<1>a. /\ snap \in Snapshot /\ disk \in Snapshot /\ snap' \in Snapshot
      /\ episodes \in [Gaps -> Episode] /\ retained \in SUBSET Gaps
      /\ None \notin Gaps /\ disk.lastEpisode \in Gaps \cup {None}
  BY ConstantsAssumption, RestartType DEF TypeOK, Snapshot
<1>b. Durable /\ Pending /\ Twice /\ \A w \in Worker : Staged(w) /\ Repairing(w)
  BY DEF Controlled, Repairs
<1>1. /\ snap' = Restored(disk) /\ lockHolder' = None /\ opEpisode' = None
      /\ \A w \in Worker : pc'[w] = "idle"
  BY DEF Restart
<1>2. /\ snap'.items = disk.items /\ snap'.lastEpisode = disk.lastEpisode
      /\ snap'.state = disk.state \/ (snap'.state = "PAUSED" /\ disk.state = "COMPLETE")
         \/ disk.state \in ACTIVE \/ (disk.state # "IDLE" /\ ~contractOK)
      /\ disk.state # "IDLE" /\ ~contractOK => snap'.state = "FAILED_UNRECOVERABLE"
      /\ disk.state = "FAILED_UNRECOVERABLE" => snap'.state = "FAILED_UNRECOVERABLE"
  <2> DEFINE e == Evaluated(disk, retained)
             i == Invalidated(disk)
  <2>1. /\ e \in Snapshot /\ e.state = disk.state /\ e.items = disk.items
        /\ e.lastEpisode = disk.lastEpisode
        /\ i \in Snapshot /\ i.items = disk.items /\ i.lastEpisode = disk.lastEpisode
    BY <1>a, EvidenceType, EvidenceFrame
  <2>2. snap' = CASE disk.state = "IDLE" -> disk
                  [] disk.state # "IDLE" /\ ~contractOK ->
                       [i EXCEPT !.state = "FAILED_UNRECOVERABLE"]
                  [] OTHER ->
                       CASE e.state = "COMPLETE" /\ e.gaps # {} ->
                              [e EXCEPT !.state = "PAUSED"]
                         [] e.state \in ACTIVE ->
                              [e EXCEPT !.state = "PAUSED",
                                        !.stopReason = "INTERRUPTED_REQUIRES_RESUME"]
                         [] OTHER -> e
    BY <1>1 DEF Restored
  <2> HIDE DEF e, i
  <2>3. CASE disk.state = "IDLE"
    BY <2>2, <2>3
  <2>4. CASE disk.state # "IDLE" /\ ~contractOK
    <3>1. snap' = [i EXCEPT !.state = "FAILED_UNRECOVERABLE"]
      BY <2>2, <2>4
    <3> QED BY <3>1, <2>1, <2>4 DEF Snapshot
  <2>5. CASE disk.state # "IDLE" /\ contractOK
    <3>1. CASE e.state = "COMPLETE" /\ e.gaps # {}
      <4>1. snap' = [e EXCEPT !.state = "PAUSED"]
        BY <2>2, <2>5, <3>1 DEF ACTIVE
      <4> QED BY <4>1, <2>1, <2>5, <3>1 DEF Snapshot
    <3>2. CASE e.state \in ACTIVE
      <4>1. snap' = [e EXCEPT !.state = "PAUSED",
                              !.stopReason = "INTERRUPTED_REQUIRES_RESUME"]
        BY <2>2, <2>5, <3>2 DEF ACTIVE
      <4> QED BY <4>1, <2>1, <2>5, <3>2 DEF Snapshot, ACTIVE
    <3>3. CASE ~(e.state = "COMPLETE" /\ e.gaps # {}) /\ e.state \notin ACTIVE
      <4>1. snap' = e
        BY <2>2, <2>5, <3>3
      <4> QED BY <4>1, <2>1, <2>5
    <3> QED BY <3>1, <3>2, <3>3
  <2> QED BY <2>3, <2>4, <2>5
<1>3. Durable'
  <2>1. disk' = IF disk.state \in ACTIVE \/ (disk.state # "IDLE" /\ ~contractOK)
                THEN snap' ELSE disk
    BY DEF Restart
  <2> QED BY <1>1, <1>2, <2>1
<1>4. Pending' /\ Twice'
  <2>1. /\ \A g \in Gaps : /\ episodes'[g].open = episodes[g].open
                           /\ episodes'[g].left = episodes[g].left
                           /\ episodes'[g].matches = episodes[g].matches
                           /\ episodes'[g].final = episodes[g].final
                           /\ episodes[g].interrupted => episodes'[g].interrupted
        /\ disk.state = "REPAIR_SUPERVISOR" /\ contractOK /\ disk.lastEpisode # None
             => episodes'[disk.lastEpisode].interrupted
    <3>1. CASE disk.state = "REPAIR_SUPERVISOR" /\ contractOK /\ disk.lastEpisode # None
      <4>1. episodes' = [episodes EXCEPT ![disk.lastEpisode].interrupted = TRUE]
        BY <3>1 DEF Restart
      <4> QED BY <4>1, <3>1, <1>a DEF Episode
    <3>2. CASE ~(disk.state = "REPAIR_SUPERVISOR" /\ contractOK /\ disk.lastEpisode # None)
      BY <3>2 DEF Restart
    <3> QED BY <3>1, <3>2
  <2>2. ASSUME NEW g \in Gaps, Unfinished(g) PROVE Carried(g)'
    <3>1. snap.lastEpisode = g /\ Carried(g)
      BY <2>2, <1>b DEF Pending
    <3>2. CASE episodes[g].interrupted
      BY <2>1, <3>2 DEF Carried
    <3>3. CASE \E w \in Worker : pc[w] \in {"repair", "verdict"} /\ job[w] = g
      <4>1. disk.state = "REPAIR_SUPERVISOR"
        BY <3>3, <1>b, StageTable DEF Staged
      <4>2. CASE contractOK
        BY <2>1, <3>1, <4>1, <4>2, <1>a, <1>b DEF Carried
      <4>3. CASE ~contractOK
        BY <1>2, <4>1, <4>3 DEF Carried
      <4> QED BY <4>2, <4>3
    <3>4. CASE snap.state = "FAILED_UNRECOVERABLE"
      BY <1>2, <1>b, <3>4 DEF Carried
    <3> QED BY <3>1, <3>2, <3>3, <3>4 DEF Carried
  <2>3. snap'.items = snap.items /\ snap'.lastEpisode = snap.lastEpisode
    BY <1>2, <1>b
  <2> QED BY <2>1, <2>2, <2>3, <1>1, <1>b DEF Pending, Twice, Failed
<1>5. \A w \in Worker : Staged(w)' /\ Repairing(w)'
  BY <1>1, <1>a, StageTable DEF Staged, Repairing, Unblocked, Snapshot
<1> QED BY <1>3, <1>4, <1>5 DEF Controlled, Repairs

(* Controlled and Repairs hold in every reachable state of a Day whose requests *)
(* wait for the worker.                                                         *)
LEMMA ControlStep ==
  ASSUME ~EagerOperator, TypeOK, JobOK, Serial, Controlled, Repairs, [Next]_vars
  PROVE  Controlled' /\ Repairs'
<1>1. CASE \E w \in Worker : WorkerStep(w)
  BY <1>1, ControlledWorker, RepairsWorker
<1>2. CASE Request
  BY <1>2, ControlRequest
<1>3. CASE Restart
  BY <1>3, ControlRestart
<1>4. CASE Environment
  BY <1>4 DEF Environment, mem, local, Controlled, Repairs, Durable, Staged, Pending,
    Repairing, Unfinished, Carried, Twice, Failed, Resumed
<1>5. CASE UNCHANGED vars
  BY <1>5 DEF vars, mem, local, Controlled, Repairs, Durable, Staged, Pending,
    Repairing, Unfinished, Carried, Twice, Failed, Resumed
<1> QED BY <1>1, <1>2, <1>3, <1>4, <1>5 DEF Next

LEMMA ControlInvariant ==
  ASSUME ~EagerOperator
  PROVE  Spec => [](TypeOK /\ JobOK /\ Serial /\ Controlled /\ Repairs)
<1>1. Init => Logged /\ Serial /\ Controlled /\ Repairs
  <2> SUFFICES ASSUME Init PROVE Logged /\ Serial /\ Controlled /\ Repairs
    OBVIOUS
  <2>1. Logged /\ Serial
    BY DEF Init, Logged, ExecutedIsRecorded, EmptySnapshot, Serial, Returned,
      ActionAtMostOnce, None
  <2>2. Controlled /\ Repairs
    BY StageTable, Names DEF Init, EmptySnapshot, Controlled, Repairs, Durable, Staged, Pending,
      Repairing, Unfinished, NoEpisode, None, Unblocked, Twice
  <2> QED BY <2>1, <2>2
<1>2. TypeOK /\ JobOK /\ Logged /\ Serial /\ Controlled /\ Repairs /\ [Next]_vars
        => (Logged /\ Serial /\ Controlled /\ Repairs)'
  BY LoggedStep, SerialStep, ControlStep
<1> QED BY <1>1, <1>2, TypeCorrect, PTL DEF Spec
-----------------------------------------------------------------------------
(* No action runs, no repair goes on and no diagnosis is made while the Day has *)
(* an authority blocker: every way past _preflight clears it, and whatever sets *)
(* it goes to _fail.                                                            *)
THEOREM NotBlocked ==
  ASSUME ~EagerOperator
  PROVE  Spec => []NoActionWhileBlocked
<1>1. Controlled => NoActionWhileBlocked
  BY DEF Controlled, Staged, NoActionWhileBlocked, Unblocked
<1> QED BY <1>1, ControlInvariant, PTL

(* Whatever is stopped, resumed, retried or restarted, the durable snapshot     *)
(* names the latest unfinished repair with its failed item, and the first       *)
(* repair of a strategy is not left for a second episode: _supervise_repair     *)
(* opens one beside an unfinished one only for a second failure of the same id. *)
THEOREM OneRepair ==
  ASSUME ~EagerOperator
  PROVE  Spec => []OneUnfinishedRepair
<1>1. Controlled /\ Repairs => OneUnfinishedRepair
  BY DEF Controlled, Durable, Repairs, Pending, Unfinished, OneUnfinishedRepair, Twice, Failed
<1> QED BY <1>1, ControlInvariant, PTL

(* The inductive form of FailureHasCause: an exhausted repair does not fail the *)
(* Day either, a diagnosis is reached with a gap, no retained record can close  *)
(* it before the worker looks, and the repair that the catalogue refused is the *)
(* last one.                                                                    *)
FailedForCause ==
  LET refused(g) == g # None /\ episodes[g].final = "VERIFIED"
  IN  /\ \A w \in Worker : pc[w] = "except" =>
           ~contractOK \/ (snap.state = "REPAIR_SUPERVISOR" /\ refused(job[w]))
      /\ snap.state = "FAILED_UNRECOVERABLE" => ~contractOK \/ refused(snap.lastEpisode)

ContractFailed ==
  /\ FailedForCause
  /\ retained = {}
  /\ \A w \in Worker :
       /\ pc[w] = "diagnose" => snap.gaps # {}
       /\ pc[w] = "except" => ~contractOK \/ snap.lastEpisode = job[w]

LEMMA ContractFailedStep ==
  ASSUME ~EagerOperator, Retainable = {}, TypeOK, JobOK, Serial, Controlled, Repairs,
         ContractFailed, [Next]_vars
  PROVE  ContractFailed'
<1> USE DEF ContractFailed, FailedForCause
<1>a. /\ snap \in Snapshot /\ disk \in Snapshot /\ pc \in [Worker -> PCs]
      /\ \A w \in Worker : found[w] \in SUBSET Gaps
  BY DEF TypeOK
<1>1. ASSUME NEW w \in Worker, WorkerStep(w) PROVE ContractFailed'
  <2>1. Explained(w) /\ \A v \in Worker \ {w} : pc'[v] = "idle"
    BY <1>1, ControlledWorker, Alone
  <2>2. contractOK' = contractOK /\ retained' = {}
    BY <1>1 DEF OutsideUnchanged, world, WorkerStep, PreflightContract, PreflightBlocked,
      PreflightResolved, PreflightSources, LoadDay, LoopStopped, LoopComplete,
      LoopOperatorResume, LoopDiagnose, DiagnoseInterrupted, DiagnoseAction,
      DiagnoseAuthority, DiagnoseNothing, RouteObservedGap, ResumeRepair, BeginAction,
      RunAction, RecordResult, OpenRepair, RepairVerdict, AcceptRepair, CatalogRefuses, BlockRepair,
      Fail, Recheck, Repaired, Revalidate, StopTail, HandleException, Settle, Notify
  <2>3. ~DiagnoseNothing(w)
    BY DEF DiagnoseNothing
  <2>4. pc'[w] = "except" => \/ ~contractOK
                             \/ /\ snap'.state = "REPAIR_SUPERVISOR" /\ job'[w] # None
                                /\ episodes'[job'[w]].final = "VERIFIED"
                                /\ snap'.lastEpisode = job'[w]
    <3>1. PreflightContract(w) => ~contractOK
      BY DEF PreflightContract
    <3>2. ASSUME CatalogRefuses(w)
          PROVE  /\ snap'.state = "REPAIR_SUPERVISOR" /\ job'[w] # None
                 /\ episodes'[job'[w]].final = "VERIFIED"
                 /\ snap'.lastEpisode = job'[w]
      <4>1. /\ pc[w] = "accept" /\ snap' = snap /\ episodes' = episodes /\ job' = job
        BY <3>2 DEF CatalogRefuses, local
      <4>2. snap.state = "REPAIR_SUPERVISOR" /\ job[w] \in Gaps
        BY <4>1, StageTable DEF Controlled, Staged, JobOK
      <4>3. episodes[job[w]].final = "VERIFIED" /\ snap.lastEpisode = job[w]
        BY <4>1 DEF Repairs, Repairing
      <4> QED BY <4>1, <4>2, <4>3, ConstantsAssumption
    <3> QED BY <2>1, <2>3, <3>1, <3>2 DEF Explained
  <2>6. snap'.state = "FAILED_UNRECOVERABLE" =>
          \/ ~contractOK
          \/ /\ snap'.lastEpisode # None
             /\ episodes'[snap'.lastEpisode].final = "VERIFIED"
    <3>1. ASSUME snap'.state = "FAILED_UNRECOVERABLE", contractOK
          PROVE  /\ snap.lastEpisode # None /\ episodes[snap.lastEpisode].final = "VERIFIED"
                 /\ pc[w] \in {"except", "settle", "notify"}
      <4>1. CASE HandleException(w)
        BY <3>1, <4>1 DEF HandleException
      <4>2. CASE snap.state = "FAILED_UNRECOVERABLE"
        <5>1. pc[w] \in PCs \ {"idle"} /\ snap.state \in Stage(pc[w])
          BY <1>1, Alone DEF Controlled, Staged, TypeOK
        <5>2. pc[w] \in {"settle", "notify"}
          BY <4>2, <5>1, StageTable DEF PCs, Worked, AUTHORITY
        <5> QED BY <3>1, <4>2, <5>2
      <4> QED BY <2>1, <3>1, <4>1, <4>2 DEF Explained
    <3>2. ASSUME pc[w] \in {"except", "settle", "notify"}
          PROVE  episodes' = episodes /\ snap'.lastEpisode = snap.lastEpisode
      <4>1. /\ ~LoopOperatorResume(w) /\ ~ResumeRepair(w) /\ ~OpenRepair(w)
            /\ ~RepairVerdict(w) /\ ~AcceptRepair(w)
        BY <3>2 DEF LoopOperatorResume, ResumeRepair, OpenRepair, RepairVerdict, AcceptRepair
      <4> QED BY <1>1, <4>1, RepairFrame DEF SameRepair
    <3> QED BY <3>1, <3>2
  <2>5. pc'[w] = "diagnose" => snap'.gaps # {}
    <3>1. SUFFICES ASSUME pc'[w] = "diagnose" PROVE snap'.gaps # {}
      OBVIOUS
    <3>2. LoopDiagnose(w)
      BY <1>1, <3>1, <1>a DEF TypeOK, WorkerStep, PreflightContract, PreflightBlocked,
        PreflightResolved, PreflightSources, LoadDay, LoopStopped, LoopComplete,
        LoopOperatorResume, DiagnoseInterrupted, DiagnoseAction, DiagnoseAuthority,
        DiagnoseNothing, RouteObservedGap, ResumeRepair, BeginAction, RunAction,
        RecordResult, OpenRepair, RepairVerdict, AcceptRepair, CatalogRefuses, BlockRepair, Fail,
        Recheck, Repaired, Revalidate, StopTail, HandleException, Settle, Notify,
        Move, Block, Goto
    <3> DEFINE e == Evaluated(snap, found[w])
    <3>3. e.gaps # {} /\ e \in Snapshot
          /\ Move(w, e, "DIAGNOSING_GAP", "diagnose")
      BY <3>2, <1>a, EvidenceType DEF LoopDiagnose
    <3> HIDE DEF e
    <3> QED BY <3>3, <1>a DEF Move, Snapshot
  <2> QED BY <2>1, <2>2, <2>4, <2>5, <2>6
<1>2. CASE Request
  <2>1. ~RegisterRetainedEvidence
    BY DEF RegisterRetainedEvidence
  <2>2. ASSUME NEW b \in BOOLEAN, Launch(snap, b) PROVE ContractFailed'
    <3>1. /\ snap'.state = "PREFLIGHT" /\ UNCHANGED <<contractOK, retained>>
          /\ \A w \in Worker : pc[w] = "idle"
      BY <2>2, <1>a DEF Launch, Returned, Snapshot, world
    <3>2. PICK w \in Worker : pc' = [pc EXCEPT ![w] = "preflight"]
      BY <2>2 DEF Launch, Goto
    <3> QED BY <3>1, <3>2, <1>a
  <2>3. CASE Start \/ Resume \/ OperatorLaunch \/ RepairAndGo
    BY <2>2, <2>3 DEF Start, Resume, OperatorLaunch, RepairAndGo
  <2>4. CASE OperatorResume
    <3>1. /\ snap' = snap /\ snap.state = "EXTERNAL_ACTION_REQUIRED" /\ pc' = pc
          /\ \A w \in Worker : pc[w] = "idle"
          /\ retained' = retained
      BY <2>4 DEF OperatorResume, OperatorResumable, Returned, world
    <3> QED BY <3>1
  <2>6. CASE Stop
    BY <2>6 DEF Stop, local, world
  <2>5. CASE OperatorUnblock
    <3>1. /\ snap'.state = snap.state /\ snap'.gaps = snap.gaps
          /\ snap'.lastEpisode = snap.lastEpisode
          /\ UNCHANGED <<pc, job, episodes, contractOK, retained>>
      BY <2>5, <1>a DEF OperatorUnblock, Snapshot, local
    <3> QED BY <3>1
  <2> QED BY <1>2, <2>1, <2>3, <2>4, <2>5, <2>6 DEF Request
<1>3. CASE Restart
  <2>1. /\ UNCHANGED <<contractOK, retained>> /\ snap' = Restored(disk)
        /\ \A w \in Worker : pc'[w] = "idle"
    BY <1>3 DEF Restart, world
  <2>2. disk.state = "FAILED_UNRECOVERABLE" => snap.state = "FAILED_UNRECOVERABLE"
    BY DEF Controlled, Durable
  <2>4. /\ snap.lastEpisode # None /\ episodes[snap.lastEpisode].final = "VERIFIED"
          => /\ disk.lastEpisode # None /\ episodes'[disk.lastEpisode].final = "VERIFIED"
    <3>1. disk.lastEpisode = snap.lastEpisode /\ disk.lastEpisode \in Gaps \cup {None}
      BY <1>a DEF Controlled, Durable, Snapshot
    <3>2. CASE episodes' = episodes
      BY <3>1, <3>2
    <3>3. CASE /\ disk.lastEpisode # None
               /\ episodes' = [episodes EXCEPT ![disk.lastEpisode].interrupted = TRUE]
      BY <3>1, <3>3 DEF TypeOK, Episode
    <3> QED BY <1>3, <3>2, <3>3 DEF Restart
  <2>3. contractOK /\ Restored(disk).state = "FAILED_UNRECOVERABLE"
          => /\ disk.state = "FAILED_UNRECOVERABLE"
             /\ Restored(disk).lastEpisode = disk.lastEpisode
    <3> SUFFICES ASSUME contractOK, Restored(disk).state = "FAILED_UNRECOVERABLE"
                 PROVE  /\ disk.state = "FAILED_UNRECOVERABLE"
                        /\ Restored(disk).lastEpisode = disk.lastEpisode
      OBVIOUS
    <3> DEFINE e == Evaluated(disk, {})
    <3>1. e \in Snapshot /\ e.state = disk.state /\ e.lastEpisode = disk.lastEpisode
      BY <1>a, EvidenceType, EvidenceFrame
    <3>2. Restored(disk) = IF disk.state = "IDLE" THEN disk
                           ELSE IF e.state = "COMPLETE" /\ e.gaps # {}
                                THEN [e EXCEPT !.state = "PAUSED"]
                           ELSE IF e.state \in ACTIVE
                                THEN [e EXCEPT !.state = "PAUSED",
                                               !.stopReason = "INTERRUPTED_REQUIRES_RESUME"]
                           ELSE e
      BY DEF Restored, ACTIVE
    <3> HIDE DEF e
    <3> QED BY <3>1, <3>2, <1>a DEF Snapshot
  <2> QED BY <2>1, <2>2, <2>3, <2>4
<1>4. CASE Environment
  <2>1. UNCHANGED <<snap, episodes, pc, job>> /\ retained' = {} /\ (contractOK' => contractOK)
    BY <1>4 DEF Environment, mem, local, RepositoryChanges, ArtifactChanges, ArtifactRetained,
      PrerequisiteMet, SourcesChange, ContractChanges
  <2> QED BY <2>1
<1>5. CASE UNCHANGED vars
  BY <1>5 DEF vars, mem, local, world
<1> QED BY <1>1, <1>2, <1>3, <1>4, <1>5 DEF Next

(* With one worker at a time and nothing to register, validate_transition never *)
(* refuses a transition: a Day fails for good only under a changed contract or  *)
(* on a verified repair whose record the catalogue refuses.  The second         *)
(* assumption is needed: register_retained_evidence between evaluation and      *)
(* diagnosis fails the Day.                                                     *)
THEOREM FailsForCause ==
  ASSUME ~EagerOperator, Retainable = {}
  PROVE  Spec => []FailureHasCause
<1>1. Init => ContractFailed
  BY DEF Init, EmptySnapshot, ContractFailed, FailedForCause
<1>2. TypeOK /\ JobOK /\ Serial /\ Controlled /\ Repairs /\ ContractFailed /\ [Next]_vars
        => ContractFailed'
  BY ContractFailedStep
<1>3. ContractFailed => FailureHasCause
  BY DEF ContractFailed, FailedForCause, FailureHasCause
<1> QED BY <1>1, <1>2, <1>3, ControlInvariant, PTL DEF Spec

(* The inductive form of AuthorityNamesItsBlocker: the retry of an external     *)
(* review names its blocker until the save that clears it.                      *)
Named == lockHolder # "resume" /\ snap.state \in AUTHORITY => snap.blocker # None

LEMMA NamedStep ==
  ASSUME ~EagerOperator, MaxCrash = 0, TypeOK, JobOK, Serial, Controlled, Repairs, Named,
         [Next]_vars
  PROVE  Named'
<1> USE DEF Named, AUTHORITY
<1>a. snap \in Snapshot /\ retained \in SUBSET Gaps
  BY DEF TypeOK
<1>1. ASSUME NEW w \in Worker, WorkerStep(w) PROVE Named'
  BY <1>1, ControlledWorker, Alone DEF Explained, None
<1>2. CASE Request
  <2>1. ASSUME NEW b \in BOOLEAN, Launch(snap, b) PROVE Named'
    BY <2>1, <1>a DEF Launch, Snapshot
  <2>2. CASE Start \/ Resume \/ OperatorLaunch \/ RepairAndGo
    BY <2>1, <2>2 DEF Start, Resume, OperatorLaunch, RepairAndGo
  <2>3. CASE OperatorResume \/ Stop
    BY <2>3 DEF OperatorResume, Stop, None
  <2>4. CASE OperatorUnblock
    BY <2>4 DEF OperatorUnblock
  <2>5. CASE RegisterRetainedEvidence
    BY <2>5, <1>a, EvidenceType, EvidenceFrame DEF RegisterRetainedEvidence
  <2> QED BY <1>2, <2>2, <2>3, <2>4, <2>5 DEF Request
<1>3. CASE Restart
  BY <1>3, ConstantsAssumption DEF Restart, TypeOK
<1>4. CASE Environment
  BY <1>4 DEF Environment, mem
<1>5. CASE UNCHANGED vars
  BY <1>5 DEF vars, mem
<1> QED BY <1>1, <1>2, <1>3, <1>4, <1>5 DEF Next

(* Without a crash, a Day that waits for an authority names its prerequisite.   *)
(* The assumption is needed: a crash between the two saves of the operator's    *)
(* retry leaves an authority state with no blocker.                             *)
THEOREM NamesBlocker ==
  ASSUME ~EagerOperator, MaxCrash = 0
  PROVE  Spec => []AuthorityNamesItsBlocker
<1>1. Init => Named
  BY DEF Init, EmptySnapshot, Named, AUTHORITY
<1>2. TypeOK /\ JobOK /\ Serial /\ Controlled /\ Repairs /\ Named /\ [Next]_vars => Named'
  BY NamedStep
<1>3. Named => AuthorityNamesItsBlocker
  BY DEF Named, AuthorityNamesItsBlocker, None
<1> QED BY <1>1, <1>2, <1>3, ControlInvariant, PTL DEF Spec

LEMMA ProjectedStep ==
  ASSUME ~EagerOperator, \A v, w \in Worker : v = w, TypeOK, JobOK, Serial, Controlled,
         Repairs, ReturnedIsProjected, [Next]_vars
  PROVE  ReturnedIsProjected'
<1> USE DEF ReturnedIsProjected
<1>a. snap \in Snapshot /\ pc \in [Worker -> PCs] /\ retained \in SUBSET Gaps
  BY DEF TypeOK
<1>1. ASSUME NEW w \in Worker, WorkerStep(w) PROVE ReturnedIsProjected'
  <2> SUFFICES ASSUME pc'[w] = "idle", notifies'[w] PROVE projected' = snap'.state
    OBVIOUS
  <2>1. CASE Settle(w)
    <3>1. snap.state \notin ACTIVE
      BY <2>1, StageTable DEF Settle, Controlled, Staged, ACTIVE, AUTHORITY, RESTING
    <3> QED BY <2>1, <3>1, <1>a DEF Settle, Goto
  <2>2. CASE Notify(w)
    BY <2>2 DEF Notify, mem
  <2> QED BY <1>1, <2>1, <2>2, ControlledWorker DEF Explained
<1>2. CASE Request
  <2>1. ASSUME NEW b \in BOOLEAN, Launch(snap, b) PROVE ReturnedIsProjected'
    <3>1. PICK w \in Worker : pc' = [pc EXCEPT ![w] = "preflight"]
      BY <2>1 DEF Launch, Goto
    <3> QED BY <3>1, <1>a
  <2>2. CASE Start \/ Resume \/ OperatorLaunch \/ RepairAndGo
    BY <2>1, <2>2 DEF Start, Resume, OperatorLaunch, RepairAndGo
  <2>3. CASE OperatorResume \/ Stop
    BY <2>3 DEF OperatorResume, Stop, local
  <2>4. CASE OperatorUnblock
    BY <2>4, <1>a DEF OperatorUnblock, local, Snapshot
  <2>5. CASE RegisterRetainedEvidence
    BY <2>5, <1>a, EvidenceType DEF RegisterRetainedEvidence, local
  <2> QED BY <1>2, <2>2, <2>3, <2>4, <2>5 DEF Request
<1>3. CASE Restart
  BY <1>3 DEF Restart
<1>4. CASE Environment
  BY <1>4 DEF Environment, mem, local
<1>5. CASE UNCHANGED vars
  BY <1>5 DEF vars, mem, local
<1> QED BY <1>1, <1>2, <1>3, <1>4, <1>5 DEF Next

(* With one thread, a worker that reports has reported by the time it returns:  *)
(* the Day state on the run product's record is the state the Day is in.        *)
THEOREM Projected ==
  ASSUME ~EagerOperator, \A v, w \in Worker : v = w
  PROVE  Spec => []ReturnedIsProjected
<1>1. Init => ReturnedIsProjected
  BY DEF Init, ReturnedIsProjected
<1>2. TypeOK /\ JobOK /\ Serial /\ Controlled /\ Repairs /\ ReturnedIsProjected /\ [Next]_vars
        => ReturnedIsProjected'
  BY ProjectedStep
<1> QED BY <1>1, <1>2, ControlInvariant, PTL DEF Spec
-----------------------------------------------------------------------------
(* A restart that ends up COMPLETE has believed a saved completion, under the   *)
(* same contract and with a record for every artifact as it is now.             *)
LEMMA RestoredComplete ==
  ASSUME TypeOK, Restored(disk).state = "COMPLETE"
  PROVE  /\ contractOK /\ disk.state = "COMPLETE"
         /\ Restored(disk) = Evaluated(disk, retained)
         /\ \A g \in Gaps : <<g, gen[g]>> \in Restored(disk).evidence
<1> DEFINE e == Evaluated(disk, retained)
           i == Invalidated(disk)
<1>1. /\ disk \in Snapshot /\ e \in Snapshot /\ e.state = disk.state /\ i \in Snapshot
  BY EvidenceType DEF TypeOK
<1>2. Restored(disk) =
        IF disk.state = "IDLE" THEN disk
        ELSE IF ~contractOK THEN [i EXCEPT !.state = "FAILED_UNRECOVERABLE"]
        ELSE IF e.state = "COMPLETE" /\ e.gaps # {} THEN [e EXCEPT !.state = "PAUSED"]
        ELSE IF e.state \in ACTIVE
             THEN [e EXCEPT !.state = "PAUSED", !.stopReason = "INTERRUPTED_REQUIRES_RESUME"]
        ELSE e
  BY DEF Restored, ACTIVE
<1>3. e.gaps = {} => \A g \in Gaps : <<g, gen[g]>> \in e.evidence
  <2>1. Ingested(disk, retained) \in Snapshot
    BY <1>1, EvidenceType DEF TypeOK
  <2> QED BY <2>1 DEF Evaluated, Snapshot
<1> HIDE DEF e, i
<1>4. contractOK /\ Restored(disk) = e /\ e.gaps = {} /\ disk.state = "COMPLETE"
  BY <1>1, <1>2 DEF Snapshot
<1> QED BY <1>3, <1>4 DEF e

(* A restart never believes a saved completion without checking it again.       *)
THEOREM Revalidates == Spec => RestartRevalidates
<1>1. TypeOK /\ [Next]_vars =>
        [crashes' # crashes /\ snap'.state = "COMPLETE"
           => contractOK /\ \A g \in Gaps : <<g, gen[g]>> \in snap'.evidence]_vars
  <2> SUFFICES ASSUME TypeOK, Next, crashes' # crashes, snap'.state = "COMPLETE"
               PROVE  contractOK /\ \A g \in Gaps : <<g, gen[g]>> \in snap'.evidence
    BY DEF vars
  <2>1. Restart
    <3>1. ASSUME NEW w \in Worker, WorkerStep(w) PROVE crashes' = crashes
      BY <3>1 DEF WorkerStep, OutsideUnchanged, PreflightContract, PreflightBlocked,
        PreflightResolved, PreflightSources, LoadDay, LoopStopped, LoopComplete,
        LoopOperatorResume, LoopDiagnose, DiagnoseInterrupted, DiagnoseAction,
        DiagnoseAuthority, DiagnoseNothing, RouteObservedGap, ResumeRepair, BeginAction,
        RunAction, RecordResult, OpenRepair, RepairVerdict, AcceptRepair, CatalogRefuses, BlockRepair,
        Fail, Recheck, Repaired, Revalidate, StopTail, HandleException, Settle, Notify
    <3>2. Request => crashes' = crashes
      BY DEF Request, Launch, Start, Resume, OperatorResume, OperatorUnblock,
        OperatorLaunch, RepairAndGo, Stop, RegisterRetainedEvidence
    <3>3. Environment => crashes' = crashes
      BY DEF Environment
    <3> QED BY <3>1, <3>2, <3>3 DEF Next
  <2>2. snap' = Restored(disk)
    BY <2>1 DEF Restart
  <2> QED BY <2>2, RestoredComplete
<1> QED BY <1>1, TypeCorrect, PTL DEF Spec, RestartRevalidates

(* The inductive form of CompletionIsBacked: in memory as on disk.              *)
Backed(s) ==
  s.state = "COMPLETE" => \A g \in Gaps : \E n \in 0..MaxGen : <<g, n>> \in s.evidence

(* Evidence is only added, and a transition to any other state asks for none.   *)
LEMMA BackedMove ==
  ASSUME TypeOK, Backed(disk), NEW w \in Worker, NEW s \in Snapshot, Backed(s),
         NEW to \in DayState, NEW p, Move(w, s, to, p), to # "COMPLETE"
  PROVE  Backed(snap') /\ Backed(disk')
<1>1. CASE ValidTransition(s.state, to)
  <2>1. snap' = [s EXCEPT !.state = to] /\ disk' = snap'
    BY <1>1 DEF Move
  <2>2. snap'.state = to
    BY <2>1 DEF Snapshot
  <2> QED BY <2>1, <2>2 DEF Backed
<1>2. CASE ~ValidTransition(s.state, to)
  BY <1>2 DEF Move
<1> QED BY <1>1, <1>2

LEMMA BackedEvidence ==
  ASSUME TypeOK, NEW s \in Snapshot, Backed(s), NEW G \in SUBSET Gaps
  PROVE  Backed(Ingested(s, G)) /\ Backed(Evaluated(s, G))
<1>1. /\ Ingested(s, G).state = s.state /\ Evaluated(s, G).state = s.state
      /\ s.evidence \subseteq Ingested(s, G).evidence
      /\ s.evidence \subseteq Evaluated(s, G).evidence
  BY EvidenceType, EvidenceFrame
<1> QED BY <1>1 DEF Backed

LEMMA BackedBlock ==
  ASSUME TypeOK, Backed(disk), NEW w \in Worker, NEW s \in Snapshot, Backed(s),
         NEW b \in Blockers, NEW r, Block(w, s, b, r)
  PROVE  Backed(snap') /\ Backed(disk')
BY DEF Backed, Block, Snapshot

LEMMA BackedWorker ==
  ASSUME TypeOK, JobOK, Backed(snap), Backed(disk), NEW w \in Worker, WorkerStep(w),
         PreflightContract(w) => snap.state # "COMPLETE"
  PROVE  Backed(snap') /\ Backed(disk')
<1> USE DEF OutsideUnchanged, local, mem
<1>a. /\ snap \in Snapshot /\ disk \in Snapshot
      /\ found[w] \in SUBSET Gaps /\ retained \in SUBSET Gaps
      /\ result[w].evidence \in SUBSET Gaps
      /\ goal[w] \in DayState /\ goal[w] # "COMPLETE"
  BY Names DEF TypeOK, Results, AUTHORITY
<1>1. CASE PreflightContract(w)
  <2>1. snap' = Invalidated(snap) /\ disk' = disk /\ snap.state # "COMPLETE"
    BY <1>1 DEF PreflightContract
  <2>2. snap'.state = snap.state
    BY <2>1, <1>a, EvidenceFrame
  <2> QED BY <2>1, <2>2 DEF Backed
<1>2. CASE PreflightResolved(w)
  <2>1. /\ snap'.state = snap.state /\ snap'.evidence = snap.evidence
        /\ disk' = snap' \/ disk' = disk
    BY <1>2, <1>a DEF PreflightResolved, Snapshot
  <2> QED BY <2>1 DEF Backed
<1>3. CASE PreflightSources(w)
  BY <1>3, <1>a, BackedBlock, Names DEF PreflightSources
<1>4. CASE LoadDay(w)
  BY <1>4, <1>a, BackedMove, BackedEvidence, EvidenceType, Names DEF LoadDay
<1>5. CASE LoopStopped(w)
  BY <1>5, <1>a, BackedMove, Names DEF LoopStopped
<1>6. CASE LoopComplete(w)
  <2> DEFINE e == Evaluated(snap, found[w])
  <2>1. e \in Snapshot /\ e.gaps = {} /\ Move(w, e, "COMPLETE", "settle")
    BY <1>6, <1>a, EvidenceType DEF LoopComplete
  <2>2. \A g \in Gaps : <<g, gen[g]>> \in e.evidence /\ gen[g] \in 0..MaxGen
    <3>1. Ingested(snap, found[w]) \in Snapshot
      BY <1>a, EvidenceType
    <3> QED BY <2>1, <3>1 DEF Evaluated, Snapshot, TypeOK
  <2> HIDE DEF e
  <2>3. CASE ValidTransition(e.state, "COMPLETE")
    <3>1. snap' = [e EXCEPT !.state = "COMPLETE"] /\ disk' = snap'
      BY <2>1, <2>3 DEF Move
    <3>2. snap'.evidence = e.evidence
      BY <2>1, <3>1 DEF Snapshot
    <3> QED BY <2>2, <3>1, <3>2 DEF Backed
  <2>4. CASE ~ValidTransition(e.state, "COMPLETE")
    <3>1. snap' = e /\ disk' = disk
      BY <2>1, <2>4 DEF Move
    <3> QED BY <2>2, <3>1 DEF Backed
  <2> QED BY <2>3, <2>4
<1>7. CASE LoopOperatorResume(w)
  <2>1. Evaluated(snap, found[w]) \in Snapshot /\ Backed(Evaluated(snap, found[w]))
    BY <1>a, EvidenceType, BackedEvidence
  <2>2. \/ Move(w, Evaluated(snap, found[w]), "DIAGNOSING_GAP", "resumeRepair")
        \/ Block(w, Evaluated(snap, found[w]), "EXTERNAL", "settle")
    BY <1>7 DEF LoopOperatorResume
  <2> QED BY <2>1, <2>2, BackedMove, BackedBlock, Names
<1>8. CASE LoopDiagnose(w)
  BY <1>8, <1>a, BackedMove, BackedEvidence, EvidenceType, Names DEF LoopDiagnose
<1>9. CASE DiagnoseAuthority(w)
  BY <1>9, <1>a, BackedBlock, Names DEF DiagnoseAuthority
<1>10. CASE RouteObservedGap(w)
  <2>1. Move(w, snap, "REPAIR_SUPERVISOR", "repair") \/ Block(w, snap, "HUMAN", "reroute")
    BY <1>10 DEF RouteObservedGap
  <2> QED BY <2>1, <1>a, BackedMove, BackedBlock, Names
<1>11. CASE ResumeRepair(w)
  BY <1>11, <1>a, BackedMove, Names DEF ResumeRepair
<1>12. CASE BeginAction(w)
  <2> DEFINE s == [snap EXCEPT !.attempts[key[w]] = "STARTED"]
  <2>1. s \in Snapshot /\ Backed(s)
    BY <1>a DEF Snapshot, Outcomes, Backed
  <2>2. PICK to \in {"COLLECTING_EVIDENCE", "EXECUTING_DAY_WORK"} :
          Move(w, s, to, "run") \/ Move(w, snap, to, "run")
    BY <1>12 DEF BeginAction
  <2> HIDE DEF s
  <2> QED BY <2>1, <2>2, <1>a, BackedMove, Names
<1>13. CASE RecordResult(w)
  <2> DEFINE r == result[w]
             outcome == IF r.kind \in {"REPAIR", "NO_ORDER"} THEN "FAILED" ELSE r.kind
             i == Ingested(snap, r.evidence)
             s == [i EXCEPT !.attempts[key[w]] = outcome]
  <2>1. outcome \in Outcomes /\ r.kind \in Kinds
    BY DEF TypeOK, Results, Kinds, Outcomes
  <2>2. i \in Snapshot /\ Backed(i)
    BY <1>a, EvidenceType, BackedEvidence
  <2>3. \/ Block(w, s, r.kind, "recheck") /\ r.kind \in {"HUMAN", "EXTERNAL"}
        \/ \E p \in PCs : Move(w, s, "REPAIR_SUPERVISOR", p)
        \/ snap' = s /\ disk' = disk
    BY <1>13, Names DEF RecordResult
  <2> HIDE DEF outcome, i
  <2>4. s \in Snapshot /\ Backed(s)
    BY <2>1, <2>2 DEF Snapshot, Backed
  <2> HIDE DEF s
  <2> QED BY <2>3, <2>4, BackedMove, BackedBlock, Names
<1>14. CASE OpenRepair(w)
  <2>1. job[w] \in Gaps /\ snap' = WithItem(w) /\ disk' = snap'
    BY <1>14 DEF OpenRepair, JobOK
  <2> QED BY <2>1, RepairWrites DEF Backed
<1>15. CASE AcceptRepair(w)
  <2>1. /\ job[w] \in Gaps /\ disk' = ItemDone(w)
        /\ snap' = Ingested(ItemDone(w), result[w].evidence)
    BY <1>15 DEF AcceptRepair, JobOK
  <2>2. ItemDone(w) \in Snapshot /\ Backed(ItemDone(w))
    BY <2>1, RepairWrites DEF Backed
  <2> QED BY <2>1, <2>2, <1>a, BackedEvidence
<1>16. CASE BlockRepair(w)
  BY <1>16, <1>a, BackedBlock, Names DEF BlockRepair
<1>17. CASE Fail(w)
  BY <1>17, <1>a, BackedMove DEF Fail
<1>18. CASE Recheck(w)
  BY <1>18, <1>a, BackedMove, Names DEF Recheck
<1>19. CASE Repaired(w)
  BY <1>19, <1>a, BackedMove, Names DEF Repaired
<1>20. CASE Revalidate(w)
  BY <1>20, <1>a, BackedMove, BackedEvidence, EvidenceType, Names DEF Revalidate
<1>21. CASE StopTail(w)
  BY <1>21, <1>a DEF StopTail, Backed, Snapshot
<1>22. CASE HandleException(w)
  BY <1>22, <1>a, BackedMove, Names DEF HandleException
<1>23. CASE \/ PreflightBlocked(w) \/ DiagnoseInterrupted(w) \/ DiagnoseAction(w)
            \/ DiagnoseNothing(w) \/ RunAction(w) \/ RepairVerdict(w) \/ CatalogRefuses(w)
            \/ Settle(w) \/ Notify(w)
  <2>1. snap' = snap /\ (disk' = disk \/ disk' = snap)
    BY <1>23 DEF PreflightBlocked, DiagnoseInterrupted, DiagnoseAction, DiagnoseNothing,
      RunAction, RepairVerdict, CatalogRefuses, Settle, Notify
  <2> QED BY <2>1
<1> QED BY <1>1, <1>2, <1>3, <1>4, <1>5, <1>6, <1>7, <1>8, <1>9, <1>10, <1>11, <1>12,
           <1>13, <1>14, <1>15, <1>16, <1>17, <1>18, <1>19, <1>20, <1>21, <1>22, <1>23
       DEF WorkerStep

LEMMA BackedStep ==
  ASSUME TypeOK, JobOK, Backed(snap), Backed(disk), [Next]_vars,
         \A w \in Worker : PreflightContract(w) => snap.state # "COMPLETE"
  PROVE  Backed(snap') /\ Backed(disk')
<1>a. snap \in Snapshot /\ disk \in Snapshot /\ retained \in SUBSET Gaps
  BY DEF TypeOK
<1>1. CASE \E w \in Worker : WorkerStep(w)
  BY <1>1, BackedWorker
<1>2. CASE Request
  <2>1. ASSUME NEW b \in BOOLEAN, Launch(snap, b) PROVE Backed(snap') /\ Backed(disk')
    BY <2>1, <1>a DEF Launch, Backed, Snapshot
  <2>2. CASE Start \/ Resume \/ OperatorLaunch \/ RepairAndGo
    BY <2>1, <2>2 DEF Start, Resume, OperatorLaunch, RepairAndGo
  <2>3. CASE OperatorResume \/ Stop
    BY <2>3 DEF OperatorResume, Stop
  <2>4. CASE OperatorUnblock
    BY <2>4, <1>a DEF OperatorUnblock, Backed, Snapshot
  <2>5. CASE RegisterRetainedEvidence
    BY <2>5, <1>a, BackedEvidence DEF RegisterRetainedEvidence
  <2> QED BY <1>2, <2>2, <2>3, <2>4, <2>5 DEF Request
<1>3. CASE Restart
  <2>1. snap' = Restored(disk) /\ (disk' = snap' \/ disk' = disk)
    BY <1>3 DEF Restart
  <2>2. CASE Restored(disk).state = "COMPLETE"
    BY <2>1, <2>2, <1>a, RestoredComplete, BackedEvidence
  <2>3. CASE Restored(disk).state # "COMPLETE"
    BY <2>1, <2>3 DEF Backed
  <2> QED BY <2>2, <2>3
<1>4. CASE Environment
  BY <1>4 DEF Environment, mem
<1>5. CASE UNCHANGED vars
  BY <1>5 DEF vars, mem
<1> QED BY <1>1, <1>2, <1>3, <1>4, <1>5 DEF Next

LEMMA ContractKept ==
  ASSUME TypeOK, MaxRepo = 0, contractOK, [Next]_vars
  PROVE  contractOK'
<1>1. ASSUME NEW w \in Worker, WorkerStep(w) PROVE contractOK' = contractOK
  BY <1>1 DEF WorkerStep, OutsideUnchanged, world, PreflightContract, PreflightBlocked,
    PreflightResolved, PreflightSources, LoadDay, LoopStopped, LoopComplete,
    LoopOperatorResume, LoopDiagnose, DiagnoseInterrupted, DiagnoseAction,
    DiagnoseAuthority, DiagnoseNothing, RouteObservedGap, ResumeRepair, BeginAction,
    RunAction, RecordResult, OpenRepair, RepairVerdict, AcceptRepair, CatalogRefuses, BlockRepair,
    Fail, Recheck, Repaired, Revalidate, StopTail, HandleException, Settle, Notify
<1>2. Request => contractOK' = contractOK
  BY DEF Request, Launch, Start, Resume, OperatorResume, OperatorUnblock, OperatorLaunch,
    RepairAndGo, Stop, RegisterRetainedEvidence, world
<1>3. Environment => contractOK' = contractOK
  <2>1. ~(repo < MaxRepo)
    BY DEF TypeOK
  <2> QED BY <2>1 DEF Environment, RepositoryChanges, ArtifactChanges, ArtifactRetained,
    PrerequisiteMet, SourcesChange, ContractChanges
<1>4. Restart \/ UNCHANGED vars => contractOK' = contractOK
  BY DEF Restart, vars, world
<1> QED BY <1>1, <1>2, <1>3, <1>4 DEF Next

(* A Day is durably COMPLETE only with a durable record for every criterion.    *)
(* An eager operator needs a contract that does not change: two workers can be  *)
(* in _preflight and at completion at once, and the first would empty the       *)
(* evidence the second has just completed on.                                   *)
THEOREM CompletionBacked ==
  ASSUME ~EagerOperator \/ MaxRepo = 0
  PROVE  Spec => []CompletionIsBacked
<1>a. Init => Backed(snap) /\ Backed(disk) /\ contractOK
  BY DEF Init, EmptySnapshot, Backed
<1>b. Backed(disk) => CompletionIsBacked
  BY DEF Backed, CompletionIsBacked
<1>1. CASE ~EagerOperator
  <2>1. Controlled => \A w \in Worker : PreflightContract(w) => snap.state # "COMPLETE"
    BY StageTable DEF Controlled, Staged, PreflightContract
  <2>2. TypeOK /\ JobOK /\ Controlled /\ Backed(snap) /\ Backed(disk) /\ [Next]_vars
          => Backed(snap)' /\ Backed(disk)'
    BY <2>1, BackedStep
  <2>3. Spec => [](TypeOK /\ JobOK /\ Serial /\ Controlled /\ Repairs)
    BY <1>1, ControlInvariant
  <2> QED BY <1>a, <1>b, <2>2, <2>3, PTL DEF Spec
<1>2. CASE MaxRepo = 0
  <2>1. contractOK => \A w \in Worker : PreflightContract(w) => snap.state # "COMPLETE"
    BY DEF PreflightContract
  <2>2. TypeOK /\ JobOK /\ contractOK /\ Backed(snap) /\ Backed(disk) /\ [Next]_vars
          => contractOK' /\ Backed(snap)' /\ Backed(disk)'
    BY <1>2, <2>1, BackedStep, ContractKept
  <2> QED BY <1>a, <1>b, <2>2, TypeCorrect, PTL DEF Spec
<1> QED BY <1>1, <1>2
-----------------------------------------------------------------------------
(* A worker that goes on with a repair has an interrupted one.                  *)
Resuming == \A w \in Worker : pc[w] = "resumeRepair" => episodes[job[w]].interrupted

LEMMA ResumingStep ==
  ASSUME ~EagerOperator, TypeOK, JobOK, Serial, Controlled, Repairs, Resuming, [Next]_vars
  PROVE  Resuming'
<1> USE DEF Resuming, local
<1>a. /\ pc \in [Worker -> PCs] /\ job \in [Worker -> Gaps \cup {None}]
      /\ episodes \in [Gaps -> Episode]
  BY DEF TypeOK
<1>1. ASSUME NEW w \in Worker, WorkerStep(w) PROVE Resuming'
  <2>1. \A v \in Worker \ {w} : pc'[v] = "idle"
    BY <1>1, Alone
  <2>2. SUFFICES ASSUME pc'[w] = "resumeRepair" PROVE episodes'[job'[w]].interrupted
    BY <2>1
  <2>3. LoopOperatorResume(w) \/ DiagnoseInterrupted(w)
    BY <1>1, <2>2, <1>a DEF TypeOK, WorkerStep, PreflightContract, PreflightBlocked,
      PreflightResolved, PreflightSources, LoadDay, LoopStopped, LoopComplete,
      LoopDiagnose, DiagnoseAction, DiagnoseAuthority, DiagnoseNothing, RouteObservedGap,
      ResumeRepair, BeginAction, RunAction, RecordResult, OpenRepair, RepairVerdict,
      AcceptRepair, CatalogRefuses, BlockRepair, Fail, Recheck, Repaired, Revalidate, StopTail,
      HandleException, Settle, Notify, Move, Block, Goto
  <2>4. CASE LoopOperatorResume(w)
    BY <2>4, <1>a DEF LoopOperatorResume, Repairs, Pending
  <2>5. CASE DiagnoseInterrupted(w)
    BY <2>5, <1>a DEF DiagnoseInterrupted, Interrupted
  <2> QED BY <2>3, <2>4, <2>5
<1>2. CASE Request
  <2>1. ASSUME NEW b \in BOOLEAN, Launch(snap, b) PROVE Resuming'
    <3>1. \A w \in Worker : pc[w] = "idle"
      BY <2>1 DEF Launch, Returned
    <3>2. PICK w \in Worker : pc' = [pc EXCEPT ![w] = "preflight"]
      BY <2>1 DEF Launch, Goto
    <3> QED BY <3>1, <3>2, <1>a
  <2>2. CASE Start \/ Resume \/ OperatorLaunch \/ RepairAndGo
    BY <2>1, <2>2 DEF Start, Resume, OperatorLaunch, RepairAndGo
  <2>3. CASE OperatorResume
    BY <2>3 DEF OperatorResume, Returned
  <2>4. CASE OperatorUnblock \/ Stop \/ RegisterRetainedEvidence
    BY <2>4 DEF OperatorUnblock, Stop, RegisterRetainedEvidence
  <2> QED BY <1>2, <2>2, <2>3, <2>4 DEF Request
<1>3. CASE Restart
  BY <1>3 DEF Restart
<1>4. CASE Environment
  BY <1>4 DEF Environment
<1>5. CASE UNCHANGED vars
  BY <1>5 DEF vars
<1> QED BY <1>1, <1>2, <1>3, <1>4, <1>5 DEF Next

(* One step of a worker gives the Day no work back.                             *)
LEMMA NothingBack ==
  ASSUME TypeOK, JobOK, Serial, Controlled, Repairs, NEW w \in Worker, WorkerStep(w)
  PROVE  /\ Untried' \subseteq Untried /\ Unrepaired' \subseteq Unrepaired
         /\ Interruptions' \subseteq Interruptions
<1> USE DEF local
<1>a. /\ snap \in Snapshot /\ episodes \in [Gaps -> Episode]
      /\ job \in [Worker -> Gaps \cup {None}]
  BY DEF TypeOK
<1>1. Untried' \subseteq Untried
  BY WorkerAttempts DEF Untried
<1>2. Unrepaired' \subseteq Unrepaired
  <2>1. CASE OpenRepair(w)
    <3>1. job[w] \in Gaps /\ snap' = WithItem(w)
      BY <2>1 DEF OpenRepair, JobOK
    <3>2. \A g \in Gaps : WithItem(w).items[g] = <<>> => snap.items[g] = <<>>
      <4>1. snap.items[job[w]] \in Seq({"FAILED", "COMPLETE"})
        BY <3>1, <1>a DEF Snapshot
      <4>2. Append(snap.items[job[w]], "FAILED") # <<>>
        BY <4>1
      <4> QED BY <3>1, <4>2, RepairWrites
    <3> QED BY <3>1, <3>2 DEF Unrepaired
  <2>2. CASE AcceptRepair(w)
    <3>1. /\ job[w] \in Gaps /\ snap' = Ingested(ItemDone(w), result[w].evidence)
          /\ result[w].evidence \in SUBSET Gaps
      BY <2>2 DEF AcceptRepair, JobOK, TypeOK, Results
    <3>2. /\ ItemDone(w) \in Snapshot
          /\ \A g \in Gaps : Len(ItemDone(w).items[g]) = Len(snap.items[g])
      BY <3>1, RepairWrites
    <3>3. \A g \in Gaps : ItemDone(w).items[g] = <<>> => snap.items[g] = <<>>
      <4> TAKE g \in Gaps
      <4>1. /\ ItemDone(w).items[g] \in Seq({"FAILED", "COMPLETE"})
            /\ snap.items[g] \in Seq({"FAILED", "COMPLETE"})
        BY <3>2, <1>a DEF Snapshot
      <4> QED BY <3>2, <4>1, ItemsChanged
    <3> QED BY <3>1, <3>2, <3>3, EvidenceFrame DEF Unrepaired
  <2>3. CASE SameRepair
    BY <2>3 DEF SameRepair, Unrepaired
  <2> QED BY <2>1, <2>2, <2>3, ControlledWorker DEF Explained
<1>3. Interruptions' \subseteq Interruptions
  <2>1. CASE ResumeRepair(w)
    BY <2>1, <1>a DEF ResumeRepair, Interruptions, Episode
  <2>2. CASE OpenRepair(w)
    <3>1. job[w] \in Gaps
      BY <2>2 DEF OpenRepair, JobOK
    <3>2. PICK m \in BOOLEAN : episodes' = Supervised(w, m)
      BY <2>2 DEF OpenRepair
    <3>3. Supervised(w, m)[job[w]].interrupted => episodes[job[w]].interrupted
      <4> DEFINE n == Resumed(w) \/ snap.items[job[w]] = <<>> \/ m
                 l == episodes[job[w]].left
                        \/ (episodes[job[w]].open /\ episodes[job[w]].final = None)
      <4>1. episodes' = episodes \/ episodes'[job[w]] = NewEpisode(n, l)
        BY <3>1, <3>2, <1>a DEF Supervised
      <4>2. l \in BOOLEAN /\ n \in BOOLEAN
        BY <3>1, <1>a DEF Episode
      <4> HIDE DEF n, l
      <4> QED BY <3>2, <4>1, <4>2, NewFields
    <3> QED BY <3>1, <3>2, <3>3, SupervisedType DEF Interruptions
  <2>3. CASE RepairVerdict(w)
    BY <2>3, <1>a DEF RepairVerdict, Interruptions, Episode
  <2>4. CASE LoopOperatorResume(w) \/ AcceptRepair(w)
    BY <2>4 DEF LoopOperatorResume, AcceptRepair, Interruptions
  <2> QED BY <2>1, <2>2, <2>3, <2>4, RepairFrame DEF Interruptions
<1> QED BY <1>1, <1>2, <1>3

(* One step of a worker spends work, or is one of the few left before the next. *)
Advances(w) ==
  \/ Untried' # Untried \/ Unrepaired' # Unrepaired \/ Interruptions' # Interruptions
  \/ StepsAhead(w)' < StepsAhead(w)

LEMMA WorkerAdvances ==
  ASSUME TypeOK, JobOK, Serial, Controlled, Repairs, Resuming, NEW w \in Worker, WorkerStep(w)
  PROVE  Advances(w)
<1> USE DEF OutsideUnchanged, local, Advances
<1>a. /\ snap \in Snapshot /\ pc \in [Worker -> PCs] /\ job \in [Worker -> Gaps \cup {None}]
      /\ episodes \in [Gaps -> Episode]
      /\ found[w] \in SUBSET Gaps /\ retained \in SUBSET Gaps
      /\ goal[w] \in AUTHORITY \cup {"FAILED_UNRECOVERABLE"}
      /\ back[w] \in {"settle", "recheck", "reroute"}
      /\ result[w].evidence \in SUBSET Gaps
  BY DEF TypeOK, Results
<1>1. CASE PreflightContract(w)
  BY <1>1, <1>a DEF PreflightContract, Goto, StepsAhead
<1>2. CASE PreflightBlocked(w)
  BY <1>2, <1>a DEF PreflightBlocked, Goto, StepsAhead
<1>3. CASE PreflightResolved(w)
  BY <1>3, <1>a DEF PreflightResolved, Goto, StepsAhead
<1>4. CASE PreflightSources(w)
  BY <1>4, <1>a DEF PreflightSources, Block, Goto, StepsAhead
<1>5. CASE LoadDay(w)
  BY <1>5, <1>a DEF LoadDay, Move, Goto, StepsAhead
<1>6. CASE LoopStopped(w)
  BY <1>6, <1>a DEF LoopStopped, Move, Goto, StepsAhead
<1>7. CASE LoopComplete(w)
  BY <1>7, <1>a DEF LoopComplete, Move, Goto, StepsAhead
<1>8. CASE LoopOperatorResume(w)
  BY <1>8, <1>a DEF LoopOperatorResume, Move, Block, Goto, StepsAhead
<1>9. CASE LoopDiagnose(w)
  BY <1>9, <1>a DEF LoopDiagnose, Move, Goto, StepsAhead
<1>10. CASE DiagnoseInterrupted(w)
  BY <1>10, <1>a DEF DiagnoseInterrupted, Goto, StepsAhead
<1>11. CASE DiagnoseAction(w)
  BY <1>11, <1>a DEF DiagnoseAction, Goto, StepsAhead
<1>12. CASE DiagnoseAuthority(w)
  BY <1>12, <1>a DEF DiagnoseAuthority, Block, Goto, StepsAhead
<1>13. CASE DiagnoseNothing(w)
  BY <1>13, <1>a DEF DiagnoseNothing, Goto, StepsAhead
<1>14. CASE RouteObservedGap(w)
  <2>1. CASE \E b \in {"HUMAN"} : Block(w, snap, b, "reroute")
    BY <1>14, <2>1, <1>a DEF RouteObservedGap, Block, Goto, StepsAhead
  <2>2. CASE \A b \in {"HUMAN"} : ~Block(w, snap, b, "reroute")
    <3>1. PICK g \in snap.gaps : /\ job' = [job EXCEPT ![w] = g]
                                 /\ snap.items[g] = <<>>
                                 /\ back' = [back EXCEPT ![w] = "reroute"]
                                 /\ Move(w, snap, "REPAIR_SUPERVISOR", "repair")
      BY <1>14, <2>2 DEF RouteObservedGap, Repairable
    <3>2. g \in Gaps /\ job'[w] = g /\ pc[w] = "diagnose" /\ snap'.items = snap.items
      BY <1>14, <3>1, <1>a DEF RouteObservedGap, Move, Snapshot
    <3>3. pc'[w] \in {"repair", "except"}
      BY <3>1, <1>a DEF Move, Goto
    <3>4. StepsAhead(w) = 6
      BY <3>2 DEF StepsAhead
    <3>5. CASE pc'[w] = "repair"
      <4>1. StepsAhead(w)' = 5
        BY <3>1, <3>2, <3>5 DEF StepsAhead
      <4> QED BY <3>4, <4>1
    <3>6. CASE pc'[w] = "except"
      <4>1. StepsAhead(w)' = 3
        BY <3>6 DEF StepsAhead
      <4> QED BY <3>4, <4>1
    <3> QED BY <3>3, <3>5, <3>6
  <2> QED BY <2>1, <2>2
<1>15. CASE ResumeRepair(w)
  <2>1. CASE ValidTransition(snap.state, "REPAIR_SUPERVISOR")
    <3>1. job[w] \in Gaps /\ episodes[job[w]].interrupted /\ ~episodes'[job[w]].interrupted
      BY <1>15, <2>1, <1>a DEF ResumeRepair, JobOK, Resuming, Episode
    <3>2. job[w] \in Interruptions /\ job[w] \notin Interruptions'
      BY <3>1 DEF Interruptions
    <3> QED BY <3>2
  <2>2. CASE ~ValidTransition(snap.state, "REPAIR_SUPERVISOR")
    BY <1>15, <2>2, <1>a DEF ResumeRepair, Move, Goto, StepsAhead
  <2> QED BY <2>1, <2>2
<1>16. CASE BeginAction(w)
  <2> DEFINE to == IF Mode[Template[job[w]]] = "READ_ONLY"
                   THEN "COLLECTING_EVIDENCE" ELSE "EXECUTING_DAY_WORK"
             s == [snap EXCEPT !.attempts[key[w]] = "STARTED"]
  <2>1. pc[w] = "begin" /\ key[w] \in Keys /\ snap.attempts[key[w]] = None
    BY <1>16 DEF BeginAction, Serial, TypeOK
  <2>2. CASE ValidTransition(snap.state, to)
    <3>1. Move(w, s, to, "run") /\ s \in Snapshot /\ s.state = snap.state
          /\ s.attempts[key[w]] # None
      BY <1>16, <2>1, <2>2, <1>a DEF BeginAction, Snapshot, Outcomes, None
    <3> HIDE DEF s, to
    <3>2. snap'.attempts = s.attempts
      BY <3>1 DEF Move, Snapshot
    <3>3. key[w] \in Untried /\ key[w] \notin Untried'
      BY <2>1, <3>1, <3>2 DEF Untried
    <3> QED BY <3>3
  <2>3. CASE ~ValidTransition(snap.state, to)
    <3>1. pc'[w] = "except"
      BY <1>16, <2>3, <1>a DEF BeginAction, Move, Goto
    <3> QED BY <2>1, <3>1 DEF StepsAhead
  <2> QED BY <2>2, <2>3
<1>17. CASE RunAction(w)
  BY <1>17, <1>a DEF RunAction, Goto, StepsAhead
<1>18. CASE RecordResult(w)
  <2>1. pc[w] = "result" /\ pc'[w] \in {"fail", "repair", "recheck", "except"}
    BY <1>18, <1>a DEF RecordResult, Block, Move, Goto
  <2>2. StepsAhead(w) = 13
    BY <2>1 DEF StepsAhead
  <2>3. StepsAhead(w)' \in {3, 4, 5, 9, 12}
    BY <2>1 DEF StepsAhead
  <2> QED BY <2>2, <2>3
<1>19. CASE OpenRepair(w)
  <2>1. /\ pc[w] = "repair" /\ pc'[w] = "verdict" /\ job[w] \in Gaps
        /\ snap' = WithItem(w)
    BY <1>19, <1>a DEF OpenRepair, Goto, JobOK
  <2>2. CASE snap.items[job[w]] = <<>>
    <3>1. ~Resumed(w)
      BY <2>1, <2>2 DEF Repairs, Repairing, Pending, Failed
    <3>2. snap'.items[job[w]] = Append(<<>>, "FAILED")
      BY <2>1, <2>2, <3>1, RepairWrites
    <3>3. Append(<<>>, "FAILED") # <<>>
      OBVIOUS
    <3>4. job[w] \in Unrepaired /\ job[w] \notin Unrepaired'
      BY <2>1, <2>2, <3>2, <3>3 DEF Unrepaired
    <3> QED BY <3>4
  <2>3. CASE snap.items[job[w]] # <<>>
    BY <2>1, <2>3 DEF StepsAhead
  <2> QED BY <2>2, <2>3
<1>20. CASE RepairVerdict(w)
  BY <1>20, <1>a DEF RepairVerdict, Goto, StepsAhead
<1>21. CASE AcceptRepair(w)
  <2>1. pc[w] = "accept" /\ pc'[w] \in {"direct", "recheck", "reroute"}
    BY <1>21, <1>a DEF AcceptRepair, Resumed, Goto
  <2>2. StepsAhead(w) = 10
    BY <2>1 DEF StepsAhead
  <2>3. StepsAhead(w)' \in {3, 9}
    BY <2>1 DEF StepsAhead
  <2> QED BY <2>2, <2>3
<1>22. CASE BlockRepair(w)
  BY <1>22, <1>a DEF BlockRepair, Block, Goto, StepsAhead
<1>23. CASE Fail(w)
  <2>1. pc[w] = "fail" /\ goal[w] \notin ACTIVE
    BY <1>23, <1>a DEF Fail, AUTHORITY, ACTIVE
  <2>2. /\ pc'[w] \in {"settle", "recheck", "reroute", "except"}
        /\ pc'[w] = "except" \/ snap'.state \notin ACTIVE
    BY <1>23, <2>1, <1>a DEF Fail, Move, Goto, Snapshot
  <2>3. StepsAhead(w) = 4
    BY <2>1 DEF StepsAhead
  <2>4. StepsAhead(w)' \in {2, 3}
    BY <2>2 DEF StepsAhead
  <2> QED BY <2>3, <2>4
<1>24. CASE Recheck(w)
  <2>1. CASE snap.state \in ACTIVE
    BY <1>24, <2>1, <1>a DEF Recheck, Move, Goto, StepsAhead
  <2>2. CASE snap.state \notin ACTIVE
    BY <1>24, <2>2, <1>a DEF Recheck, Goto, StepsAhead
  <2> QED BY <2>1, <2>2
<1>25. CASE Repaired(w)
  BY <1>25, <1>a DEF Repaired, Move, Goto, StepsAhead
<1>26. CASE Revalidate(w)
  BY <1>26, <1>a DEF Revalidate, Move, Goto, StepsAhead
<1>27. CASE StopTail(w)
  BY <1>27, <1>a DEF StopTail, Goto, StepsAhead
<1>28. CASE HandleException(w)
  BY <1>28, <1>a DEF HandleException, Move, Goto, StepsAhead
<1>29. CASE Settle(w)
  BY <1>29, <1>a DEF Settle, Goto, StepsAhead
<1>30. CASE Notify(w)
  BY <1>30, <1>a DEF Notify, Goto, StepsAhead
<1>31. CASE CatalogRefuses(w)
  BY <1>31, <1>a DEF CatalogRefuses, Goto, StepsAhead
<1> QED BY <1>1, <1>2, <1>3, <1>4, <1>5, <1>6, <1>7, <1>8, <1>9, <1>10, <1>11, <1>12, <1>13, <1>14, <1>15, <1>16, <1>17, <1>18, <1>19, <1>20, <1>21, <1>22, <1>23, <1>24, <1>25, <1>26, <1>27, <1>28, <1>29, <1>30, <1>31 DEF WorkerStep

(* Nothing else happens to a worker that is under way: requests that would give *)
(* the Day work wait for it, and the others leave its place and its work alone. *)
LEMMA WorkKept ==
  ASSUME ~EagerOperator, TypeOK, Serial, NEW w \in Worker, pc[w] # "idle",
         Request \/ Environment \/ UNCHANGED vars
  PROVE  /\ Untried' = Untried /\ Unrepaired' = Unrepaired /\ Interruptions' = Interruptions
         /\ pc' = pc /\ StepsAhead(w)' = StepsAhead(w)
<1>1. ~Returned /\ lockHolder = None
  BY DEF Returned, Serial
<1>2. /\ snap'.attempts = snap.attempts /\ snap'.items = snap.items
      /\ snap'.state = snap.state /\ UNCHANGED <<pc, episodes, job>>
  <2>1. CASE Request
    <3>1. Stop \/ RegisterRetainedEvidence
      BY <1>1, <2>1 DEF Request, Start, Resume, OperatorResume, OperatorUnblock,
        OperatorLaunch, RepairAndGo, Launch, None
    <3>2. CASE Stop
      BY <3>2 DEF Stop, local
    <3>3. CASE RegisterRetainedEvidence
      BY <3>3, EvidenceType, EvidenceFrame DEF RegisterRetainedEvidence, local, TypeOK
    <3> QED BY <3>1, <3>2, <3>3
  <2>2. CASE Environment
    BY <2>2 DEF Environment, mem, local
  <2>3. CASE UNCHANGED vars
    BY <2>3 DEF vars, local
  <2> QED BY <2>1, <2>2, <2>3
<1> QED BY <1>2 DEF Untried, Unrepaired, Interruptions, StepsAhead

(* The loop of diagnosis, actions and repair runs out: while a worker is under  *)
(* way nothing gives the Day more work, and each step of the worker spends some *)
(* or is one of at most fourteen that are left without.  This is what remains   *)
(* of WorkerReturns when fairness is taken away; the assumption is needed, for  *)
(* an eager operator launches a second worker beside the first.                 *)
THEOREM RunsOut ==
  ASSUME ~EagerOperator
  PROVE  Spec => WorkRunsOut
<1>1. Init => Resuming
  BY DEF Init, Resuming
<1>2. TypeOK /\ JobOK /\ Serial /\ Controlled /\ Repairs /\ Resuming /\ [Next]_vars => Resuming'
  BY ResumingStep
<1> DEFINE Spends(w) ==
             pc[w] # "idle" /\ crashes' = crashes =>
               /\ Untried' \subseteq Untried /\ Unrepaired' \subseteq Unrepaired
               /\ Interruptions' \subseteq Interruptions
               /\ \/ UNCHANGED <<pc, StepsAhead(w)>>
                  \/ ~UNCHANGED <<Untried, Unrepaired, Interruptions>>
                  \/ StepsAhead(w)' < StepsAhead(w)
<1>3. ASSUME TypeOK, JobOK, Serial, Controlled, Repairs, Resuming, [Next]_vars
      PROVE  \A w \in Worker : Spends(w)
  <2> SUFFICES ASSUME NEW w \in Worker, pc[w] # "idle", crashes' = crashes PROVE Spends(w)
    OBVIOUS
  <2>1. CASE \E v \in Worker : WorkerStep(v)
    <3>1. WorkerStep(w)
      BY <1>3, <2>1, Alone
    <3>2. Advances(w)
      BY <1>3, <3>1, WorkerAdvances
    <3> QED BY <1>3, <3>1, <3>2, NothingBack DEF Advances
  <2>2. CASE Restart
    BY <1>3, <2>2 DEF Restart, TypeOK
  <2>3. CASE Request \/ Environment \/ UNCHANGED vars
    BY <1>3, <2>3, WorkKept
  <2> QED BY <1>3, <2>1, <2>2, <2>3 DEF Next
<1>4. TypeOK /\ JobOK /\ Serial /\ Controlled /\ Repairs /\ Resuming /\ [Next]_vars
        => [\A w \in Worker : Spends(w)]_vars
  BY <1>3
<1> QED BY <1>1, <1>2, <1>4, ControlInvariant, PTL DEF Spec, WorkRunsOut
=============================================================================
