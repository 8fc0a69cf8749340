------------------------ MODULE DayController_proofs -------------------------
(* Type correctness of DayController, and what its attempt log guarantees for   *)
(* every choice of gaps, templates, workers and bounds.                         *)
EXTENDS DayController, SequenceTheorems, TLAPS

LEMMA SomeKeyType == SomeKey \in Keys
<1>1. PICK t \in Templates : TRUE
  BY ConstantsAssumption
<1>2. <<t, 0, 0>> \in Keys
  BY ConstantsAssumption DEF Keys
<1> QED BY <1>2 DEF SomeKey

LEMMA EvidenceType ==
  ASSUME TypeOK, NEW s \in Snapshot, NEW G \in SUBSET Gaps
  PROVE  /\ Ingested(s, G) \in Snapshot /\ Evaluated(s, G) \in Snapshot
         /\ Invalidated(s) \in Snapshot
         /\ Ingested(s, G).attempts = s.attempts
         /\ Evaluated(s, G).attempts = s.attempts
         /\ Invalidated(s).attempts = s.attempts
         /\ Ingested(s, G).state = s.state
         /\ Evaluated(s, G).state = s.state
<1>1. {<<g, gen[g]>> : g \in G} \subseteq Records
  BY DEF TypeOK, Records
<1>2. Ingested(s, G) \in Snapshot /\ Ingested(s, G).attempts = s.attempts
      /\ Ingested(s, G).state = s.state
  BY <1>1 DEF Ingested, Snapshot
<1>3. Evaluated(s, G) \in Snapshot /\ Evaluated(s, G).attempts = s.attempts
      /\ Evaluated(s, G).state = s.state
  BY <1>2 DEF Evaluated, Snapshot
<1>4. Invalidated(s) \in Snapshot /\ Invalidated(s).attempts = s.attempts
  BY DEF Invalidated, Snapshot, StopReasons
<1> QED BY <1>2, <1>3, <1>4

(* Names of states, of program counters and of blockers.                        *)
LEMMA Names ==
  /\ {"idle", "preflight", "sources", "load", "inventory", "validating", "loop",
      "diagnose", "resumeRepair", "begin", "run", "result", "repair", "verdict",
      "accept", "block", "fail", "recheck", "reroute", "direct", "reval", "stopTail",
      "except", "settle", "notify"} \subseteq PCs
  /\ {"IDLE", "PAUSED", "STOPPED", "COMPLETE", "FAILED_UNRECOVERABLE", "PREFLIGHT",
      "LOADING_CONTRACT", "INVENTORY", "VALIDATING", "DIAGNOSING_GAP",
      "COLLECTING_EVIDENCE", "EXECUTING_DAY_WORK", "REPAIR_SUPERVISOR",
      "REVALIDATING", "HUMAN_ACTION_REQUIRED", "EXTERNAL_ACTION_REQUIRED"}
       \subseteq DayState
  /\ AUTHORITY \subseteq DayState
  /\ {"HUMAN", "EXTERNAL", "SOURCES", "REVIEW"} \subseteq Blockers
<1>1. {"IDLE", "PAUSED", "STOPPED", "COMPLETE", "FAILED_UNRECOVERABLE", "PREFLIGHT",
       "LOADING_CONTRACT", "INVENTORY", "VALIDATING", "DIAGNOSING_GAP",
       "COLLECTING_EVIDENCE", "EXECUTING_DAY_WORK", "REPAIR_SUPERVISOR",
       "REVALIDATING", "HUMAN_ACTION_REQUIRED", "EXTERNAL_ACTION_REQUIRED"}
        \subseteq DayState
  BY DEF DayState, ACTIVE, AUTHORITY, RESTING
<1>2. AUTHORITY \subseteq DayState
  BY DEF DayState
<1>3. {"HUMAN", "EXTERNAL", "SOURCES", "REVIEW"} \subseteq Blockers
  BY DEF Blockers
<1>4. {"idle", "preflight", "sources", "load", "inventory", "validating", "loop",
       "diagnose", "resumeRepair", "begin", "run", "result", "repair", "verdict",
       "accept", "block", "fail", "recheck", "reroute", "direct", "reval", "stopTail",
       "except", "settle", "notify"} \subseteq PCs
  BY DEF PCs
<1> QED BY <1>1, <1>2, <1>3, <1>4

(* _transition and _terminal_blocker write snapshots of the right type and keep   *)
(* the log of attempts.                                                         *)
LEMMA MoveType ==
  ASSUME TypeOK, NEW w \in Worker, NEW s \in Snapshot, NEW to \in DayState,
         NEW p \in PCs, Move(w, s, to, p)
  PROVE  /\ snap' \in Snapshot /\ disk' \in Snapshot /\ pc' \in [Worker -> PCs]
         /\ snap'.attempts = s.attempts
         /\ disk' = snap' \/ disk' = disk
<1>1. pc' \in [Worker -> PCs]
  BY Names DEF TypeOK, Move, Goto
<1>2. CASE ValidTransition(s.state, to)
  BY <1>1, <1>2 DEF Move, Snapshot
<1>3. CASE ~ValidTransition(s.state, to)
  BY <1>1, <1>3 DEF TypeOK, Move
<1> QED BY <1>2, <1>3

LEMMA BlockType ==
  ASSUME TypeOK, NEW w \in Worker, NEW s \in Snapshot, NEW b \in Blockers,
         NEW r \in {"settle", "recheck", "reroute"}, Block(w, s, b, r)
  PROVE  /\ snap' \in Snapshot /\ disk' = disk /\ pc' \in [Worker -> PCs]
         /\ snap'.attempts = s.attempts
         /\ resolved' \in BOOLEAN
         /\ goal' \in [Worker -> AUTHORITY \cup {"FAILED_UNRECOVERABLE"}]
         /\ back' \in [Worker -> {"settle", "recheck", "reroute"}]
<1>1. pc' \in [Worker -> PCs] /\ resolved' \in BOOLEAN
  BY Names DEF TypeOK, Block, Goto
<1>2. snap' \in Snapshot /\ disk' = disk /\ snap'.attempts = s.attempts
  BY DEF Block, Snapshot
<1>3. /\ goal' \in [Worker -> AUTHORITY \cup {"FAILED_UNRECOVERABLE"}]
      /\ back' \in [Worker -> {"settle", "recheck", "reroute"}]
  BY DEF TypeOK, Block, TerminalState, AUTHORITY
<1> QED BY <1>1, <1>2, <1>3

(* A worker that acts or repairs has an evidence type to act for, and the action *)
(* has a template.  TypeOK is inductive only together with this.                *)
JobOK ==
  \A w \in Worker :
    /\ pc[w] \in {"begin", "run", "result"} =>
         job[w] \in Gaps /\ Template[job[w]] \in Templates
    /\ pc[w] \in {"resumeRepair", "repair", "verdict", "accept", "block"} => job[w] \in Gaps

LEMMA Defaults ==
  /\ NoResult \in Results /\ NoEpisode \in Episode /\ None \in Finals
  /\ \A m, l \in BOOLEAN : NewEpisode(m, l) \in Episode
<1>1. NoResult \in Results
  BY DEF NoResult, Results, Kinds
<1>2. NoEpisode \in Episode
  BY DEF NoEpisode, Episode, Finals
<1>3. \A m, l \in BOOLEAN : NewEpisode(m, l) \in Episode
  BY <1>2 DEF NewEpisode, Episode
<1> QED BY <1>1, <1>2, <1>3 DEF Finals

(* Appending to the items of a strategy, and completing one of them.            *)
LEMMA ItemsChanged ==
  ASSUME NEW q \in Seq({"FAILED", "COMPLETE"}), NEW i
  PROVE  /\ Append(q, "FAILED") \in Seq({"FAILED", "COMPLETE"})
         /\ Append(q, "FAILED")[Len(q) + 1] = "FAILED"
         /\ Len(q) + 1 \in DOMAIN Append(q, "FAILED")
         /\ Len(Append(q, "FAILED")) = Len(q) + 1
         /\ [q EXCEPT ![i] = "COMPLETE"] \in Seq({"FAILED", "COMPLETE"})
         /\ Len([q EXCEPT ![i] = "COMPLETE"]) = Len(q)
         /\ DOMAIN q = 1..Len(q) /\ Len(q) \in Nat
         /\ q = <<>> <=> Len(q) = 0
<1>1. DOMAIN q = 1..Len(q) /\ Len(q) \in Nat
  OBVIOUS
<1>2. q \in [1..Len(q) -> {"FAILED", "COMPLETE"}]
  BY LenProperties
<1>3. [q EXCEPT ![i] = "COMPLETE"] \in [1..Len(q) -> {"FAILED", "COMPLETE"}]
  BY <1>2
<1>4. [q EXCEPT ![i] = "COMPLETE"] \in Seq({"FAILED", "COMPLETE"})
      /\ Len([q EXCEPT ![i] = "COMPLETE"]) = Len(q)
  <2>1. [q EXCEPT ![i] = "COMPLETE"] \in Seq({"FAILED", "COMPLETE"})
    BY <1>1, <1>3, SeqDef
  <2> QED BY <1>1, <1>3, <2>1, LenProperties
<1>5. q = <<>> <=> Len(q) = 0
  BY EmptySeq
<1> QED BY <1>1, <1>4, <1>5, AppendProperties

(* What _supervise_repair and _accept_repair write to the snapshot.             *)
LEMMA RepairWrites ==
  ASSUME TypeOK, NEW w \in Worker, job[w] \in Gaps
  PROVE  /\ WithItem(w) \in Snapshot /\ ItemDone(w) \in Snapshot
         /\ WithItem(w).attempts = snap.attempts /\ ItemDone(w).attempts = snap.attempts
         /\ WithItem(w).state = snap.state /\ ItemDone(w).state = snap.state
         /\ WithItem(w).blocker = snap.blocker /\ ItemDone(w).blocker = snap.blocker
         /\ WithItem(w).evidence = snap.evidence /\ ItemDone(w).evidence = snap.evidence
         /\ WithItem(w).lastEpisode = job[w] /\ ItemDone(w).lastEpisode = snap.lastEpisode
         /\ \A g \in Gaps \ {job[w]} : /\ WithItem(w).items[g] = snap.items[g]
                                       /\ ItemDone(w).items[g] = snap.items[g]
         /\ WithItem(w).items[job[w]] = IF Resumed(w) THEN snap.items[job[w]]
                                        ELSE Append(snap.items[job[w]], "FAILED")
         /\ Len(ItemDone(w).items[job[w]]) = Len(snap.items[job[w]])
<1> DEFINE i == IF Resumed(w) THEN 1 ELSE Len(snap.items[job[w]])
           q == snap.items[job[w]]
           a == IF Resumed(w) THEN q ELSE Append(q, "FAILED")
           c == [q EXCEPT ![i] = "COMPLETE"]
<1>1. snap \in Snapshot /\ snap.items \in [Gaps -> Seq({"FAILED", "COMPLETE"})]
  BY DEF TypeOK, Snapshot
<1>2. a \in Seq({"FAILED", "COMPLETE"}) /\ c \in Seq({"FAILED", "COMPLETE"}) /\ Len(c) = Len(q)
  BY <1>1, ItemsChanged
<1>3. WithItem(w) = [snap EXCEPT !.lastEpisode = job[w], !.items = [@ EXCEPT ![job[w]] = a]]
  BY <1>1 DEF WithItem, Snapshot
<1>4. ItemDone(w) = [snap EXCEPT !.items = [@ EXCEPT ![job[w]] = c]]
  BY <1>1 DEF ItemDone, Snapshot
<1> HIDE DEF a, c, i
<1>5. /\ [snap.items EXCEPT ![job[w]] = a] \in [Gaps -> Seq({"FAILED", "COMPLETE"})]
      /\ [snap.items EXCEPT ![job[w]] = c] \in [Gaps -> Seq({"FAILED", "COMPLETE"})]
  BY <1>1, <1>2
<1>6. WithItem(w) \in Snapshot /\ ItemDone(w) \in Snapshot
  BY <1>1, <1>3, <1>4, <1>5 DEF Snapshot
<1>7. /\ WithItem(w).attempts = snap.attempts /\ ItemDone(w).attempts = snap.attempts
      /\ WithItem(w).state = snap.state /\ ItemDone(w).state = snap.state
      /\ WithItem(w).blocker = snap.blocker /\ ItemDone(w).blocker = snap.blocker
      /\ WithItem(w).evidence = snap.evidence /\ ItemDone(w).evidence = snap.evidence
      /\ WithItem(w).lastEpisode = job[w] /\ ItemDone(w).lastEpisode = snap.lastEpisode
  BY <1>1, <1>3, <1>4 DEF Snapshot
<1>8. /\ WithItem(w).items = [snap.items EXCEPT ![job[w]] = a]
      /\ ItemDone(w).items = [snap.items EXCEPT ![job[w]] = c]
  BY <1>1, <1>3, <1>4 DEF Snapshot
<1>9. /\ \A g \in Gaps \ {job[w]} : /\ WithItem(w).items[g] = snap.items[g]
                                   /\ ItemDone(w).items[g] = snap.items[g]
      /\ WithItem(w).items[job[w]] = a
      /\ ItemDone(w).items[job[w]] = c
  BY <1>1, <1>8
<1> QED BY <1>2, <1>6, <1>7, <1>9 DEF a

(* What _supervise_repair makes of the episodes: the one of its own strategy    *)
(* goes on or is opened anew, the others stay.                                  *)
LEMMA SupervisedType ==
  ASSUME TypeOK, NEW w \in Worker, job[w] \in Gaps, NEW m \in BOOLEAN
  PROVE  /\ Supervised(w, m) \in [Gaps -> Episode]
         /\ \A g \in Gaps \ {job[w]} : Supervised(w, m)[g] = episodes[g]
<1> DEFINE g == job[w]
           n == NewEpisode(Resumed(w) \/ snap.items[g] = <<>> \/ m,
                           episodes[g].left \/ (episodes[g].open /\ episodes[g].final = None))
<1>1. episodes \in [Gaps -> Episode] /\ episodes[g] \in Episode
  BY DEF TypeOK
<1>2. n \in Episode
  <2>1. /\ (Resumed(w) \/ snap.items[g] = <<>> \/ m) \in BOOLEAN
        /\ (episodes[g].left \/ (episodes[g].open /\ episodes[g].final = None)) \in BOOLEAN
    OBVIOUS
  <2> QED BY <2>1, Defaults
<1>3. Supervised(w, m) = episodes \/ Supervised(w, m) = [episodes EXCEPT ![g] = n]
  BY DEF Supervised
<1> HIDE DEF n
<1> QED BY <1>1, <1>2, <1>3

(* Whatever a worker does, every variable keeps its type.                       *)
LEMMA WorkerType ==
  ASSUME TypeOK, JobOK, NEW w \in Worker, WorkerStep(w)
  PROVE  TypeOK'
<1> USE DEF OutsideUnchanged, local, world, mem
<1>a. /\ snap \in Snapshot /\ disk \in Snapshot
      /\ pc \in [Worker -> PCs] /\ pc[w] \in PCs
      /\ goal[w] \in DayState
      /\ back[w] \in {"settle", "recheck", "reroute"} /\ back[w] \in PCs
      /\ job[w] \in Gaps \cup {None}
      /\ found[w] \subseteq Gaps /\ retained \subseteq Gaps
      /\ result[w].evidence \subseteq Gaps
      /\ result[w].kind \in Kinds
      /\ snap.gaps \subseteq Gaps /\ snap.blocker \in Blockers /\ snap.auth \in 0..MaxAuth
      /\ 0 \in 0..MaxRepo
  BY ConstantsAssumption, Names DEF TypeOK, Results, Snapshot
<1>b. \A s \in Snapshot, G \in SUBSET Gaps :
        Ingested(s, G) \in Snapshot /\ Evaluated(s, G) \in Snapshot /\ Invalidated(s) \in Snapshot
  BY EvidenceType
<1>1. CASE PreflightContract(w)
  <2>1. snap' \in Snapshot /\ disk' \in Snapshot /\ pc' \in [Worker -> PCs]
    BY <1>1, <1>a, <1>b, Names DEF PreflightContract, Goto
  <2> QED BY <2>1, <1>a, SomeKeyType, Defaults, <1>1 DEF TypeOK, PreflightContract, Forget
<1>2. CASE PreflightBlocked(w)
  <2>1. snap' \in Snapshot /\ disk' \in Snapshot /\ pc' \in [Worker -> PCs]
    BY <1>2, <1>a, Names DEF PreflightBlocked, Goto
  <2> QED BY <2>1, <1>a, SomeKeyType, Defaults, <1>2 DEF TypeOK, PreflightBlocked, Forget, TerminalState, AUTHORITY
<1>3. CASE PreflightResolved(w)
  <2>0. snap.auth + 1 \in 0..MaxAuth \/ snap.blocker = None
    BY <1>3, <1>a, ConstantsAssumption DEF PreflightResolved, BlockerResolved
  <2>1. [snap EXCEPT !.blocker = None, !.auth = @ + 1] \in Snapshot
        \/ snap.blocker = None
    BY <2>0, <1>a DEF Snapshot, Blockers
  <2>2. snap' \in Snapshot /\ disk' \in Snapshot /\ pc' \in [Worker -> PCs]
    BY <1>3, <2>1, <1>a, Names DEF PreflightResolved, Goto
  <2> QED BY <2>2, <1>a, <1>3 DEF TypeOK, PreflightResolved
<1>4. CASE PreflightSources(w)
  <2>1. snap' \in Snapshot /\ disk' \in Snapshot /\ pc' \in [Worker -> PCs]
    BY <1>4, <1>a, Names, BlockType DEF PreflightSources, Goto, TypeOK
  <2>2. resolved' \in BOOLEAN
        /\ goal' \in [Worker -> AUTHORITY \cup {"FAILED_UNRECOVERABLE"}] /\ back' \in [Worker -> {"settle", "recheck", "reroute"}]
    BY <1>4, <1>a, Names, BlockType DEF PreflightSources, Goto, TypeOK
  <2> QED BY <2>1, <2>2, <1>a, SomeKeyType, Defaults, <1>4 DEF TypeOK, PreflightSources
<1>5. CASE LoadDay(w)
  <2>1. snap' \in Snapshot /\ disk' \in Snapshot /\ pc' \in [Worker -> PCs]
    BY <1>5, <1>a, <1>b, Names, MoveType DEF LoadDay
  <2> QED BY <2>1, <1>a, SomeKeyType, Defaults, <1>5 DEF TypeOK, LoadDay, Forget
<1>6. CASE LoopStopped(w)
  <2>1. snap' \in Snapshot /\ disk' \in Snapshot /\ pc' \in [Worker -> PCs]
    BY <1>6, <1>a, <1>b, Names, MoveType DEF LoopStopped
  <2> QED BY <2>1, <1>a, SomeKeyType, Defaults, <1>6 DEF TypeOK, LoopStopped, Forget
<1>7. CASE LoopComplete(w)
  <2>1. snap' \in Snapshot /\ disk' \in Snapshot /\ pc' \in [Worker -> PCs]
    BY <1>7, <1>a, <1>b, Names, MoveType DEF LoopComplete
  <2> QED BY <2>1, <1>a, SomeKeyType, Defaults, <1>7 DEF TypeOK, LoopComplete, Forget
<1>8. CASE LoopOperatorResume(w)
  <2>1. snap' \in Snapshot /\ disk' \in Snapshot /\ pc' \in [Worker -> PCs]
    BY <1>8, <1>a, <1>b, Names, MoveType, BlockType DEF LoopOperatorResume, TypeOK
  <2>2. resolved' \in BOOLEAN
        /\ goal' \in [Worker -> AUTHORITY \cup {"FAILED_UNRECOVERABLE"}] /\ back' \in [Worker -> {"settle", "recheck", "reroute"}]
    BY <1>8, <1>a, <1>b, Names, MoveType, BlockType DEF LoopOperatorResume, TypeOK
  <2> QED BY <2>1, <2>2, <1>a, SomeKeyType, Defaults, <1>8 DEF TypeOK, LoopOperatorResume
<1>9. CASE LoopDiagnose(w)
  <2>1. snap' \in Snapshot /\ disk' \in Snapshot /\ pc' \in [Worker -> PCs]
    BY <1>9, <1>a, <1>b, Names, MoveType DEF LoopDiagnose
  <2> QED BY <2>1, <1>a, SomeKeyType, Defaults, <1>9 DEF TypeOK, LoopDiagnose, Forget
<1>10. CASE DiagnoseInterrupted(w)
  <2>1. snap' \in Snapshot /\ disk' \in Snapshot /\ pc' \in [Worker -> PCs]
    BY <1>10, <1>a, Names DEF DiagnoseInterrupted, Goto
  <2> QED BY <2>1, <1>a, SomeKeyType, Defaults, <1>10 DEF TypeOK, DiagnoseInterrupted, Forget, Snapshot
<1>11. CASE DiagnoseAction(w)
  <2>1. snap' \in Snapshot /\ disk' \in Snapshot /\ pc' \in [Worker -> PCs]
    BY <1>11, <1>a, Names DEF DiagnoseAction, Goto
  <2>2. PICK g \in Selected(snap, inv[w]) :
          /\ job' = [job EXCEPT ![w] = g]
          /\ key' = [key EXCEPT ![w] = <<Template[g], inv[w], snap.auth>>]
    BY <1>11 DEF DiagnoseAction
  <2>3. g \in Gaps /\ Template[g] \in Templates
    BY <1>a, ConstantsAssumption DEF Selected, Candidates, Snapshot
  <2>4. <<Template[g], inv[w], snap.auth>> \in Keys
    BY <2>3, <1>a DEF Keys, TypeOK, Snapshot
  <2> QED BY <2>1, <2>2, <2>3, <2>4, <1>a, <1>11 DEF TypeOK, DiagnoseAction
<1>12. CASE DiagnoseAuthority(w)
  <2>1. snap' \in Snapshot /\ disk' \in Snapshot /\ pc' \in [Worker -> PCs]
    BY <1>12, <1>a, Names, BlockType DEF DiagnoseAuthority
  <2>2. resolved' \in BOOLEAN
        /\ goal' \in [Worker -> AUTHORITY \cup {"FAILED_UNRECOVERABLE"}] /\ back' \in [Worker -> {"settle", "recheck", "reroute"}]
    BY <1>12, <1>a, Names, BlockType DEF DiagnoseAuthority
  <2> QED BY <2>1, <2>2, <1>a, SomeKeyType, Defaults, <1>12 DEF TypeOK, DiagnoseAuthority
<1>13. CASE DiagnoseNothing(w)
  <2>1. snap' \in Snapshot /\ disk' \in Snapshot /\ pc' \in [Worker -> PCs]
    BY <1>13, <1>a, Names DEF DiagnoseNothing, Goto
  <2> QED BY <2>1, <1>a, SomeKeyType, Defaults, <1>13 DEF TypeOK, DiagnoseNothing, Forget
<1>14. CASE RouteObservedGap(w)
  <2>1. snap' \in Snapshot /\ disk' \in Snapshot /\ pc' \in [Worker -> PCs]
    BY <1>14, <1>a, Names, MoveType, BlockType DEF RouteObservedGap, TypeOK
  <2>2. resolved' \in BOOLEAN
        /\ goal' \in [Worker -> AUTHORITY \cup {"FAILED_UNRECOVERABLE"}] /\ back' \in [Worker -> {"settle", "recheck", "reroute"}]
    BY <1>14, <1>a, Names, MoveType, BlockType DEF RouteObservedGap, TypeOK
  <2> QED BY <2>1, <2>2, <1>a, SomeKeyType, Defaults, <1>14 DEF TypeOK, RouteObservedGap
<1>15. CASE ResumeRepair(w)
  <2>1. snap' \in Snapshot /\ disk' \in Snapshot /\ pc' \in [Worker -> PCs]
    BY <1>15, <1>a, <1>b, Names, MoveType DEF ResumeRepair
  <2>2. episodes' \in [Gaps -> Episode]
    BY <1>15 DEF ResumeRepair, TypeOK, Episode
  <2> QED BY <2>1, <2>2, <1>a, <1>15 DEF TypeOK, ResumeRepair
<1>16. CASE BeginAction(w)
  <2>1. [snap EXCEPT !.attempts[key[w]] = "STARTED"] \in Snapshot
    BY <1>a DEF Snapshot, Outcomes
  <2>2. CASE Mode[Template[job[w]]] = "READ_ONLY"
    BY <1>16, <2>1, <2>2, <1>a, Names, MoveType DEF BeginAction, TypeOK
  <2>3. CASE Mode[Template[job[w]]] # "READ_ONLY"
    BY <1>16, <2>1, <2>3, <1>a, Names, MoveType DEF BeginAction, TypeOK
  <2> QED BY <2>2, <2>3
<1>17. CASE RunAction(w)
  <2>1. snap' \in Snapshot /\ disk' \in Snapshot /\ pc' \in [Worker -> PCs]
    BY <1>17, <1>a, Names DEF RunAction, Goto
  <2>2. PICK k \in Kinds, E \in SUBSET Produces[Template[job[w]]] :
          result' = [result EXCEPT ![w] = [kind |-> k, evidence |-> E]]
    BY <1>17 DEF RunAction
  <2>3. [kind |-> k, evidence |-> E] \in Results
    BY <1>17, ConstantsAssumption DEF RunAction, JobOK, Results
  <2>4. result' \in [Worker -> Results]
    BY <2>2, <2>3 DEF TypeOK
  <2>5. execs' \in [Keys -> 0..2]
    BY <1>17 DEF RunAction, TypeOK
  <2> QED BY <2>1, <2>4, <2>5, <1>a, <1>17 DEF TypeOK, RunAction
<1>18. CASE RecordResult(w)
  <2> DEFINE r == result[w]
             outcome == IF r.kind \in {"REPAIR", "NO_ORDER"} THEN "FAILED" ELSE r.kind
             s == [Ingested(snap, r.evidence) EXCEPT !.attempts[key[w]] = outcome]
  <2>1. outcome \in Outcomes
    BY <1>a DEF Outcomes, Kinds
  <2>2. s \in Snapshot
    BY <2>1, <1>a, <1>b DEF Snapshot
  <2> HIDE DEF s
  <2>3. CASE r.kind \in {"HUMAN", "EXTERNAL"}
    <3>1. Block(w, s, r.kind, "recheck")
      BY <1>18, <2>3 DEF RecordResult, s
    <3>2. snap' \in Snapshot /\ disk' \in Snapshot /\ pc' \in [Worker -> PCs] /\ resolved' \in BOOLEAN
          /\ goal' \in [Worker -> AUTHORITY \cup {"FAILED_UNRECOVERABLE"}] /\ back' \in [Worker -> {"settle", "recheck", "reroute"}]
      BY <3>1, <2>2, <2>3, <1>a, Names, BlockType
    <3> QED BY <3>2, <1>18 DEF TypeOK, RecordResult
  <2>4. CASE r.kind \in {"REPAIR", "NO_ORDER"}
    <3>1. /\ Move(w, s, "REPAIR_SUPERVISOR",
                  IF r.kind = "REPAIR" THEN "repair" ELSE "recheck")
          /\ back' = [back EXCEPT ![w] = "recheck"] /\ UNCHANGED <<resolved, goal>>
      BY <1>18, <2>4 DEF RecordResult, s
    <3>2. snap' \in Snapshot /\ disk' \in Snapshot /\ pc' \in [Worker -> PCs]
      BY <3>1, <2>2, <1>a, Names, MoveType
    <3> QED BY <3>1, <3>2, <1>18 DEF TypeOK, RecordResult
  <2>5. CASE r.kind \notin {"HUMAN", "EXTERNAL", "REPAIR", "NO_ORDER"}
    <3>1. snap' = s /\ Goto(w, "recheck") /\ UNCHANGED <<disk, resolved, goal, back>>
      BY <1>18, <2>5 DEF RecordResult, s
    <3> QED BY <3>1, <2>2, <1>a, <1>18, Names DEF TypeOK, RecordResult, Goto
  <2> QED BY <2>3, <2>4, <2>5
<1>19. CASE OpenRepair(w)
  <2>0. job[w] \in Gaps
    BY <1>19 DEF OpenRepair, JobOK
  <2>1. snap' \in Snapshot /\ disk' \in Snapshot /\ pc' \in [Worker -> PCs]
    BY <1>19, <1>a, <2>0, RepairWrites, Names DEF OpenRepair, Goto
  <2>2. PICK m \in BOOLEAN : episodes' = Supervised(w, m)
    BY <1>19 DEF OpenRepair
  <2>3. episodes' \in [Gaps -> Episode]
    BY <2>0, <2>2, SupervisedType
  <2> QED BY <2>1, <2>3, <1>a, <1>19 DEF TypeOK, OpenRepair
<1>20. CASE RepairVerdict(w)
  <2>1. snap' \in Snapshot /\ disk' \in Snapshot /\ pc' \in [Worker -> PCs]
    BY <1>20, <1>a, Names DEF RepairVerdict, Goto
  <2>2. PICK v \in Finals \ {None} : episodes' = [episodes EXCEPT ![job[w]].final = v]
    BY <1>20 DEF RepairVerdict
  <2>3. episodes' \in [Gaps -> Episode]
    <3>1. episodes \in [Gaps -> Episode]
      BY DEF TypeOK
    <3>2. \A g \in Gaps : [episodes[g] EXCEPT !.final = v] \in Episode
      BY <3>1 DEF Episode
    <3> QED BY <2>2, <3>1, <3>2
  <2>4. PICK E \in SUBSET (IF Template[job[w]] = NoTemplate THEN {}
                           ELSE Produces[Template[job[w]]]) :
          result' = [result EXCEPT ![w] = [kind |-> "DONE", evidence |-> E]]
    BY <1>20 DEF RepairVerdict
  <2>5. job[w] \in Gaps
    BY <1>20 DEF RepairVerdict, JobOK
  <2>6. E \subseteq Gaps
    BY <2>5, ConstantsAssumption
  <2>7. [kind |-> "DONE", evidence |-> E] \in Results
    BY <2>6 DEF Results, Kinds
  <2>8. result' \in [Worker -> Results]
    BY <2>4, <2>7 DEF TypeOK
  <2> QED BY <2>1, <2>3, <2>8, <1>a, <1>20 DEF TypeOK, RepairVerdict
<1>21. CASE AcceptRepair(w)
  <2>1. snap' \in Snapshot /\ disk' \in Snapshot /\ pc' \in [Worker -> PCs]
    <3>1. job[w] \in Gaps
      BY <1>21 DEF AcceptRepair, JobOK
    <3> QED BY <1>21, <1>a, <1>b, <3>1, RepairWrites, Names DEF AcceptRepair, Goto
  <2> QED BY <2>1, <1>a, SomeKeyType, Defaults, <1>21 DEF TypeOK, AcceptRepair, Forget
<1>22. CASE BlockRepair(w)
  <2>1. snap' \in Snapshot /\ disk' \in Snapshot /\ pc' \in [Worker -> PCs]
    BY <1>22, <1>a, Names, BlockType DEF BlockRepair
  <2>2. resolved' \in BOOLEAN
        /\ goal' \in [Worker -> AUTHORITY \cup {"FAILED_UNRECOVERABLE"}] /\ back' \in [Worker -> {"settle", "recheck", "reroute"}]
    BY <1>22, <1>a, Names, BlockType DEF BlockRepair
  <2> QED BY <2>1, <2>2, <1>a, SomeKeyType, Defaults, <1>22 DEF TypeOK, BlockRepair
<1>23. CASE Fail(w)
  <2>1. snap' \in Snapshot /\ disk' \in Snapshot /\ pc' \in [Worker -> PCs]
    BY <1>23, <1>a, Names, MoveType DEF Fail, Goto
  <2> QED BY <2>1, <1>a, SomeKeyType, Defaults, <1>23 DEF TypeOK, Fail, Forget
<1>24. CASE Recheck(w)
  <2>1. snap' \in Snapshot /\ disk' \in Snapshot /\ pc' \in [Worker -> PCs]
    BY <1>24, <1>a, Names, MoveType DEF Recheck, Goto
  <2> QED BY <2>1, <1>a, SomeKeyType, Defaults, <1>24 DEF TypeOK, Recheck, Forget
<1>25. CASE Repaired(w)
  <2>1. snap' \in Snapshot /\ disk' \in Snapshot /\ pc' \in [Worker -> PCs]
    BY <1>25, <1>a, <1>b, Names, MoveType DEF Repaired
  <2> QED BY <2>1, <1>a, SomeKeyType, Defaults, <1>25 DEF TypeOK, Repaired, Forget
<1>26. CASE Revalidate(w)
  <2>1. Move(w, Ingested(snap, retained), "VALIDATING", "loop")
    BY <1>26 DEF Revalidate
  <2>2. Ingested(snap, retained) \in Snapshot
    BY <1>a, <1>b
  <2>3. snap' \in Snapshot /\ disk' \in Snapshot /\ pc' \in [Worker -> PCs]
    BY <2>1, <2>2, Names, MoveType
  <2> QED BY <2>3, <1>a, SomeKeyType, Defaults, <1>26 DEF TypeOK, Revalidate, Forget
<1>27. CASE StopTail(w)
  <2>1. snap' \in Snapshot /\ disk' \in Snapshot /\ pc' \in [Worker -> PCs]
    BY <1>27, <1>a, Names DEF StopTail, Goto, Snapshot, StopReasons
  <2> QED BY <2>1, <1>a, SomeKeyType, Defaults, <1>27 DEF TypeOK, StopTail, Forget
<1>28. CASE HandleException(w)
  <2>1. snap' \in Snapshot /\ disk' \in Snapshot /\ pc' \in [Worker -> PCs]
    BY <1>28, <1>a, Names, MoveType DEF HandleException, Goto
  <2> QED BY <2>1, <1>a, SomeKeyType, Defaults, <1>28 DEF TypeOK, HandleException, Forget
<1>29. CASE Settle(w)
  <2>1. snap' \in Snapshot /\ disk' \in Snapshot /\ pc' \in [Worker -> PCs]
    BY <1>29, <1>a, Names DEF Settle, Goto
  <2> QED BY <2>1, <1>a, SomeKeyType, Defaults, <1>29 DEF TypeOK, Settle, Forget
<1>30. CASE Notify(w)
  <2>1. snap' \in Snapshot /\ disk' \in Snapshot /\ pc' \in [Worker -> PCs]
    BY <1>30, <1>a, Names DEF Notify, Goto
  <2> QED BY <2>1, <1>a, SomeKeyType, Defaults, <1>30 DEF TypeOK, Notify, Forget, Snapshot
<1>31. CASE CatalogRefuses(w)
  <2>1. snap' \in Snapshot /\ disk' \in Snapshot /\ pc' \in [Worker -> PCs]
    BY <1>31, <1>a, Names DEF CatalogRefuses, Goto
  <2> QED BY <2>1, <1>a, <1>31 DEF TypeOK, CatalogRefuses
<1> QED BY <1>1, <1>2, <1>3, <1>4, <1>5, <1>6, <1>7, <1>8, <1>9, <1>10, <1>11, <1>12, <1>13, <1>14, <1>15, <1>16, <1>17, <1>18, <1>19, <1>20, <1>21, <1>22, <1>23, <1>24, <1>25, <1>26, <1>27, <1>28, <1>29, <1>30, <1>31 DEF WorkerStep

(* A step of one worker changes the place and the locals of no other worker.    *)
LEMMA WorkerFrame ==
  ASSUME TypeOK, NEW w \in Worker, WorkerStep(w)
  PROVE  /\ \A v \in Worker \ {w} : pc'[v] = pc[v] /\ job'[v] = job[v] /\ key'[v] = key[v]
         /\ lockHolder' = lockHolder
<1> USE DEF TypeOK, OutsideUnchanged, local, world, mem, Goto
<1>1. CASE PreflightContract(w)
  BY <1>1 DEF PreflightContract, Move, Block, Forget
<1>2. CASE PreflightBlocked(w)
  BY <1>2 DEF PreflightBlocked, Move, Block, Forget
<1>3. CASE PreflightResolved(w)
  BY <1>3 DEF PreflightResolved, Move, Block, Forget
<1>4. CASE PreflightSources(w)
  BY <1>4 DEF PreflightSources, Move, Block, Forget
<1>5. CASE LoadDay(w)
  BY <1>5 DEF LoadDay, Move, Block, Forget
<1>6. CASE LoopStopped(w)
  BY <1>6 DEF LoopStopped, Move, Block, Forget
<1>7. CASE LoopComplete(w)
  BY <1>7 DEF LoopComplete, Move, Block, Forget
<1>8. CASE LoopOperatorResume(w)
  BY <1>8 DEF LoopOperatorResume, Move, Block, Forget
<1>9. CASE LoopDiagnose(w)
  BY <1>9 DEF LoopDiagnose, Move, Block, Forget
<1>10. CASE DiagnoseInterrupted(w)
  BY <1>10 DEF DiagnoseInterrupted, Move, Block, Forget
<1>11. CASE DiagnoseAction(w)
  BY <1>11 DEF DiagnoseAction, Move, Block, Forget
<1>12. CASE DiagnoseAuthority(w)
  BY <1>12 DEF DiagnoseAuthority, Move, Block, Forget
<1>13. CASE DiagnoseNothing(w)
  BY <1>13 DEF DiagnoseNothing, Move, Block, Forget
<1>14. CASE RouteObservedGap(w)
  BY <1>14 DEF RouteObservedGap, Move, Block, Forget
<1>15. CASE ResumeRepair(w)
  BY <1>15 DEF ResumeRepair, Move, Block, Forget
<1>16. CASE BeginAction(w)
  BY <1>16 DEF BeginAction, Move, Block, Forget
<1>17. CASE RunAction(w)
  BY <1>17 DEF RunAction, Move, Block, Forget
<1>18. CASE RecordResult(w)
  BY <1>18 DEF RecordResult, Move, Block, Forget
<1>19. CASE OpenRepair(w)
  BY <1>19 DEF OpenRepair, Move, Block, Forget
<1>20. CASE RepairVerdict(w)
  BY <1>20 DEF RepairVerdict, Move, Block, Forget
<1>21. CASE AcceptRepair(w)
  BY <1>21 DEF AcceptRepair, Move, Block, Forget
<1>22. CASE BlockRepair(w)
  BY <1>22 DEF BlockRepair, Move, Block, Forget
<1>23. CASE Fail(w)
  BY <1>23 DEF Fail, Move, Block, Forget
<1>24. CASE Recheck(w)
  BY <1>24 DEF Recheck, Move, Block, Forget
<1>25. CASE Repaired(w)
  BY <1>25 DEF Repaired, Move, Block, Forget
<1>26. CASE Revalidate(w)
  BY <1>26 DEF Revalidate, Move, Block, Forget
<1>27. CASE StopTail(w)
  BY <1>27 DEF StopTail, Move, Block, Forget
<1>28. CASE HandleException(w)
  BY <1>28 DEF HandleException, Move, Block, Forget
<1>29. CASE Settle(w)
  BY <1>29 DEF Settle, Move, Block, Forget
<1>30. CASE Notify(w)
  BY <1>30 DEF Notify, Move, Block, Forget
<1>31. CASE CatalogRefuses(w)
  BY <1>31 DEF CatalogRefuses
<1> QED BY <1>1, <1>2, <1>3, <1>4, <1>5, <1>6, <1>7, <1>8, <1>9, <1>10, <1>11, <1>12, <1>13, <1>14, <1>15, <1>16, <1>17, <1>18, <1>19, <1>20, <1>21, <1>22, <1>23, <1>24, <1>25, <1>26, <1>27, <1>28, <1>29, <1>30, <1>31 DEF WorkerStep

(* Every job is set before the place that needs it is reached.                  *)
LEMMA WorkerJob ==
  ASSUME TypeOK, JobOK, NEW w \in Worker, WorkerStep(w)
  PROVE  JobOK'
<1> DEFINE Acting(v) == pc'[v] \in {"begin", "run", "result"} =>
                          job'[v] \in Gaps /\ Template[job'[v]] \in Templates
           Repairing(v) == pc'[v] \in {"resumeRepair", "repair", "verdict", "accept", "block"} => job'[v] \in Gaps
<1>a. \A v \in Worker \ {w} : Acting(v) /\ Repairing(v)
  BY WorkerFrame DEF JobOK
<1> SUFFICES Acting(w) /\ Repairing(w)
  BY <1>a DEF JobOK
<1> USE DEF TypeOK, OutsideUnchanged, local, world, mem, Goto, JobOK
<1>1. CASE PreflightContract(w)
  BY <1>1 DEF PreflightContract, Move, Block, Forget
<1>2. CASE PreflightBlocked(w)
  BY <1>2 DEF PreflightBlocked, Move, Block, Forget
<1>3. CASE PreflightResolved(w)
  BY <1>3 DEF PreflightResolved, Move, Block, Forget
<1>4. CASE PreflightSources(w)
  BY <1>4 DEF PreflightSources, Move, Block, Forget
<1>5. CASE LoadDay(w)
  BY <1>5 DEF LoadDay, Move, Block, Forget
<1>6. CASE LoopStopped(w)
  BY <1>6 DEF LoopStopped, Move, Block, Forget
<1>7. CASE LoopComplete(w)
  BY <1>7 DEF LoopComplete, Move, Block, Forget
<1>8. CASE LoopOperatorResume(w)
  BY <1>8 DEF LoopOperatorResume, Move, Block, Forget
<1>9. CASE LoopDiagnose(w)
  BY <1>9 DEF LoopDiagnose, Move, Block, Forget
<1>10. CASE DiagnoseInterrupted(w)
  BY <1>10 DEF DiagnoseInterrupted, Interrupted, OpenEpisode, Snapshot
<1>11. CASE DiagnoseAction(w)
  <2>1. PICK g \in Selected(snap, inv[w]) : job' = [job EXCEPT ![w] = g]
    BY <1>11 DEF DiagnoseAction
  <2>2. g \in Gaps /\ Template[g] \in Templates
    BY ConstantsAssumption DEF Selected, Candidates, Snapshot
  <2> QED BY <1>11, <2>1, <2>2 DEF DiagnoseAction
<1>12. CASE DiagnoseAuthority(w)
  BY <1>12 DEF DiagnoseAuthority, Move, Block, Forget
<1>13. CASE DiagnoseNothing(w)
  BY <1>13 DEF DiagnoseNothing, Move, Block, Forget
<1>14. CASE RouteObservedGap(w)
  <2>1. PICK g \in snap.gaps : job' = [job EXCEPT ![w] = g]
    BY <1>14 DEF RouteObservedGap
  <2>2. g \in Gaps
    BY DEF Snapshot
  <2> QED BY <1>14, <2>1, <2>2 DEF RouteObservedGap, Move, Block
<1>15. CASE ResumeRepair(w)
  BY <1>15 DEF ResumeRepair, Move, Block, Forget
<1>16. CASE BeginAction(w)
  BY <1>16 DEF BeginAction, Move, Block, Forget
<1>17. CASE RunAction(w)
  BY <1>17 DEF RunAction, Move, Block, Forget
<1>18. CASE RecordResult(w)
  BY <1>18 DEF RecordResult, Move, Block, Forget
<1>19. CASE OpenRepair(w)
  BY <1>19 DEF OpenRepair, Move, Block, Forget
<1>20. CASE RepairVerdict(w)
  BY <1>20 DEF RepairVerdict, Move, Block, Forget
<1>21. CASE AcceptRepair(w)
  BY <1>21 DEF AcceptRepair, Move, Block, Forget
<1>22. CASE BlockRepair(w)
  BY <1>22 DEF BlockRepair, Move, Block, Forget
<1>23. CASE Fail(w)
  BY <1>23 DEF Fail, Move, Block, Forget
<1>24. CASE Recheck(w)
  BY <1>24 DEF Recheck, Move, Block, Forget
<1>25. CASE Repaired(w)
  BY <1>25 DEF Repaired, Move, Block, Forget
<1>26. CASE Revalidate(w)
  BY <1>26 DEF Revalidate, Move, Block, Forget
<1>27. CASE StopTail(w)
  BY <1>27 DEF StopTail, Move, Block, Forget
<1>28. CASE HandleException(w)
  BY <1>28 DEF HandleException, Move, Block, Forget
<1>29. CASE Settle(w)
  BY <1>29 DEF Settle, Move, Block, Forget
<1>30. CASE Notify(w)
  BY <1>30 DEF Notify, Move, Block, Forget
<1>31. CASE CatalogRefuses(w)
  BY <1>31 DEF CatalogRefuses
<1> QED BY <1>1, <1>2, <1>3, <1>4, <1>5, <1>6, <1>7, <1>8, <1>9, <1>10, <1>11, <1>12, <1>13, <1>14, <1>15, <1>16, <1>17, <1>18, <1>19, <1>20, <1>21, <1>22, <1>23, <1>24, <1>25, <1>26, <1>27, <1>28, <1>29, <1>30, <1>31 DEF WorkerStep

(* The operator's requests, a restart and the world outside keep every type.    *)
LEMMA LaunchType ==
  ASSUME TypeOK, JobOK, NEW s \in Snapshot, NEW b \in BOOLEAN, Launch(s, b),
         UNCHANGED episodes, lockHolder' \in {None, "retry", "resume"}
  PROVE  TypeOK' /\ JobOK' /\ snap'.attempts = s.attempts /\ disk' = snap'
<1>1. PICK w \in Worker : /\ pc[w] = "idle" /\ pc' = [pc EXCEPT ![w] = "preflight"]
                          /\ notifies' = [notifies EXCEPT ![w] = b]
  BY DEF Launch, Goto
<1>2. snap' \in Snapshot /\ disk' \in Snapshot /\ snap'.attempts = s.attempts /\ disk' = snap'
  BY Names DEF Launch, Snapshot
<1>3. pc' \in [Worker -> PCs] /\ notifies' \in [Worker -> BOOLEAN] /\ stopEvent' \in BOOLEAN
  BY <1>1, Names DEF Launch, TypeOK
<1>4. TypeOK'
  BY <1>2, <1>3 DEF Launch, TypeOK, world
<1>5. JobOK'
  BY <1>1 DEF Launch, TypeOK, JobOK
<1> QED BY <1>2, <1>4, <1>5

LEMMA RequestType ==
  ASSUME TypeOK, JobOK, Request
  PROVE  TypeOK' /\ JobOK'
<1>a. snap \in Snapshot /\ TRUE \in BOOLEAN /\ FALSE \in BOOLEAN
      /\ lockHolder \in {None, "retry", "resume"}
  BY DEF TypeOK
<1>1. CASE Start
  BY <1>1, <1>a, LaunchType DEF Start
<1>2. CASE Resume
  BY <1>2, <1>a, LaunchType DEF Resume
<1>3. CASE OperatorLaunch
  BY <1>3, <1>a, LaunchType DEF OperatorLaunch
<1>4. CASE RepairAndGo
  BY <1>4, <1>a, LaunchType DEF RepairAndGo
<1>5. CASE OperatorResume
  <2>1. snap.lastEpisode \in Gaps
    BY <1>5, <1>a DEF OperatorResume, OperatorResumable, Snapshot
  <2>2. snap' = snap /\ disk' = disk
    BY <1>5 DEF OperatorResume
  <2>3. Retried(episodes[snap.lastEpisode]) \in Episode
    <3>1. episodes[snap.lastEpisode] \in Episode
      BY <2>1 DEF TypeOK
    <3>2. episodes[snap.lastEpisode].retries + 1 \in 0..1
      BY <1>5, <3>1 DEF OperatorResume, OperatorResumable, Episode
    <3> QED BY <3>1, <3>2 DEF Retried, Episode, Finals
  <2>4. episodes' \in [Gaps -> Episode]
    BY <1>5, <2>1, <2>3 DEF OperatorResume, TypeOK
  <2>5. TypeOK'
    BY <1>5, <2>1, <2>2, <2>4 DEF OperatorResume, TypeOK, local, world
  <2> QED BY <1>5, <2>5 DEF OperatorResume, JobOK, local
<1>8. CASE OperatorUnblock
  <2>1. snap' \in Snapshot /\ disk' \in Snapshot
    BY <1>8, <1>a DEF OperatorUnblock, Snapshot, Blockers
  <2>2. TypeOK'
    BY <1>8, <2>1 DEF OperatorUnblock, TypeOK, local
  <2> QED BY <1>8, <2>2 DEF OperatorUnblock, JobOK, local
<1>6. CASE Stop
  BY <1>6 DEF Stop, TypeOK, JobOK, local, world
<1>7. CASE RegisterRetainedEvidence
  <2>1. snap' \in Snapshot /\ disk' \in Snapshot
    BY <1>7, <1>a, EvidenceType DEF RegisterRetainedEvidence, TypeOK
  <2> QED BY <1>7, <2>1 DEF RegisterRetainedEvidence, TypeOK, JobOK, local, world
<1> QED BY <1>1, <1>2, <1>3, <1>4, <1>5, <1>6, <1>7, <1>8 DEF Request

LEMMA RestoredType ==
  ASSUME TypeOK, NEW d \in Snapshot
  PROVE  Restored(d) \in Snapshot /\ Restored(d).attempts = d.attempts
<1>1. retained \in SUBSET Gaps
  BY DEF TypeOK
<1>2. CASE d.state = "IDLE"
  BY <1>2 DEF Restored
<1>3. CASE d.state # "IDLE" /\ ~contractOK
  BY <1>3, EvidenceType, Names DEF Restored, Snapshot
<1>4. CASE d.state # "IDLE" /\ contractOK
  <2> DEFINE s == Evaluated(d, retained)
  <2>1. s \in Snapshot /\ s.attempts = d.attempts
    BY <1>1, EvidenceType
  <2>2. Restored(d) = CASE s.state = "COMPLETE" /\ s.gaps # {} -> [s EXCEPT !.state = "PAUSED"]
                        [] s.state \in ACTIVE ->
                             [s EXCEPT !.state = "PAUSED",
                                       !.stopReason = "INTERRUPTED_REQUIRES_RESUME"]
                        [] OTHER -> s
    BY <1>4 DEF Restored
  <2> HIDE DEF s
  <2>3. "COMPLETE" \notin ACTIVE
    BY DEF ACTIVE
  <2>4. CASE s.state = "COMPLETE" /\ s.gaps # {}
    BY <2>1, <2>2, <2>3, <2>4, Names DEF Snapshot
  <2>5. CASE s.state \in ACTIVE
    <3>1. Restored(d) = [s EXCEPT !.state = "PAUSED",
                                  !.stopReason = "INTERRUPTED_REQUIRES_RESUME"]
      BY <2>2, <2>3, <2>5
    <3>2. "PAUSED" \in DayState /\ "INTERRUPTED_REQUIRES_RESUME" \in StopReasons
      BY Names DEF StopReasons
    <3> QED BY <2>1, <3>1, <3>2 DEF Snapshot
  <2>6. CASE ~(s.state = "COMPLETE" /\ s.gaps # {}) /\ s.state \notin ACTIVE
    BY <2>1, <2>2, <2>6
  <2> QED BY <2>4, <2>5, <2>6
<1> QED BY <1>2, <1>3, <1>4

LEMMA RestartType ==
  ASSUME TypeOK, Restart
  PROVE  TypeOK' /\ JobOK' /\ snap'.attempts = disk.attempts /\ disk'.attempts = disk.attempts
<1>1. disk \in Snapshot
  BY DEF TypeOK
<1>2. /\ snap' \in Snapshot /\ disk' \in Snapshot
      /\ snap'.attempts = disk.attempts /\ disk'.attempts = disk.attempts
  BY <1>1, RestoredType DEF Restart
<1>3. episodes' \in [Gaps -> Episode]
  <2>1. episodes \in [Gaps -> Episode]
    BY DEF TypeOK
  <2>2. CASE episodes' = episodes
    BY <2>1, <2>2
  <2>3. CASE /\ disk.lastEpisode # None
             /\ episodes' = [episodes EXCEPT ![disk.lastEpisode].interrupted = TRUE]
    <3>1. disk.lastEpisode \in Gaps
      BY <1>1, <2>3 DEF Snapshot
    <3> QED BY <2>1, <2>3, <3>1 DEF Episode
  <2> QED BY <2>2, <2>3 DEF Restart
<1>4. crashes' \in 0..MaxCrash
  BY ConstantsAssumption DEF Restart, TypeOK
<1>5. TypeOK'
  <2>1. pc' \in [Worker -> PCs] /\ inv' \in [Worker -> 0..MaxRepo]
    BY ConstantsAssumption, Names DEF Restart
  <2> QED BY <1>2, <1>3, <1>4, <2>1, SomeKeyType, Defaults DEF Restart, TypeOK, world
<1> QED BY <1>2, <1>5 DEF Restart, JobOK

LEMMA EnvironmentType ==
  ASSUME TypeOK, JobOK, Environment
  PROVE  TypeOK' /\ JobOK'
<1> USE ConstantsAssumption DEF Environment, TypeOK, mem, local
<1>0. JobOK'
  BY DEF JobOK
<1>1. CASE RepositoryChanges
  BY <1>0, <1>1 DEF RepositoryChanges
<1>2. CASE ArtifactChanges
  BY <1>0, <1>2 DEF ArtifactChanges
<1>3. CASE ArtifactRetained
  BY <1>0, <1>3 DEF ArtifactRetained
<1>4. CASE PrerequisiteMet
  BY <1>0, <1>4 DEF PrerequisiteMet
<1>5. CASE SourcesChange
  BY <1>0, <1>5 DEF SourcesChange
<1>6. CASE ContractChanges
  <2>1. repo' \in 0..MaxRepo
    BY <1>6 DEF ContractChanges
  <2>2. contractOK' \in BOOLEAN
    BY <1>6 DEF ContractChanges
  <2> QED BY <1>0, <1>6, <2>1, <2>2 DEF ContractChanges
<1> QED BY <1>1, <1>2, <1>3, <1>4, <1>5, <1>6

LEMMA InitType == Init => TypeOK /\ JobOK
<1> SUFFICES ASSUME Init PROVE TypeOK /\ JobOK
  OBVIOUS
<1>1. EmptySnapshot \in Snapshot
  BY ConstantsAssumption, Names DEF EmptySnapshot, Snapshot, Blockers, StopReasons, Outcomes
<1>2. /\ pc \in [Worker -> PCs] /\ "PREFLIGHT" \in DayState
      /\ inv \in [Worker -> 0..MaxRepo] /\ crashes \in 0..MaxCrash /\ repo \in 0..MaxRepo
      /\ gen \in [Gaps -> 0..MaxGen] /\ notifies \in [Worker -> BOOLEAN]
  BY ConstantsAssumption, Names DEF Init
<1>4. /\ stopEvent \in BOOLEAN /\ sources \in BOOLEAN /\ resolved \in BOOLEAN
      /\ contractOK \in BOOLEAN
  BY Zenon DEF Init
<1>5. /\ snap \in Snapshot /\ disk \in Snapshot /\ episodes \in [Gaps -> Episode]
      /\ job \in [Worker -> Gaps \cup {None}] /\ key \in [Worker -> Keys]
      /\ found \in [Worker -> SUBSET Gaps] /\ result \in [Worker -> Results]
      /\ goal \in [Worker -> AUTHORITY \cup {"FAILED_UNRECOVERABLE"}]
      /\ back \in [Worker -> {"settle", "recheck", "reroute"}]
      /\ execs \in [Keys -> 0..2]
  BY <1>1, SomeKeyType, Defaults DEF Init
<1>3. TypeOK
  BY <1>2, <1>4, <1>5 DEF Init, TypeOK
<1> QED BY <1>3 DEF Init, JobOK

LEMMA StepType ==
  ASSUME TypeOK, JobOK, [Next]_vars
  PROVE  TypeOK' /\ JobOK'
<1>1. CASE \E w \in Worker : WorkerStep(w)
  BY <1>1, WorkerType, WorkerJob
<1>2. CASE Request
  BY <1>2, RequestType
<1>3. CASE Restart
  BY <1>3, RestartType
<1>4. CASE Environment
  BY <1>4, EnvironmentType
<1>5. CASE UNCHANGED vars
  BY <1>5 DEF vars, local, world, TypeOK, JobOK
<1> QED BY <1>1, <1>2, <1>3, <1>4, <1>5 DEF Next

(* In every reachable state every variable of the controller has its type, for  *)
(* any sets of gaps, templates and workers: no step writes a state, a blocker,  *)
(* an attempt outcome or an evidence record the snapshot model does not have.   *)
THEOREM TypeCorrect == Spec => [](TypeOK /\ JobOK)
<1>1. TypeOK /\ JobOK /\ [Next]_vars => (TypeOK /\ JobOK)'
  BY StepType
<1> QED BY <1>1, InitType, PTL DEF Spec

(* What one worker step may do to the log of attempts: it never erases an       *)
(* attempt from memory, writes to disk only what memory holds, and reaches the  *)
(* executor only with its attempt on disk.                                      *)
LEMMA WorkerAttempts ==
  ASSUME TypeOK, JobOK, NEW w \in Worker, WorkerStep(w)
  PROVE  /\ \A k \in Keys : snap.attempts[k] # None => snap'.attempts[k] # None
         /\ disk'.attempts \in {disk.attempts, snap.attempts, snap'.attempts}
         /\ execs' # execs => pc[w] = "run"
         /\ pc'[w] = "run" => disk'.attempts[key'[w]] # None
         /\ pc'[w] = "result" => pc[w] = "run" /\ key'[w] = key[w]
<1> USE DEF TypeOK, OutsideUnchanged, local, world, mem, Goto
<1>1. CASE PreflightContract(w)
  BY <1>1 DEF PreflightContract, Move, Block, Forget, Ingested, Evaluated, Invalidated, Snapshot
<1>2. CASE PreflightBlocked(w)
  BY <1>2 DEF PreflightBlocked, Move, Block, Forget, Ingested, Evaluated, Invalidated, Snapshot
<1>3. CASE PreflightResolved(w)
  BY <1>3 DEF PreflightResolved, Move, Block, Forget, Ingested, Evaluated, Invalidated, Snapshot
<1>4. CASE PreflightSources(w)
  BY <1>4 DEF PreflightSources, Move, Block, Forget, Ingested, Evaluated, Invalidated, Snapshot
<1>5. CASE LoadDay(w)
  BY <1>5 DEF LoadDay, Move, Block, Forget, Ingested, Evaluated, Invalidated, Snapshot
<1>6. CASE LoopStopped(w)
  BY <1>6 DEF LoopStopped, Move, Block, Forget, Ingested, Evaluated, Invalidated, Snapshot
<1>7. CASE LoopComplete(w)
  BY <1>7 DEF LoopComplete, Move, Block, Forget, Ingested, Evaluated, Invalidated, Snapshot
<1>8. CASE LoopOperatorResume(w)
  BY <1>8 DEF LoopOperatorResume, Move, Block, Forget, Ingested, Evaluated, Invalidated, Snapshot
<1>9. CASE LoopDiagnose(w)
  BY <1>9 DEF LoopDiagnose, Move, Block, Forget, Ingested, Evaluated, Invalidated, Snapshot
<1>10. CASE DiagnoseInterrupted(w)
  BY <1>10 DEF DiagnoseInterrupted, Move, Block, Forget, Ingested, Evaluated, Invalidated, Snapshot
<1>11. CASE DiagnoseAction(w)
  BY <1>11 DEF DiagnoseAction, Move, Block, Forget, Ingested, Evaluated, Invalidated, Snapshot
<1>12. CASE DiagnoseAuthority(w)
  BY <1>12 DEF DiagnoseAuthority, Move, Block, Forget, Ingested, Evaluated, Invalidated, Snapshot
<1>13. CASE DiagnoseNothing(w)
  BY <1>13 DEF DiagnoseNothing, Move, Block, Forget, Ingested, Evaluated, Invalidated, Snapshot
<1>14. CASE RouteObservedGap(w)
  BY <1>14 DEF RouteObservedGap, Move, Block, Forget, Ingested, Evaluated, Invalidated, Snapshot
<1>15. CASE ResumeRepair(w)
  BY <1>15 DEF ResumeRepair, Move, Block, Forget, Ingested, Evaluated, Invalidated, Snapshot
<1>16. CASE BeginAction(w)
  <2> DEFINE to == IF Mode[Template[job[w]]] = "READ_ONLY"
                   THEN "COLLECTING_EVIDENCE" ELSE "EXECUTING_DAY_WORK"
             s == [snap EXCEPT !.attempts[key[w]] = "STARTED"]
  <2>1. s.attempts[key[w]] # None /\ \A k \in Keys : snap.attempts[k] # None => s.attempts[k] # None
    BY DEF Snapshot, None
  <2>2. CASE ValidTransition(snap.state, to)
    <3>1. Move(w, s, to, "run") /\ s.state = snap.state
      BY <1>16, <2>2 DEF BeginAction, Snapshot
    <3>2. /\ snap'.attempts = s.attempts /\ disk' = snap'
      <4>1. s \in Snapshot
        BY DEF Snapshot, Outcomes
      <4>2. snap' = [s EXCEPT !.state = to] /\ disk' = snap'
        BY <2>2, <3>1 DEF Move
      <4> HIDE DEF s, to
      <4> QED BY <4>1, <4>2 DEF Snapshot
    <3>3. key' = key /\ execs' = execs
      BY <1>16 DEF BeginAction
    <3>4. pc'[w] = "run"
      BY <2>2, <3>1 DEF Move
    <3> HIDE DEF s
    <3> QED BY <2>1, <3>2, <3>3, <3>4
  <2>3. CASE ~ValidTransition(snap.state, to)
    <3>1. snap' = snap /\ UNCHANGED disk /\ pc' = [pc EXCEPT ![w] = "except"]
      BY <1>16, <2>3 DEF BeginAction, Move
    <3> QED BY <1>16, <3>1 DEF BeginAction
  <2> QED BY <2>2, <2>3
<1>17. CASE RunAction(w)
  BY <1>17 DEF RunAction, Move, Block, Forget, Ingested, Evaluated, Invalidated, Snapshot
<1>18. CASE RecordResult(w)
  <2> DEFINE r == result[w]
             outcome == IF r.kind \in {"REPAIR", "NO_ORDER"} THEN "FAILED" ELSE r.kind
             s == [Ingested(snap, r.evidence) EXCEPT !.attempts[key[w]] = outcome]
  <2>1. outcome \in Outcomes /\ outcome # None
    BY DEF Results, Kinds, None, Outcomes
  <2>2. Ingested(snap, r.evidence).attempts = snap.attempts
        /\ Ingested(snap, r.evidence) \in Snapshot
    BY EvidenceType DEF Results
  <2>3. \A k \in Keys : snap.attempts[k] # None => s.attempts[k] # None
    BY <2>1, <2>2 DEF Snapshot
  <2>5. s \in Snapshot
    BY <2>1, <2>2 DEF Snapshot
  <2> HIDE DEF outcome
  <2>4. /\ snap'.attempts = s.attempts
        /\ disk' = snap' \/ disk' = disk
        /\ pc'[w] \in {"fail", "repair", "recheck", "except"}
    <3>1. CASE r.kind \in {"HUMAN", "EXTERNAL"}
      <4>1. Block(w, s, r.kind, "recheck")
        BY <1>18, <3>1 DEF RecordResult, outcome
      <4> HIDE DEF s
      <4> QED BY <2>5, <4>1 DEF Block, Snapshot
    <3>2. CASE r.kind \in {"REPAIR", "NO_ORDER"}
      <4>1. Move(w, s, "REPAIR_SUPERVISOR",
                 IF r.kind = "REPAIR" THEN "repair" ELSE "recheck")
        BY <1>18, <3>2 DEF RecordResult, outcome
      <4> HIDE DEF s
      <4> QED BY <2>5, <4>1 DEF Move, Snapshot
    <3>3. CASE r.kind \notin {"HUMAN", "EXTERNAL", "REPAIR", "NO_ORDER"}
      BY <1>18, <3>3, <2>5 DEF RecordResult, outcome
    <3> QED BY <3>1, <3>2, <3>3
  <2> HIDE DEF s
  <2> QED BY <1>18, <2>3, <2>4 DEF RecordResult
<1>19. CASE OpenRepair(w)
  <2>1. job[w] \in Gaps
    BY <1>19 DEF OpenRepair, JobOK
  <2> QED BY <1>19, <2>1, RepairWrites DEF OpenRepair
<1>20. CASE RepairVerdict(w)
  BY <1>20 DEF RepairVerdict, Move, Block, Forget, Ingested, Evaluated, Invalidated, Snapshot
<1>21. CASE AcceptRepair(w)
  <2>1. job[w] \in Gaps /\ result[w].evidence \in SUBSET Gaps
    BY <1>21 DEF AcceptRepair, JobOK, Results
  <2> DEFINE d == ItemDone(w)
  <2>3. d \in Snapshot /\ d.attempts = snap.attempts
    BY <2>1, RepairWrites
  <2>4. disk' = d /\ snap' = Ingested(d, result[w].evidence)
    BY <1>21 DEF AcceptRepair
  <2> HIDE DEF d
  <2>2. snap'.attempts = snap.attempts /\ disk'.attempts = snap.attempts
    BY <2>1, <2>3, <2>4, EvidenceType
  <2> QED BY <1>21, <2>2 DEF AcceptRepair
<1>22. CASE BlockRepair(w)
  BY <1>22 DEF BlockRepair, Move, Block, Forget, Ingested, Evaluated, Invalidated, Snapshot
<1>23. CASE Fail(w)
  BY <1>23 DEF Fail, Move, Block, Forget, Ingested, Evaluated, Invalidated, Snapshot
<1>24. CASE Recheck(w)
  BY <1>24 DEF Recheck, Move, Block, Forget, Ingested, Evaluated, Invalidated, Snapshot
<1>25. CASE Repaired(w)
  BY <1>25 DEF Repaired, Move, Block, Forget, Ingested, Evaluated, Invalidated, Snapshot
<1>26. CASE Revalidate(w)
  BY <1>26 DEF Revalidate, Move, Block, Forget, Ingested, Evaluated, Invalidated, Snapshot
<1>27. CASE StopTail(w)
  BY <1>27 DEF StopTail, Move, Block, Forget, Ingested, Evaluated, Invalidated, Snapshot
<1>28. CASE HandleException(w)
  BY <1>28 DEF HandleException, Move, Block, Forget, Ingested, Evaluated, Invalidated, Snapshot
<1>29. CASE Settle(w)
  BY <1>29 DEF Settle, Move, Block, Forget, Ingested, Evaluated, Invalidated, Snapshot
<1>30. CASE Notify(w)
  BY <1>30 DEF Notify, Move, Block, Forget, Ingested, Evaluated, Invalidated, Snapshot
<1>31. CASE CatalogRefuses(w)
  BY <1>31 DEF CatalogRefuses
<1> QED BY <1>1, <1>2, <1>3, <1>4, <1>5, <1>6, <1>7, <1>8, <1>9, <1>10, <1>11, <1>12, <1>13, <1>14, <1>15, <1>16, <1>17, <1>18, <1>19, <1>20, <1>21, <1>22, <1>23, <1>24, <1>25, <1>26, <1>27, <1>28, <1>29, <1>30, <1>31 DEF WorkerStep

(* The inductive form of ExecutedIsRecorded: what is on disk is also in memory, *)
(* and a worker at the executor has its attempt on disk.                        *)
Logged ==
  /\ \A k \in Keys : disk.attempts[k] # None => snap.attempts[k] # None
  /\ \A w \in Worker : pc[w] \in {"run", "result"} => disk.attempts[key[w]] # None
  /\ ExecutedIsRecorded

LEMMA LoggedStep ==
  ASSUME TypeOK, JobOK, Logged, [Next]_vars
  PROVE  Logged'
<1> USE DEF Logged, ExecutedIsRecorded
<1>1. ASSUME NEW w \in Worker, WorkerStep(w) PROVE Logged'
  <2>1. \A k \in Keys : disk.attempts[k] # None => disk'.attempts[k] # None
    BY <1>1, WorkerAttempts
  <2>2. \A k \in Keys : disk'.attempts[k] # None => snap'.attempts[k] # None
    BY <1>1, WorkerAttempts
  <2>3. \A v \in Worker : pc'[v] \in {"run", "result"} => disk'.attempts[key'[v]] # None
    <3> SUFFICES ASSUME NEW v \in Worker, pc'[v] \in {"run", "result"}
                 PROVE  disk'.attempts[key'[v]] # None
      OBVIOUS
    <3>1. CASE v = w
      BY <1>1, <2>1, <3>1, WorkerAttempts DEF TypeOK
    <3>2. CASE v # w
      <4>1. pc'[v] = pc[v] /\ key'[v] = key[v] /\ key[v] \in Keys
        BY <1>1, <3>2, WorkerFrame DEF TypeOK
      <4> QED BY <2>1, <4>1
    <3> QED BY <3>1, <3>2
  <2>4. \A k \in Keys : execs'[k] > 0 => disk'.attempts[k] # None
    <3>1. CASE execs' = execs
      BY <2>1, <3>1
    <3>2. CASE execs' # execs
      <4>1. pc[w] = "run"
        BY <1>1, <3>2, WorkerAttempts
      <4>2. RunAction(w)
        BY <1>1, <4>1 DEF WorkerStep, PreflightContract, PreflightBlocked,
          PreflightResolved, PreflightSources, LoadDay, LoopStopped, LoopComplete,
          LoopOperatorResume, LoopDiagnose, DiagnoseInterrupted, DiagnoseAction,
          DiagnoseAuthority, DiagnoseNothing, RouteObservedGap, ResumeRepair,
          BeginAction, RecordResult, OpenRepair, RepairVerdict, AcceptRepair, CatalogRefuses,
          BlockRepair, Fail, Recheck, Repaired, Revalidate, StopTail,
          HandleException, Settle, Notify
      <4>3. \A k \in Keys : k # key[w] => execs'[k] = execs[k]
        BY <4>2 DEF RunAction, TypeOK
      <4>4. disk.attempts[key[w]] # None /\ key[w] \in Keys
        BY <4>1 DEF TypeOK
      <4> QED BY <2>1, <4>3, <4>4
    <3> QED BY <3>1, <3>2
  <2> QED BY <2>2, <2>3, <2>4
<1>2. CASE Request
  <2>1. /\ disk'.attempts = snap.attempts \/ disk' = disk
        /\ snap'.attempts = snap.attempts
        /\ execs' = execs /\ key' = key
        /\ \A v \in Worker : pc'[v] \in {"run", "result"} => pc[v] = pc'[v]
    <3>0. snap \in Snapshot
      BY DEF TypeOK
    <3>1. ASSUME NEW b \in BOOLEAN, Launch(snap, b)
          PROVE  /\ disk'.attempts = snap.attempts /\ snap'.attempts = snap.attempts
                 /\ execs' = execs /\ key' = key
                 /\ \A v \in Worker : pc'[v] \in {"run", "result"} => pc[v] = pc'[v]
      <4>1. snap' = [snap EXCEPT !.state = "PREFLIGHT"] /\ disk' = snap'
            /\ execs' = execs /\ key' = key
        BY <3>1 DEF Launch
      <4>2. PICK w \in Worker : pc' = [pc EXCEPT ![w] = "preflight"]
        BY <3>1 DEF Launch, Goto
      <4> QED BY <3>0, <4>1, <4>2 DEF Snapshot, TypeOK
    <3>2. CASE Start \/ Resume \/ OperatorLaunch \/ RepairAndGo
      BY <3>1, <3>2 DEF Start, Resume, OperatorLaunch, RepairAndGo
    <3>3. CASE OperatorResume
      BY <3>3 DEF OperatorResume, local
    <3>6. CASE OperatorUnblock
      <4>1. snap'.attempts = snap.attempts /\ disk'.attempts = snap.attempts
        BY <3>0, <3>6 DEF OperatorUnblock, Snapshot
      <4> QED BY <3>6, <4>1 DEF OperatorUnblock, local
    <3>4. CASE Stop
      BY <3>4 DEF Stop, local
    <3>5. CASE RegisterRetainedEvidence
      BY <3>0, <3>5, EvidenceType DEF RegisterRetainedEvidence, local, TypeOK
    <3> QED BY <1>2, <3>2, <3>3, <3>4, <3>5, <3>6 DEF Request
  <2> QED BY <2>1 DEF TypeOK
<1>3. CASE Restart
  <2>1. snap'.attempts = disk.attempts /\ disk'.attempts = disk.attempts
    BY <1>3, RestartType
  <2> QED BY <1>3, <2>1 DEF Restart
<1>4. CASE Environment
  BY <1>4 DEF Environment, mem, local
<1>5. CASE UNCHANGED vars
  BY <1>5 DEF vars, mem, local
<1> QED BY <1>1, <1>2, <1>3, <1>4, <1>5 DEF Next

(* An action that has reached the executor has a durable attempt record, for    *)
(* any number of workers and restarts and even when the operator resumes the    *)
(* Day while an older worker is still finishing: _execute_registered_action     *)
(* saves the attempt before the call, and no other save ever writes an older    *)
(* log.                                                                         *)
THEOREM ExecutedRecorded == Spec => []ExecutedIsRecorded
<1>1. Init => Logged
  <2> SUFFICES ASSUME Init PROVE Logged
    OBVIOUS
  <2> QED BY DEF Init, Logged, ExecutedIsRecorded, EmptySnapshot
<1>2. TypeOK /\ JobOK /\ Logged /\ [Next]_vars => Logged'
  BY LoggedStep
<1>3. Logged => ExecutedIsRecorded
  BY DEF Logged
<1> QED BY <1>1, <1>2, <1>3, TypeCorrect, PTL DEF Spec

(* The inductive form of ActionAtMostOnce: when requests wait for the worker,   *)
(* at most one is running, none runs while a request is between its saves, and  *)
(* an action that is about to begin has never been attempted.                   *)
Serial ==
  /\ \A v, w \in Worker : pc[v] # "idle" /\ pc[w] # "idle" => v = w
  /\ lockHolder # None => Returned
  /\ \A w \in Worker : pc[w] = "begin" => snap.attempts[key[w]] = None
  /\ \A w \in Worker : pc[w] = "run" => execs[key[w]] = 0
  /\ ActionAtMostOnce

LEMMA SerialWorker ==
  ASSUME TypeOK, JobOK, Logged, Serial, NEW w \in Worker, WorkerStep(w)
  PROVE  Serial'
<1> USE DEF Serial, ActionAtMostOnce, Returned
<1>1. pc[w] # "idle"
  BY DEF WorkerStep, DiagnoseAction, PreflightContract, PreflightBlocked, PreflightResolved, PreflightSources,
    LoadDay, LoopStopped, LoopComplete, LoopOperatorResume, LoopDiagnose,
    DiagnoseInterrupted, DiagnoseAuthority, DiagnoseNothing, RouteObservedGap,
    ResumeRepair, BeginAction, RunAction, RecordResult, OpenRepair,
    RepairVerdict, AcceptRepair, CatalogRefuses, BlockRepair, Fail, Recheck, Repaired,
    Revalidate, StopTail, HandleException, Settle, Notify
<1>2. \A v \in Worker \ {w} : pc[v] = "idle" /\ pc'[v] = "idle"
  BY <1>1, WorkerFrame
<1>3. lockHolder' = None
  BY <1>1, WorkerFrame DEF TypeOK
<1>4. CASE DiagnoseAction(w)
  <2>1. PICK g \in Selected(snap, inv[w]) :
          /\ snap.attempts[<<Template[g], inv[w], snap.auth>>] = None
          /\ key' = [key EXCEPT ![w] = <<Template[g], inv[w], snap.auth>>]
    BY <1>4 DEF DiagnoseAction, Selected, Candidates
  <2>2. snap' = snap /\ execs' = execs /\ pc' = [pc EXCEPT ![w] = "begin"]
    BY <1>4 DEF DiagnoseAction, Goto
  <2> QED BY <1>2, <1>3, <2>1, <2>2 DEF TypeOK
<1>5. CASE BeginAction(w)
  <2>1. pc'[w] \in {"run", "except"} /\ key' = key /\ execs' = execs
    BY <1>5 DEF BeginAction, Move, Goto, local, TypeOK
  <2>2. execs[key[w]] = 0
    <3>1. snap.attempts[key[w]] = None /\ key[w] \in Keys
      BY <1>5 DEF BeginAction, TypeOK
    <3> QED BY <3>1 DEF Logged, ExecutedIsRecorded, TypeOK
  <2> QED BY <1>2, <1>3, <2>1, <2>2
<1>6. CASE RunAction(w)
  <2>1. pc'[w] = "result" /\ execs[key[w]] = 0 /\ key[w] \in Keys
    BY <1>6 DEF RunAction, Goto, TypeOK
  <2>2. \A k \in Keys : execs'[k] <= 1
    BY <1>6, <2>1 DEF RunAction, TypeOK
  <2> QED BY <1>2, <1>3, <2>1, <2>2
<1>7. CASE ~DiagnoseAction(w) /\ ~BeginAction(w) /\ ~RunAction(w)
  <2>1. pc'[w] \notin {"begin", "run"}
    BY <1>7 DEF WorkerStep, TypeOK, Goto, Move, Block, PreflightContract, PreflightBlocked, PreflightResolved,
      PreflightSources, LoadDay, LoopStopped, LoopComplete,
      LoopOperatorResume, LoopDiagnose, DiagnoseInterrupted,
      DiagnoseAuthority, DiagnoseNothing, RouteObservedGap, ResumeRepair,
      BeginAction, RunAction, RecordResult, OpenRepair, RepairVerdict,
      AcceptRepair, CatalogRefuses, BlockRepair, Fail, Recheck, Repaired, Revalidate,
      StopTail, HandleException, Settle, Notify
  <2>2. execs' = execs
    BY <1>7, WorkerAttempts DEF WorkerStep, PreflightContract, PreflightBlocked, PreflightResolved,
      PreflightSources, LoadDay, LoopStopped, LoopComplete,
      LoopOperatorResume, LoopDiagnose, DiagnoseInterrupted,
      DiagnoseAuthority, DiagnoseNothing, RouteObservedGap, ResumeRepair,
      BeginAction, RunAction, RecordResult, OpenRepair, RepairVerdict,
      AcceptRepair, CatalogRefuses, BlockRepair, Fail, Recheck, Repaired, Revalidate,
      StopTail, HandleException, Settle, Notify
  <2> QED BY <1>2, <1>3, <2>1, <2>2
<1> QED BY <1>4, <1>5, <1>6, <1>7

LEMMA SerialStep ==
  ASSUME ~EagerOperator, TypeOK, JobOK, Logged, Serial, [Next]_vars
  PROVE  Serial'
<1> USE DEF Serial, ActionAtMostOnce, Returned
<1>1. CASE \E w \in Worker : WorkerStep(w)
  BY <1>1, SerialWorker
<1>2. CASE Request
  <2>1. ASSUME NEW b \in BOOLEAN, Launch(snap, b), lockHolder' = None PROVE Serial'
    <3>1. \A v \in Worker : pc[v] = "idle"
      BY <2>1 DEF Launch
    <3>2. PICK w \in Worker : pc' = [pc EXCEPT ![w] = "preflight"]
      BY <2>1 DEF Launch, Goto
    <3>3. \A v \in Worker : pc'[v] = "preflight" => v = w
      BY <3>1, <3>2 DEF TypeOK
    <3>4. \A v \in Worker : pc'[v] \in {"idle", "preflight"}
      BY <3>1, <3>2 DEF TypeOK
    <3>5. execs' = execs
      BY <2>1 DEF Launch
    <3> QED BY <2>1, <3>3, <3>4, <3>5
  <2>2. CASE Start \/ Resume \/ OperatorLaunch \/ RepairAndGo
    BY <2>1, <2>2 DEF Start, Resume, OperatorLaunch, RepairAndGo
  <2>3. CASE OperatorResume
    BY <2>3 DEF OperatorResume, local
  <2>6. CASE OperatorUnblock
    <3>1. Returned /\ pc' = pc /\ execs' = execs
      BY <2>6, "retry" # None DEF OperatorUnblock, None
    <3> QED BY <3>1
  <2>4. CASE Stop
    BY <2>4 DEF Stop, local
  <2>5. CASE RegisterRetainedEvidence
    <3>1. snap'.attempts = snap.attempts
      BY <2>5, EvidenceType DEF RegisterRetainedEvidence, TypeOK
    <3> QED BY <2>5, <3>1 DEF RegisterRetainedEvidence, local
  <2> QED BY <1>2, <2>2, <2>3, <2>4, <2>5, <2>6 DEF Request
<1>3. CASE Restart
  BY <1>3 DEF Restart, None
<1>4. CASE Environment
  BY <1>4 DEF Environment, mem, local
<1>5. CASE UNCHANGED vars
  BY <1>5 DEF vars, mem, local
<1> QED BY <1>1, <1>2, <1>3, <1>4, <1>5 DEF Next

(* When requests wait for the previous worker to return, an identical action on *)
(* identical input reaches the executor at most once, whatever is stopped,      *)
(* resumed, repaired, registered or restarted in between.  The assumption is    *)
(* needed: with an eager operator TLC finds the same action executed twice.     *)
THEOREM AtMostOnce ==
  ASSUME ~EagerOperator
  PROVE  Spec => []ActionAtMostOnce
<1>1. Init => Logged /\ Serial
  <2> SUFFICES ASSUME Init PROVE Logged /\ Serial
    OBVIOUS
  <2> QED BY DEF Init, Logged, ExecutedIsRecorded, EmptySnapshot, Serial, Returned,
                 ActionAtMostOnce, None
<1>2. TypeOK /\ JobOK /\ Logged /\ Serial /\ [Next]_vars => (Logged /\ Serial)'
  BY LoggedStep, SerialStep
<1>3. Serial => ActionAtMostOnce
  BY DEF Serial
<1> QED BY <1>1, <1>2, <1>3, TypeCorrect, PTL DEF Spec
=============================================================================
