----------------------------- MODULE RunPreflight -----------------------------
(* What a Go decides on: the intent of LocalLLMDayProgram.prepare_intent, the   *)
(* facts AuthorityFactResolver.resolve (backend/control/preflight_authority.py) *)
(* derives for it from recorded grants and observations, and the admission of   *)
(* day_admission (backend/control/day_git.py).                                  *)
(*                                                                              *)
(* One Go runs at a time, but it looks at the project five times: for the       *)
(* intent, for the head, for the required paths, for the status and for the     *)
(* fingerprint, and the project, its contract, the grants and the observations  *)
(* are other people's to change between any two of them.                        *)
EXTENDS FiniteSets, Naturals

CONSTANTS
  Contents,      \* contents of the project's approved files
  MaxGo,         \* bound: runs
  MaxRecords,    \* bound: grants, and observations, ever recorded
  MaxMoves,      \* bound: changes of the project, its contract and its paths
  MaxClock       \* bound: the clock

PreflightAssumption ==
  /\ IsFiniteSet(Contents) /\ Contents # {} /\ Contents \subseteq Nat \ {0}
  /\ {MaxGo, MaxRecords, MaxMoves, MaxClock} \subseteq Nat

VARIABLES
  project,       \* head, what it holds, what the files hold, the Day's contract,
                 \* and are the required paths there?
  today,         \* the clock
  grants,        \* the authority grants on file
  observed,      \* the prerequisite observations on file
  goes,          \* the Go under way
  preflight,     \* the fact records, by run
  admitted,      \* the run records, by run: state, what admission saw
  moves

preflightVars == <<project, today, grants, observed, goes, preflight, admitted, moves>>

Runs == 1..MaxGo
none == 0
Fingerprint == <<project.head, project.files>>
Dirty == project.files # project.committed

Quiet == [at |-> "idle", run |-> none, fingerprint |-> <<0, 0>>, contract |-> 0, head |-> none,
          time |-> 0, grant |-> none]
NoFact == [grant |-> none, observation |-> none]
NoRun == [state |-> "none", fingerprint |-> <<0, 0>>, contract |-> 0]

Init ==
  /\ \E c \in Contents :
       /\ \A d \in Contents : c <= d
       /\ project = [head |-> 1, committed |-> c, files |-> c, contract |-> 1, paths |-> TRUE]
  /\ today = 0 /\ grants = {} /\ observed = {} /\ goes = Quiet
  /\ preflight = [r \in Runs |-> NoFact] /\ admitted = [r \in Runs |-> NoRun] /\ moves = 0

records == <<grants, observed>>
world == <<project, today, records, moves>>
Used == {r \in Runs : admitted[r] # NoRun}
-----------------------------------------------------------------------------
(* go and prepare_intent: nothing runs, and the project is readable.            *)
Prepare ==
  /\ goes.at = "idle" /\ \A r \in Used : admitted[r].state = "ended"
  /\ Cardinality(Used) < MaxGo
  /\ goes' = [Quiet EXCEPT !.at = "head", !.run = Cardinality(Used) + 1,
                           !.fingerprint = Fingerprint, !.contract = project.contract]
  /\ UNCHANGED <<world, preflight, admitted>>

(* resolve: the time and the head; git may fail, which no grant then matches.   *)
ReadHead ==
  /\ goes.at = "head"
  /\ \E head \in {project.head, none} :
       goes' = [goes EXCEPT !.at = "grants", !.time = today, !.head = head]
  /\ UNCHANGED <<world, preflight, admitted>>

Matches(g) ==
  /\ goes.time < g.until
  /\ g.fingerprint = goes.fingerprint /\ g.contract = goes.contract /\ g.head = goes.head

(* The one grant that matches.  A file that cannot be read ends the search, and *)
(* what was found before it still counts: one match of several may be left.     *)
MatchGrants ==
  /\ goes.at = "grants"
  /\ \E readable \in SUBSET grants :
       LET found == {g \in readable : Matches(g)}
       IN  goes' = [goes EXCEPT !.at = "paths",
                      !.grant = IF Cardinality(found) = 1 THEN (CHOOSE g \in found : TRUE).id ELSE none]
  /\ UNCHANGED <<world, preflight, admitted>>

(* The one observation that matches, and the fact record of the run.            *)
ResolveFacts ==
  /\ goes.at = "paths"
  /\ LET found == {o \in observed : /\ o.ready /\ o.head = goes.head /\ project.paths
                                    /\ o.fingerprint = goes.fingerprint}
         one == IF Cardinality(found) = 1 THEN (CHOOSE o \in found : TRUE).id ELSE none
     IN  preflight' = [preflight EXCEPT ![goes.run] = [grant |-> goes.grant, observation |-> one]]
  /\ goes' = [goes EXCEPT !.at = "status"]
  /\ UNCHANGED <<world, admitted>>

RecordRun(state, fingerprint) ==
  /\ admitted' = [admitted EXCEPT ![goes.run] =
                    [state |-> state, fingerprint |-> fingerprint, contract |-> goes.contract]]
  /\ goes' = Quiet
  /\ UNCHANGED <<world, preflight>>

(* day_admission: the contract as it is now and the status of the project.      *)
CheckStatus ==
  /\ goes.at = "status"
  /\ IF project.contract # goes.contract \/ Dirty
     THEN RecordRun("HUMAN_ACTION_REQUIRED", Fingerprint)
     ELSE goes' = [goes EXCEPT !.at = "fingerprint"] /\ UNCHANGED <<world, preflight, admitted>>

(* Mutant: the project's fingerprint is not compared with the intent's.         *)
AdmitWhateverIsThere ==
  /\ goes.at = "fingerprint"
  /\ RecordRun(IF preflight[goes.run].grant = none THEN "HUMAN_ACTION_REQUIRED"
               ELSE IF preflight[goes.run].observation = none THEN "EXTERNAL_ACTION_REQUIRED"
               ELSE "PREFLIGHT", Fingerprint)

(* Its fingerprint, and the two facts of this run.                              *)
Admit ==
  /\ goes.at = "fingerprint"
  /\ RecordRun(IF Fingerprint # goes.fingerprint \/ preflight[goes.run].grant = none
               THEN "HUMAN_ACTION_REQUIRED"
               ELSE IF preflight[goes.run].observation = none THEN "EXTERNAL_ACTION_REQUIRED"
               ELSE "PREFLIGHT", Fingerprint)

(* A run comes to its end.                                                      *)
RunEnds ==
  /\ \E r \in Used : admitted' = [admitted EXCEPT ![r].state = "ended"]
  /\ UNCHANGED <<world, goes, preflight>>

(* The process dies or git raises: a Go that has no run record yet leaves its   *)
(* fact record behind, and the next Go is a run of its own.                     *)
GoLost ==
  /\ goes.at # "idle"
  /\ admitted' = [admitted EXCEPT ![goes.run] = [NoRun EXCEPT !.state = "ended"]]
  /\ goes' = Quiet
  /\ UNCHANGED <<world, preflight>>
-----------------------------------------------------------------------------
(* A person records a grant for the project as it is; grants are create-only.   *)
RecordGrant ==
  /\ Cardinality(grants) < MaxRecords
  /\ \E until \in 1..MaxClock + 1 :
       grants' = grants \cup {[id |-> Cardinality(grants) + 1, fingerprint |-> Fingerprint,
                               head |-> project.head, contract |-> project.contract, until |-> until]}
  /\ UNCHANGED <<project, today, observed, goes, preflight, admitted, moves>>

RecordObservation ==
  /\ Cardinality(observed) < MaxRecords
  /\ observed' = observed \cup {[id |-> Cardinality(observed) + 1, fingerprint |-> Fingerprint,
                                 head |-> project.head, ready |-> project.paths]}
  /\ UNCHANGED <<project, today, grants, goes, preflight, admitted, moves>>

(* Anyone works on the project.                                                 *)
ProjectMoves ==
  /\ moves < MaxMoves /\ moves' = moves + 1
  /\ \/ \E c \in Contents \ {project.files} : project' = [project EXCEPT !.files = c]
     \/ project' = [project EXCEPT !.head = @ + 1, !.committed = project.files]
     \/ project' = [project EXCEPT !.contract = @ + 1]
     \/ project' = [project EXCEPT !.paths = ~@]
  /\ UNCHANGED <<today, records, goes, preflight, admitted>>

ClockMoves ==
  /\ today < MaxClock /\ today' = today + 1
  /\ UNCHANGED <<project, records, goes, preflight, admitted, moves>>

Next ==
  \/ Prepare \/ ReadHead \/ MatchGrants \/ ResolveFacts \/ CheckStatus \/ Admit \/ RunEnds \/ GoLost
  \/ RecordGrant \/ RecordObservation \/ ProjectMoves \/ ClockMoves

Spec == Init /\ [][Next]_preflightVars
-----------------------------------------------------------------------------
Head == 0..MaxMoves + 1
Prints == Head \X (Contents \cup {0})
Ids == 0..MaxRecords

TypeOK ==
  /\ project \in [head : Head, committed : Contents, files : Contents, contract : Head, paths : BOOLEAN]
  /\ today \in 0..MaxClock /\ moves \in 0..MaxMoves
  /\ grants \subseteq [id : Ids, fingerprint : Prints, head : Head, contract : Head, until : 1..MaxClock + 1]
  /\ observed \subseteq [id : Ids, fingerprint : Prints, head : Head, ready : BOOLEAN]
  /\ goes \in [at : {"idle", "head", "grants", "paths", "status", "fingerprint"}, run : 0..MaxGo,
               fingerprint : Prints, contract : Head, head : Head, time : 0..MaxClock, grant : Ids]
  /\ preflight \in [Runs -> [grant : Ids, observation : Ids]]
  /\ admitted \in [Runs -> [fingerprint : Prints, contract : Head,
       state : {"none", "PREFLIGHT", "HUMAN_ACTION_REQUIRED", "EXTERNAL_ACTION_REQUIRED", "ended"}]]

(* A run is admitted only under a grant, and with an observation of its         *)
(* prerequisites, that were recorded for the very project and contract its      *)
(* admission saw, however the project moved since the intent was prepared.      *)
AdmittedAsGranted ==
  \A r \in Runs : admitted[r].state = "PREFLIGHT" =>
    /\ \E g \in grants :
         /\ g.id = preflight[r].grant /\ g.fingerprint = admitted[r].fingerprint
         /\ g.contract = admitted[r].contract /\ g.head = admitted[r].fingerprint[1]
    /\ \E o \in observed :
         /\ o.id = preflight[r].observation /\ o.fingerprint = admitted[r].fingerprint
         /\ o.ready
=============================================================================
