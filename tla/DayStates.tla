------------------------------ MODULE DayStates ------------------------------
(* The Day state machine of backend/control/day_state_machine.py: the states   *)
(* the LocalLLM Day controller uses, the two classes the controller asks about *)
(* and the table of legal transitions.                                         *)

ACTIVE == {"PREFLIGHT", "LOADING_CONTRACT", "INVENTORY", "VALIDATING",
           "DIAGNOSING_GAP", "COLLECTING_EVIDENCE", "EXECUTING_DAY_WORK",
           "CORRECTIVE_WORK", "REPAIR_SUPERVISOR", "REVALIDATING"}

AUTHORITY == {"HUMAN_ACTION_REQUIRED", "EXTERNAL_ACTION_REQUIRED"}

RESTING == {"IDLE", "PAUSED", "STOPPED", "COMPLETE", "FAILED_UNRECOVERABLE"}

DayState == ACTIVE \cup AUTHORITY \cup RESTING

Worked == {"COLLECTING_EVIDENCE", "EXECUTING_DAY_WORK", "CORRECTIVE_WORK"}

(* Targets of the literal table, before the loop that adds the exits every     *)
(* active state has.                                                           *)
Targets(s) ==
  CASE s \in {"IDLE", "PAUSED", "STOPPED", "FAILED_UNRECOVERABLE"} \cup AUTHORITY
                                -> {"PREFLIGHT"}
    [] s = "PREFLIGHT"          -> {"LOADING_CONTRACT"} \cup AUTHORITY
    [] s = "LOADING_CONTRACT"   -> {"INVENTORY"}
    [] s \in {"INVENTORY", "REVALIDATING"} -> {"VALIDATING"}
    [] s = "VALIDATING"         -> {"COMPLETE", "DIAGNOSING_GAP"}
    [] s = "DIAGNOSING_GAP"     -> Worked \cup {"REPAIR_SUPERVISOR", "REVALIDATING"}
                                          \cup AUTHORITY
    [] s \in Worked             -> {"REVALIDATING", "REPAIR_SUPERVISOR"} \cup AUTHORITY
    [] s = "REPAIR_SUPERVISOR"  -> {"REVALIDATING"} \cup AUTHORITY
    [] s = "COMPLETE"           -> {}

TRANSITIONS == [s \in DayState |->
                  Targets(s) \cup IF s \in ACTIVE
                                  THEN {"PAUSED", "STOPPED", "FAILED_UNRECOVERABLE"}
                                  ELSE {}]

(* validate_transition raises ValueError exactly when this is false.           *)
ValidTransition(before, after) == before # after /\ after \in TRANSITIONS[before]
=============================================================================
