--------------------------- MODULE MCDayController ---------------------------
(* Small instances of DayController for TLC.                                    *)
EXTENDS DayController

CONSTANTS report, tests, decision,  \* evidence types
          edit, collect,            \* templates
          noTemplate

(* A worktree template that needs the collected evidence, the read-only one     *)
(* that collects it, and evidence only an authority can supply.                 *)
MCTemplate == [g \in Gaps |-> CASE g = report -> edit [] g = tests -> collect
                               [] OTHER -> noTemplate]
MCMode == [t \in Templates |-> IF t = collect THEN "READ_ONLY" ELSE "ENGINEERING_WORKTREE"]
MCRequires == [t \in Templates |-> IF t = edit THEN {tests} \cap Gaps ELSE {}]
MCProduces == [t \in Templates |-> {g \in Gaps : MCTemplate[g] = t}]
=============================================================================
