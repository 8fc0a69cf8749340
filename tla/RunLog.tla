------------------------------- MODULE RunLog -------------------------------
(* What a run store promises: every run is created once, in a state admission   *)
(* chose, and from then on its states are only ever appended to.                *)
EXTENDS Sequences

CONSTANTS Run, State

VARIABLE log      \* the states each run has had, as versions() would read them

Init == log = [r \in Run |-> <<>>]

Create(r) ==
  /\ log[r] = <<>>
  /\ \E s \in State : log' = [log EXCEPT ![r] = <<s>>]

Extend(r) ==
  /\ log[r] # <<>>
  /\ \E s \in State : log' = [log EXCEPT ![r] = Append(@, s)]

Next == \E r \in Run : Create(r) \/ Extend(r)

Spec == Init /\ [][Next]_log
=============================================================================
