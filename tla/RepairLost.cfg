SPECIFICATION Spec
CONSTANTS
  Proposal = {p1, p2}
  MaxProposals = 3
  Seconds = 2
  MaxTime = 3
  MaxCrash = 1
INVARIANTS
  VerifiedIsAccepted
CHECK_DEADLOCK FALSE
