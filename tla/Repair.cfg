SPECIFICATION FairSpec
CONSTANTS
  Proposal = {p1, p2}
  MaxProposals = 3
  Seconds = 2
  MaxTime = 2
  MaxCrash = 2
INVARIANTS
  TypeOK
  ReviewOncePerGrant
  WorkIsBounded
PROPERTIES
  EscalationIsFinal
  LocalPhaseBounded
  RepairRunsOut
  ImplementsLadder
  EpisodeEnds
CHECK_DEADLOCK FALSE
