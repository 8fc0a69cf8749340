CONSTANTS
  MaxRuns = 2
  Day = {1, 2}
  Worker = {w1}
  CanSelect = FALSE
  MaxTasks = 1
  MaxResume = 1
  MaxCrash = 0
SPECIFICATION Spec
INVARIANTS AdmittedRunOwnsTheDay
CHECK_DEADLOCK FALSE
