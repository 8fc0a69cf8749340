CONSTANTS
  MaxRuns = 2
  Day = {1, 2}
  Worker = {w1, w2}
  CanSelect = TRUE
  MaxTasks = 2
  MaxResume = 1
  MaxCrash = 1
SYMMETRY WorkerSymmetry
SPECIFICATION Spec
INVARIANTS TypeOK CompleteHasTelemetry OnlyCurrentIsOpen SettledIsRecorded
PROPERTIES CompleteIsFinal ImplementsRunLog
CHECK_DEADLOCK FALSE
