SPECIFICATION Spec
CONSTANTS
  Deadline = 2
  MaxForeign = 2
  MaxCrash = 2
  MaxReports = 2
  Transport <- MCTransport
  Confirms <- MCConfirms
  NeedsReply <- MCNeedsReply
  MaxEdits = 1
  MaxRuns = 3
  MaxRestarts = 1
  Caller = {"a", "b"}
  MaxRetry <- MCRetry
  BudgetRetry = 2
  DailyLimit = 1
  MaxCalls = 2
  MaxSpent = 3
  MaxRestart = 1
  Requester = {"a", "b"}
  MaxTouches = 1
  MaxRequests = 3
  MaxStops = 1
  Actor = {"a", "b"}
  Goal = {"goal"}
  MaxSteps = 4
  MaxReboots = 1
  Driver = {"a", "b"}
  PlanTask = {"t1", "t2"}
  MaxTasks = 2
  MaxArchitect = 2
  MaxCodex = 1
  MaxEvaluator = 1
  MaxRepairs = 1
  MaxFailed = 0
  MaxRetries = 1
  MaxReplans = 1
  MaxLoops = 2
  MaxInterrupts = 1
  Response = {"r"}
  Failure = {"f"}
  Message = {"m"}
  MaxAttempts = 2
  MaxRevision = 1
  MaxHeard = 2
  MaxForgets = 1
  Contents = {1, 2}
  MaxGo = 1
  MaxRecords = 2
  MaxMoves = 1
  MaxClock = 1
INVARIANTS TypesOK PostedAtMostOnce EscalatedIsNotApplied NextTaskCanStart CompletedOnce
  DecisionNeedsRepeat AttentionIsFinal CodexLimitKept AdmittedAsGranted
PROPERTIES RecoveryEnds ProcessedIsNotContinued HumanWaitEndsByConfirmation AppliesWhatWasBound
  ReviewedBeforeComplete
CHECK_DEADLOCK FALSE
