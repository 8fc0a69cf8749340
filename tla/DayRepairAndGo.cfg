SPECIFICATION FairSpec
CONSTANTS
  report = report
  tests = tests
  decision = decision
  edit = edit
  collect = collect
  noTemplate = noTemplate
  Gaps = {report}
  Templates = {edit, collect}
  NoTemplate = noTemplate
  Template <- MCTemplate
  Mode <- MCMode
  Requires <- MCRequires
  Produces <- MCProduces
  Retainable = {}
  Worker = {1}
  MaxRepo = 0
  MaxGen = 0
  MaxAuth = 0
  MaxCrash = 1
  EagerOperator = FALSE
PROPERTIES
  EveryWorkerReports
CHECK_DEADLOCK FALSE
