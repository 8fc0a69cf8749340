SPECIFICATION Spec
CONSTANTS
  report = report
  tests = tests
  decision = decision
  edit = edit
  collect = collect
  noTemplate = noTemplate
  Gaps = {report, tests}
  Templates = {edit, collect}
  NoTemplate = noTemplate
  Template <- MCTemplate
  Mode <- MCMode
  Requires <- MCRequires
  Produces <- MCProduces
  Retainable = {}
  Worker = {1, 2}
  MaxRepo = 0
  MaxGen = 0
  MaxAuth = 1
  MaxCrash = 0
  EagerOperator = TRUE
INVARIANTS
  ActionAtMostOnce
CHECK_DEADLOCK FALSE
