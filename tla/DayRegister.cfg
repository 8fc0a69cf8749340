SPECIFICATION Spec
CONSTANTS
  report = report
  tests = tests
  decision = decision
  edit = edit
  collect = collect
  noTemplate = noTemplate
  Gaps = {report}
  Templates = {edit, collect}
  NoTemplate = noTemplate
  Template <- MCTemplate
  Mode <- MCMode
  Requires <- MCRequires
  Produces <- MCProduces
  Retainable = {report}
  Worker = {1}
  MaxRepo = 0
  MaxGen = 0
  MaxAuth = 0
  MaxCrash = 0
  EagerOperator = FALSE
INVARIANTS
  FailureHasCause
CHECK_DEADLOCK FALSE
