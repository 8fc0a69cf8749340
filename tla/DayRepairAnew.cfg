SPECIFICATION Spec
CONSTANTS
  report = report
  tests = tests
  decision = decision
  edit = edit
  collect = collect
  noTemplate = noTemplate
  Gaps = {report}
  Templates = {edit, collect}
  NoTemplate = noTemplate
  Template <- MCTemplate
  Mode <- MCMode
  Requires <- MCRequires
  Produces <- MCProduces
  Retainable = {}
  Worker = {1}
  MaxRepo = 1
  MaxGen = 0
  MaxAuth = 0
  MaxCrash = 1
  EagerOperator = FALSE
PROPERTIES
  ResumedRepairGoesOn
CHECK_DEADLOCK FALSE
