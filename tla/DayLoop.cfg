SPECIFICATION FairSpec
CONSTANTS
  report = report
  tests = tests
  decision = decision
  edit = edit
  collect = collect
  noTemplate = noTemplate
  Gaps = {report, decision}
  Templates = {edit, collect}
  NoTemplate = noTemplate
  Template <- MCTemplate
  Mode <- MCMode
  Requires <- MCRequires
  Produces <- MCProduces
  Retainable = {decision}
  Worker = {1}
  MaxRepo = 0
  MaxGen = 0
  MaxAuth = 1
  MaxCrash = 0
  EagerOperator = FALSE
INVARIANTS
  AuthorityNamesItsBlocker
  NoActionWhileBlocked
  ReturnedIsProjected
PROPERTIES
  WorkerReturns
CHECK_DEADLOCK FALSE
