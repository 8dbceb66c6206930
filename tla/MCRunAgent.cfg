SPECIFICATION FairSpec
CONSTANTS
  ScenarioOf <- MCSuite
  Planned <- MCPlanned
  Routes <- MCRoutes
  NamesFailedStep = TRUE
  PrReport = TRUE
  Video = TRUE
  Trace = TRUE
INVARIANTS  EndsInOrder
PROPERTY EventuallyAnswered
CHECK_DEADLOCK FALSE
