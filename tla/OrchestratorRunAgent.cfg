SPECIFICATION FairSpec
CONSTANTS
  ScenarioOf <- MCSuite
  Planned <- MCPlanned
  Routes <- MCOrchestratorOnly
  NamesFailedStep = TRUE
  PrReport = TRUE
  Video = TRUE
  Trace = TRUE
INVARIANT PassedTasksWereRun
CHECK_DEADLOCK FALSE
