\* An authenticated plan: a task, a theme change, a logout.
SPECIFICATION FairSpec
CONSTANTS
  N = 3
  Deps <- ChainDeps
  Kind <- ChainKind
  ConsoleTasks = {1}
  MaxActions = 1
  MaxAttempts = 2
  SchemaRetries = 1
INVARIANTS OutcomesAgree LogoutProven
PROPERTIES Terminates ImplementsScenarioRun
CHECK_DEADLOCK FALSE
