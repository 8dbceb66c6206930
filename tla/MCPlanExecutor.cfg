\* A provider that patches the step that failed.
SPECIFICATION FairSpec
CONSTANTS
  InitialPlans <- MCInitialPlans
  StepIds <- MCStepIds
  PatchBodies <- MCPatchBodies
  PlanAssertions = "PLAN_ASSERTIONS"
  MaxReplans = 2
  AllowDestructive = FALSE
  AnyTarget = FALSE
INVARIANTS FailureNamesItsStep OkCoversFinalPlan
PROPERTIES SettlesEveryStep  Terminates ImplementsPlanRun
CHECK_DEADLOCK FALSE
