\* An approver that may grant or refuse; the limit is reached by long runs only.
SPECIFICATION FairSpec
CONSTANTS
  InitialPlans <- MCInitialPlans
  StepIds <- MCStepIds
  PatchBodies <- MCPatchBodies
  PlanAssertions = "PLAN_ASSERTIONS"
  MaxReplans = 1
  AllowDestructive = FALSE
  AnyTarget = FALSE
  RecursionLimit = 30
  Approvals = {TRUE, FALSE}
INVARIANTS DestructionsGranted AssertionsChecked
PROPERTY ImplementsPlanRun
CHECK_DEADLOCK FALSE
