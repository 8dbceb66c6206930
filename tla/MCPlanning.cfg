CONSTANTS
  Requests <- MCRequests
  PlanAnswers <- MCPlanAnswers
  OutcomeAnswers <- MCOutcomeAnswers
  DecisionAnswers <- MCDecisionAnswers
  RateLimitRetries = 1
  MaxSchemaRetries = 1
  MaxRequests = 2
SPECIFICATION PlanningSpec
INVARIANTS PlanMayBeRun ActsOnWhatItSaw
PROPERTY EveryRequestEnds
CHECK_DEADLOCK FALSE
