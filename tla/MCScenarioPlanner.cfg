\* Limits small enough to be met by three tasks, and by three chunks.
SPECIFICATION OrchestratorSpec
CONSTANTS
  Answers <- MCAnswers
  Texts = {"a", "b", "c", "d", "text"}
  Criteria <- MCCriteria
  PublicLimit = 3
  AuthLimit = 2
  Requests <- MCRequests
  FreshIds = {101}
  MinMatchScore = 25
  MaxSelected = 2
INVARIANTS TasksComeInOrder NothingElseIsLeftOut ServedByTheBest
CHECK_DEADLOCK FALSE
