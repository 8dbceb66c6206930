SPECIFICATION MCSpec
CONSTANTS
  Jobs = {j1, j2}
  None = None
  MaxOps = 2
  MaxFaults = 1
  Setups <- MCSetups
  MaxRetries = 1
  MaxLosses = 2
  Popups = {t1, t2, t3}
  MaxRounds = 2
INVARIANTS OneAtATime NothingLeftBehind LoginLasts ClickLeavesNoTab
PROPERTY EveryRunEnds
CHECK_DEADLOCK FALSE
