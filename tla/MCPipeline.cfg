SPECIFICATION Spec
CONSTANTS
  Jobs = {pr1, pr2}
  Memory = memory
  NoFile = noFile
  NoPlan = noPlan
  MaxRequired = 1
  MaxFailures = 1
SYMMETRY Symmetry
INVARIANTS StopsAtGates PlanIsForItsDemand
PROPERTY OkMeansTested
