--------------------------- MODULE MCPlanExecutor ---------------------------
(* Instances of PlanExecutor for TLC: plans of two steps, two replans.     *)
EXTENDS PlanExecutor

MCStepIds == {"s1", "s2", "s3"}

MkStep(id, warn, destructive, asserts, attempts, repeatMax) ==
  [id |-> id, warn |-> warn, destructive |-> destructive, asserts |-> asserts,
   attempts |-> attempts, repeatMax |-> repeatMax]

\* Retried and repeated steps, a step that may be excused, a destructive one.
MCInitialPlans ==
  { << MkStep("s1", FALSE, FALSE, 1, 2, 0), MkStep("s2", TRUE,  FALSE, 0, 1, 0) >>,
    << MkStep("s1", FALSE, FALSE, 0, 1, 2), MkStep("s2", FALSE, FALSE, 1, 1, 0) >>,
    << MkStep("s1", FALSE, TRUE,  0, 1, 0) >> }

\* Without retries, for the runs that look for a violation.
MCShortPlans ==
  { << MkStep("s1", FALSE, FALSE, 1, 1, 0), MkStep("s2", FALSE, FALSE, 1, 1, 0) >> }

\* One and two replacement steps, one that drops the assertions, one that is
\* destructive, one that would turn into a warning.
MCPatchBodies ==
  { << MkStep("s3", FALSE, FALSE, 1, 1, 0) >>,
    << MkStep("s3", FALSE, FALSE, 0, 1, 0) >>,
    << MkStep("s1", FALSE, FALSE, 0, 1, 2), MkStep("s2", FALSE, FALSE, 1, 1, 0) >>,
    << MkStep("s3", FALSE, TRUE, 1, 1, 0) >>,
    << MkStep("s3", TRUE, FALSE, 1, 1, 0) >> }
=============================================================================
