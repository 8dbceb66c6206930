---------------------------- MODULE MCPlanGraph ----------------------------
(* Instances of PlanGraph for TLC.                                         *)
EXTENDS PlanGraph

MCStepIds == {"s1", "s2", "s3"}

MkStep(id, warn, destructive, asserts, attempts, repeatMax) ==
  [id |-> id, warn |-> warn, destructive |-> destructive, asserts |-> asserts,
   attempts |-> attempts, repeatMax |-> repeatMax]

\* A repeated step, an excused one, destructive ones.
MCInitialPlans ==
  { << MkStep("s1", FALSE, FALSE, 1, 1, 2), MkStep("s2", TRUE, FALSE, 0, 1, 0) >>,
    << MkStep("s1", FALSE, TRUE,  0, 1, 2), MkStep("s2", FALSE, TRUE, 1, 1, 0) >> }

MCPatchBodies ==
  { << MkStep("s3", FALSE, FALSE, 1, 1, 0) >>,
    << MkStep("s1", FALSE, FALSE, 0, 1, 2), MkStep("s2", FALSE, FALSE, 1, 1, 0) >>,
    << MkStep("s3", FALSE, TRUE, 1, 1, 0) >> }

\* Ten plain steps.
MCTenIds == {"t1", "t2", "t3", "t4", "t5", "t6", "t7", "t8", "t9", "t10"}
MCTenSteps ==
  { << MkStep("t1", FALSE, FALSE, 0, 1, 0), MkStep("t2", FALSE, FALSE, 0, 1, 0),
       MkStep("t3", FALSE, FALSE, 0, 1, 0), MkStep("t4", FALSE, FALSE, 0, 1, 0),
       MkStep("t5", FALSE, FALSE, 0, 1, 0), MkStep("t6", FALSE, FALSE, 0, 1, 0),
       MkStep("t7", FALSE, FALSE, 0, 1, 0), MkStep("t8", FALSE, FALSE, 0, 1, 0),
       MkStep("t9", FALSE, FALSE, 0, 1, 0), MkStep("t10", FALSE, FALSE, 0, 1, 0) >> }
=============================================================================
