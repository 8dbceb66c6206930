------------------------------ MODULE PlanRun ------------------------------
(***************************************************************************)
(* What executing a plan promises, whatever the engine: the steps of the   *)
(* current plan are left behind one at a time and in order, the plan is    *)
(* rewritten at most MaxReplans times and only while it is running, a run  *)
(* succeeds only once every step of its plan is behind it, and its outcome *)
(* is decided once.  PlanExecutor (engine 'legacy') and PlanGraph (engine  *)
(* 'graph') both implement it.                                             *)
(***************************************************************************)
EXTENDS Plans

VARIABLES
  plan,        \* the current plan
  stepIndex,   \* the step being executed, counted from 1
  replans,     \* how often the plan was rewritten
  outcome      \* running, ok, failed (ok: false) or thrown (an exception)

runVars == <<plan, stepIndex, replans, outcome>>

RunInit ==
  /\ plan \in InitialPlans
  /\ stepIndex = 1
  /\ replans = 0
  /\ outcome = "running"

LeaveStep ==
  /\ outcome = "running"
  /\ stepIndex <= Len(plan)
  /\ stepIndex' = stepIndex + 1
  /\ UNCHANGED <<plan, replans, outcome>>

RewritePlan ==
  /\ outcome = "running"
  /\ stepIndex <= Len(plan)
  /\ replans < MaxReplans
  /\ plan' \in Plan
  /\ replans' = replans + 1
  /\ UNCHANGED <<stepIndex, outcome>>

Succeed ==
  /\ outcome = "running"
  /\ stepIndex > Len(plan)
  /\ outcome' = "ok"
  /\ UNCHANGED <<plan, stepIndex, replans>>

GiveUp ==
  /\ outcome = "running"
  /\ outcome' \in {"failed", "thrown"}
  /\ UNCHANGED <<plan, stepIndex, replans>>

RunNext == LeaveStep \/ RewritePlan \/ Succeed \/ GiveUp

RunSpec == RunInit /\ [][RunNext]_runVars
=============================================================================
