------------------------------- MODULE Plans -------------------------------
(***************************************************************************)
(* Execution plans and the patches a replan may apply to them, as in       *)
(* domain/schemas/execution-plan.schema.ts and                             *)
(* application/services/plan-patch-applier.service.ts.                     *)
(*                                                                         *)
(* A step keeps what control depends on.  Its conditions and its action    *)
(* are left out: whether they hold, resolve or succeed is decided by the   *)
(* browser and the page, so the executors choose it nondeterministically.  *)
(***************************************************************************)
EXTENDS Naturals, Sequences

CONSTANTS
  InitialPlans,     \* the plans a run may start from
  MaxReplans,       \* plan.runtime.maxReplansPerScenario; 0 in mode PLAN_AND_EXECUTE
  StepIds,          \* identifiers a step may carry (they need not be unique)
  PlanAssertions,   \* the id of the pseudo-step of the final plan assertions
  PatchBodies,      \* the step sequences a replan provider may put in a patch
  AllowDestructive, \* config.runtime.destructiveActionPolicy = 'ALLOW'
  AnyTarget         \* TRUE: the provider may name any step of the plan and
                    \* reuse ids; FALSE: it patches the step that failed and
                    \* keeps the ids of the plan unique

\* warn: onFailure = CONTINUE_WITH_WARNING.  destructive: the description
\* matches looksDestructive.  asserts: number of business assertions.
\* attempts: maxAttempts ?? runtime.maxAttemptsPerStep.  repeatMax: 0 when the
\* step has no repeatUntil, otherwise maxIterations ?? 10.
Step == [id          : StepIds,
         warn        : BOOLEAN,
         destructive : BOOLEAN,
         asserts     : Nat,
         attempts    : Nat \ {0},
         repeatMax   : Nat]

Plan == Seq(Step) \ {<< >>}

ASSUME PlansAssumption ==
  /\ PlanAssertions \notin StepIds
  /\ InitialPlans \subseteq Plan
  /\ PatchBodies \subseteq Plan
  /\ MaxReplans \in Nat
  /\ AllowDestructive \in BOOLEAN
  /\ AnyTarget \in BOOLEAN

\* The operations that change the plan.  mark_blocked, a patch for another plan
\* or version (STALE_PLAN_PATCH), an unknown step and a provider that throws all
\* come back to the executor as "no plan", so they are not told apart.
\* overlay: replanReason = MODAL_OR_OVERLAY_DETECTED.  The provider fills it in
\* and nothing compares it with the reason it was asked to replan for.
Patch == [operation : {"insert_after", "replace_step", "replace_remaining_steps"},
          stepId    : StepIds,
          overlay   : BOOLEAN,
          steps     : PatchBodies]

Has(p, id) == \E i \in DOMAIN p : p[i].id = id

\* current.steps.findIndex((step) => step.id === stepId), counted from 1.
FirstIndex(p, id) == CHOOSE i \in DOMAIN p :
                       /\ p[i].id = id
                       /\ \A j \in DOMAIN p : p[j].id = id => i <= j

Before(p, i) == SubSeq(p, 1, i - 1)
After(p, i)  == SubSeq(p, i + 1, Len(p))

\* Mutant of PatchedPlan: replace_remaining_steps forgets the steps before.
PatchedPlanWithoutPrefix(p, patch) ==
  IF patch.operation = "replace_remaining_steps" THEN patch.steps ELSE p

PatchedPlan(p, patch) ==
  LET i == FirstIndex(p, patch.stepId)
  IN CASE patch.operation = "insert_after" -> Before(p, i) \o <<p[i]>> \o patch.steps \o After(p, i)
       [] patch.operation = "replace_step" -> Before(p, i) \o patch.steps \o After(p, i)
       [] OTHER                            -> Before(p, i) \o patch.steps

\* The steps a patch takes out of the plan.
AffectedIndexes(p, patch) ==
  LET i == FirstIndex(p, patch.stepId)
  IN CASE patch.operation = "insert_after" -> {}
       [] patch.operation = "replace_step" -> {i}
       [] OTHER                            -> i .. Len(p)

\* Mutant of SafePatch: the business assertions are not compared.
SafePatchIgnoringAssertions(p, patch) ==
  \A i \in DOMAIN patch.steps :
    /\ patch.steps[i].destructive => AllowDestructive
    /\ patch.steps[i].warn => patch.overlay

\* assertPatchSafety.  The schema gives every step a postcondition, so patches
\* that would remove them are not modelled.
SafePatch(p, patch) ==
  /\ \A i \in DOMAIN patch.steps :
       /\ patch.steps[i].destructive => AllowDestructive
       /\ patch.steps[i].warn => patch.overlay
  /\ \A a \in AffectedIndexes(p, patch) :
       p[a].asserts > 0 => \E i \in DOMAIN patch.steps : patch.steps[i].asserts >= p[a].asserts

UniqueIds(p) == \A i, j \in DOMAIN p : p[i].id = p[j].id => i = j

\* The patches the decision provider may answer with for the failed step.
Proposed(p, failed) ==
  { patch \in Patch :
      /\ Has(p, patch.stepId)
      /\ AnyTarget \/ (patch.stepId = failed.id /\ UniqueIds(PatchedPlan(p, patch))) }

\* The plans PlanReplannerService.replan may return.
Replans(p, failed) == { PatchedPlan(p, patch) : patch \in {q \in Proposed(p, failed) : SafePatch(p, q)} }
=============================================================================
