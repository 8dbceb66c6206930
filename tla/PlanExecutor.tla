---------------------------- MODULE PlanExecutor ----------------------------
(***************************************************************************)
(* PlanExecutorService (application/services/plan-executor.service.ts),    *)
(* engine 'legacy': the loop over the steps of a plan, the loop over the   *)
(* attempts of a step, recovery, replanning, repeatUntil and the final     *)
(* assertions.  One action per stretch of code between two decisions; what *)
(* the browser, the page and the decision provider answer is               *)
(* nondeterministic.                                                       *)
(***************************************************************************)
EXTENDS Plans, FiniteSets

VARIABLES
  plan,         \* currentPlan.steps
  stepIndex,    \* stepIndex + 1
  attempt,      \* attempt + 1 of the for loop
  replans,
  iterations,   \* the Map of repeatUntil iterations, keyed by step id
  pc,           \* where the loop is
  risky,        \* the resolved action reads as destructive
  execOk,       \* exec.ok of the last action
  postOk,       \* post.ok of the last action
  steps,        \* result.steps: which step, and whether its record is valid
  warnings,     \* result.warnings: which step, and what about
  asserted,     \* ids with a passed businessAssertion evaluation
  failedStep,   \* result.failedStep, or NoStep
  outcome       \* running, ok, failed (ok: false) or thrown (an exception)

result == <<steps, warnings, asserted, failedStep>>
vars == <<plan, stepIndex, attempt, replans, iterations, pc, risky, execOk, postOk,
          steps, warnings, asserted, failedStep, outcome>>

NoStep == [id |-> PlanAssertions, ok |-> TRUE]
QaStep == [id : StepIds \union {PlanAssertions}, ok : BOOLEAN]
\* PAGE stands for QUIESCENCE_TIMEOUT; accessibility findings are left out.
Warning == [id : StepIds, about : {"PRECONDITION", "POSTCONDITION", "PAGE"}]

step == plan[stepIndex]
Record(ok) == [id |-> step.id, ok |-> ok]
Warn(about) == warnings' = warnings \union {[id |-> step.id, about |-> about]}

----------------------------------------------------------------------------
(* The ways out of the body of the attempt loop.                           *)

\* break with passed = true and neither patchedStep nor repeatStep.
NextStep ==
  /\ stepIndex' = stepIndex + 1
  /\ attempt' = 1
  /\ pc' = "precheck"
  /\ UNCHANGED <<plan, replans, iterations, outcome>>

\* continue: the same step, another attempt.
Retry ==
  /\ attempt < step.attempts
  /\ attempt' = attempt + 1
  /\ pc' = "precheck"
  /\ UNCHANGED <<plan, stepIndex, replans, iterations, failedStep, outcome>>

\* Mutants of Replan: the budget is not checked; the replan is not counted; the
\* loop goes on with the next step (no continue after patchedStep).
ReplanWithoutBudget ==
  /\ replans < MaxReplans + 1
  /\ \E p \in Replans(plan, step) : plan' = p
  /\ replans' = replans + 1
  /\ attempt' = 1
  /\ pc' = "precheck"
  /\ UNCHANGED <<stepIndex, iterations, failedStep, outcome>>

ReplanUncounted ==
  /\ replans < MaxReplans
  /\ \E p \in Replans(plan, step) : plan' = p
  /\ attempt' = 1
  /\ pc' = "precheck"
  /\ UNCHANGED <<stepIndex, replans, iterations, failedStep, outcome>>

ReplanMovesOn ==
  /\ replans < MaxReplans
  /\ \E p \in Replans(plan, step) : plan' = p
  /\ replans' = replans + 1
  /\ stepIndex' = stepIndex + 1
  /\ attempt' = 1
  /\ pc' = "precheck"
  /\ UNCHANGED <<iterations, failedStep, outcome>>

\* tryReplan answered a plan: it replaces the current one and the loop goes on
\* at the same stepIndex.
Replan ==
  /\ replans < MaxReplans
  /\ \E p \in Replans(plan, step) : plan' = p
  /\ replans' = replans + 1
  /\ attempt' = 1
  /\ pc' = "precheck"
  /\ UNCHANGED <<stepIndex, iterations, failedStep, outcome>>

Stop(how) ==
  /\ outcome' = how
  /\ pc' = "done"
  /\ UNCHANGED <<plan, stepIndex, attempt, replans, iterations>>

\* runner.fail with a record pushed at this very point or just before.
Fail(record) ==
  /\ failedStep' = record
  /\ Stop("failed")

\* tryReplan answered nothing: no budget left, a blocked or unsafe patch, or an
\* exception of the provider, so it is always possible.
ReplanOr(giveUp) == Replan \/ giveUp

----------------------------------------------------------------------------
Init ==
  /\ plan \in InitialPlans
  /\ stepIndex = 1
  /\ attempt = 1
  /\ replans = 0
  /\ iterations = [id \in StepIds |-> 1]
  /\ pc = "precheck"
  /\ risky = FALSE
  /\ execOk = FALSE
  /\ postOk = FALSE
  /\ steps = << >>
  /\ warnings = {}
  /\ asserted = {}
  /\ failedStep = NoStep
  /\ outcome = "running"

InStep(where) == pc = where /\ stepIndex <= Len(plan)

PreconditionsHold ==
  /\ InStep("precheck")
  /\ pc' = "resolve"
  /\ UNCHANGED <<plan, stepIndex, attempt, replans, iterations, risky, execOk, postOk, result, outcome>>

\* Mutant of PreconditionsFail: CONTINUE_WITH_WARNING leaves no warning.
PreconditionsFailSilently ==
  /\ InStep("precheck")
  /\ step.warn
  /\ NextStep
  /\ UNCHANGED <<steps, failedStep, warnings, risky, execOk, postOk, asserted>>

PreconditionsFail ==
  /\ InStep("precheck")
  /\ \/ /\ step.warn
        /\ Warn("PRECONDITION")
        /\ NextStep
        /\ UNCHANGED <<steps, failedStep>>
     \/ /\ ~step.warn
        /\ UNCHANGED warnings
        /\ \/ Replan /\ UNCHANGED steps
           \/ Fail(Record(FALSE)) /\ steps' = Append(steps, Record(FALSE))
  /\ UNCHANGED <<risky, execOk, postOk, asserted>>

\* The locator resolves at once, after a container was opened, or the decision
\* provider chooses another action, whose reason may read as destructive.
ActionResolved ==
  /\ InStep("resolve")
  /\ \E reason \in BOOLEAN : risky' = (step.destructive \/ reason)
  /\ pc' = "policy"
  /\ UNCHANGED <<plan, stepIndex, attempt, replans, iterations, execOk, postOk, result, outcome>>

\* Neither the page nor the provider gives an action: replan, or rethrow.
ActionUnresolved ==
  /\ InStep("resolve")
  /\ ReplanOr(Stop("thrown") /\ UNCHANGED failedStep)
  /\ UNCHANGED <<risky, execOk, postOk, steps, warnings, asserted>>

\* actionPolicy.validate may refuse any action (route, coordinates);
\* validateDestructiveText refuses a destructive one unless it is allowed.
PolicyRefuses ==
  /\ InStep("policy")
  /\ Fail(Record(FALSE))
  /\ steps' = Append(steps, Record(FALSE))
  /\ UNCHANGED <<risky, execOk, postOk, warnings, asserted>>

Execute ==
  /\ InStep("policy")
  /\ risky => AllowDestructive
  /\ execOk' \in BOOLEAN
  /\ pc' = "postcheck"
  /\ \/ UNCHANGED warnings
     \/ Warn("PAGE")
  /\ UNCHANGED <<plan, stepIndex, attempt, replans, iterations, risky, postOk, steps, asserted,
                 failedStep, outcome>>

CheckPostconditions ==
  /\ InStep("postcheck")
  /\ postOk' \in BOOLEAN
  /\ pc' = IF execOk /\ postOk' THEN "assert" ELSE "recover"
  /\ UNCHANGED <<plan, stepIndex, attempt, replans, iterations, risky, execOk, result, outcome>>

\* Mutant of AttemptFailed: off by one, the last attempt is never made.
AttemptFailedEarly ==
  /\ steps' = Append(steps, Record(FALSE))
  /\ \/ Retry
     \/ attempt + 1 >= step.attempts /\ ReplanOr(Fail(Record(FALSE)))

\* The record of the attempt is pushed before the decision what to do with it.
AttemptFailed ==
  /\ steps' = Append(steps, Record(FALSE))
  /\ \/ Retry
     \/ attempt >= step.attempts /\ ReplanOr(Fail(Record(FALSE)))

\* recovery.recover; the postconditions are checked again only if it succeeded,
\* otherwise the verdict of the action stands.
Recover ==
  /\ InStep("recover")
  /\ \E recovered \in BOOLEAN, again \in BOOLEAN :
       \/ /\ ~recovered /\ step.warn
          /\ Warn("POSTCONDITION")
          /\ NextStep
          /\ UNCHANGED <<steps, failedStep>>
       \/ /\ recovered \/ ~step.warn
          /\ UNCHANGED warnings
          /\ IF (recovered /\ again) \/ (~recovered /\ postOk)
             THEN /\ steps' = Append(steps, Record(TRUE))
                  /\ NextStep
                  /\ UNCHANGED failedStep
             ELSE AttemptFailed
  /\ UNCHANGED <<risky, execOk, postOk, asserted>>

CheckAssertions ==
  /\ InStep("assert")
  /\ \/ /\ steps' = Append(steps, Record(TRUE))
        /\ asserted' = asserted \union {step.id}
        /\ pc' = "repeat"
        /\ UNCHANGED <<plan, stepIndex, attempt, replans, iterations, failedStep, outcome>>
     \/ /\ step.asserts > 0
        /\ AttemptFailed
        /\ UNCHANGED asserted
  /\ UNCHANGED <<risky, execOk, postOk, warnings>>

RepeatUntilHolds ==
  /\ InStep("repeat")
  /\ NextStep
  /\ UNCHANGED <<risky, execOk, postOk, result>>

\* Mutant of RepeatUntilFails: the first record is reported instead of the last.
RepeatUntilBlamesFirst ==
  /\ InStep("repeat")
  /\ step.repeatMax > 0
  /\ Fail(steps[1])
  /\ UNCHANGED <<risky, execOk, postOk, steps, warnings, asserted>>

\* The iterations are counted by step id and outlive a patch of the step.
RepeatUntilFails ==
  /\ InStep("repeat")
  /\ step.repeatMax > 0
  /\ LET iteration == iterations[step.id] + 1
     IN \/ /\ iteration > step.repeatMax
           /\ Fail(steps[Len(steps)])
        \/ /\ iteration <= step.repeatMax
           /\ iterations' = [iterations EXCEPT ![step.id] = iteration]
           /\ attempt' = 1
           /\ pc' = "precheck"
           /\ UNCHANGED <<plan, stepIndex, replans, failedStep, outcome>>
  /\ UNCHANGED <<risky, execOk, postOk, steps, warnings, asserted>>

\* Mutant of FinalAssertions: off by one, the last step is left out.
FinalAssertionsTooEarly ==
  /\ pc = "precheck"
  /\ stepIndex >= Len(plan)
  /\ Stop("ok")
  /\ UNCHANGED <<risky, execOk, postOk, result>>

FinalAssertions ==
  /\ pc = "precheck"
  /\ stepIndex > Len(plan)
  /\ \/ Stop("ok") /\ UNCHANGED <<steps, failedStep>>
     \/ LET record == [id |-> PlanAssertions, ok |-> FALSE]
        IN Fail(record) /\ steps' = Append(steps, record)
  /\ UNCHANGED <<risky, execOk, postOk, warnings, asserted>>

\* An observation, a condition whose locator is gone or the browser throws;
\* nothing in the executor catches it.
Throw ==
  /\ pc # "done"
  /\ Stop("thrown")
  /\ UNCHANGED <<risky, execOk, postOk, result>>

Next ==
  \/ PreconditionsHold \/ PreconditionsFail
  \/ ActionResolved \/ ActionUnresolved
  \/ PolicyRefuses \/ Execute
  \/ CheckPostconditions \/ Recover
  \/ CheckAssertions \/ RepeatUntilHolds \/ RepeatUntilFails
  \/ FinalAssertions
  \/ Throw

\* The executor is a single async function: as long as the run has not ended,
\* some branch of it is taken.  Every await in it is bounded by a timeout of
\* the harness or of the provider client.
Spec == Init /\ [][Next]_vars
FairSpec == Spec /\ WF_vars(Next)

----------------------------------------------------------------------------
(* Properties                                                              *)

\* Every variable has its type.
TypeOK ==
  /\ plan \in Plan
  /\ stepIndex \in Nat \ {0}
  /\ attempt \in Nat \ {0}
  /\ replans \in 0 .. MaxReplans
  /\ iterations \in [StepIds -> Nat]
  /\ pc \in {"precheck", "resolve", "policy", "postcheck", "recover", "assert", "repeat", "done"}
  /\ risky \in BOOLEAN
  /\ execOk \in BOOLEAN
  /\ postOk \in BOOLEAN
  /\ steps \in Seq(QaStep)
  /\ warnings \subseteq Warning
  /\ asserted \subseteq StepIds
  /\ failedStep \in QaStep
  /\ outcome \in {"running", "ok", "failed", "thrown"}

LastStep == steps[Len(steps)]

\* A plan that ends with ok: false carries the record of the step it stopped at
\* as failedStep, and that record is the last one: the use case turns it into
\* the bug of the run and blocks its task (applyPlanExecutionResult).
FailureNamesItsStep ==
  outcome = "failed" =>
    /\ steps # << >>
    /\ failedStep = LastStep
    /\ failedStep.id = IF stepIndex > Len(plan) THEN PlanAssertions ELSE step.id

ExcusedIn(ws, id) == \E w \in ws : w.id = id /\ w.about # "PAGE"
Excused(id) == ExcusedIn(warnings, id)
Valid(id)   == \E i \in DOMAIN steps : steps[i] = [id |-> id, ok |-> TRUE]

\* The loop leaves a step only with a warning about it or when the last record
\* it pushed is a valid one of that step, and never while it changes the plan.
LeavesOnlySettledSteps ==
  [][stepIndex' # stepIndex =>
       /\ stepIndex' = stepIndex + 1
       /\ plan' = plan
       /\ ExcusedIn(warnings', step.id) \/ (steps' # << >> /\ LastStep' = Record(TRUE))]_vars

\* A plan that ends with ok: true has, for every step of its final version, a
\* valid record or a warning that excuses it: the use case passes every task of
\* such a run.  It needs a provider that patches the step that failed.
OkCoversFinalPlan ==
  outcome = "ok" => \A i \in DOMAIN plan : Valid(plan[i].id) \/ Excused(plan[i].id)

\* A replan does not alter the steps that were executed already.  It needs a
\* provider that patches the step that failed: the code does not ask for it.
ExecutedPrefixKept ==
  [][plan' # plan => Before(plan', stepIndex) = Before(plan, stepIndex)]_vars

\* A step is given up for a failed check (replanned, or the run failed) only
\* after all its attempts.
GivesUpAfterAllAttempts ==
  [][(replans' > replans \/ outcome' = "failed") /\ pc \in {"recover", "assert"}
       => attempt = step.attempts]_vars

\* The executor goes on to the next step, to another plan or to its end only
\* once the step is settled.
SettlesEveryStep == LeavesOnlySettledSteps /\ GivesUpAfterAllAttempts

\* For every step of the plan, a patched plan still holds a step with at least
\* as many business assertions, whatever the provider proposes.
StrongestAssertionsKept ==
  [][\A a \in DOMAIN plan : \E b \in DOMAIN plan' : plan'[b].asserts >= plan[a].asserts]_vars

\* Replanning is safe in both directions: it rewrites nothing that was executed
\* and weakens nothing that is still to come.
ReplansAreSafe == ExecutedPrefixKept /\ StrongestAssertionsKept

\* Every step a successful run did not excuse had its business assertions
\* checked.
AssertionsChecked ==
  outcome = "ok" =>
    \A i \in DOMAIN plan : plan[i].asserts > 0 => plan[i].id \in asserted \/ Excused(plan[i].id)

\* The run ends: attempts, replans and repeatUntil iterations are all bounded.
Terminates == <>(outcome # "running")

Run == INSTANCE PlanRun

\* The executor implements the contract of a plan run.
ImplementsPlanRun == Run!RunSpec
=============================================================================
