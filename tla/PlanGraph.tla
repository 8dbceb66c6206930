----------------------------- MODULE PlanGraph -----------------------------
(***************************************************************************)
(* PlanGraphExecutorService and the LangGraph state machine it runs        *)
(* (infra/graph/plan-execution.graph.ts), engine 'graph': one action per   *)
(* node together with the conditional edge that leaves it, the interrupt   *)
(* for destructive actions, the approver and the resumption.               *)
(*                                                                         *)
(* LangGraph itself is external: it runs one node at a time, merges what   *)
(* the node returns into the state, and gives up an invocation that needs  *)
(* more than RecursionLimit nodes.                                         *)
(***************************************************************************)
EXTENDS Plans

CONSTANTS
  RecursionLimit,   \* nodes per graph.invoke; 100 in the code
  Approvals         \* what DestructiveActionApproverPort.approve may answer
                    \* unless the policy is ALLOW; {FALSE} for the bundled adapter

ASSUME GraphAssumption == RecursionLimit \in Nat /\ Approvals \subseteq BOOLEAN

VARIABLES
  plan,          \* currentPlan.steps
  stepIndex,     \* stepIndex + 1
  attempt,       \* attempt + 1
  replans,
  iterations,
  node,          \* the node about to run, interrupted, or END
  validOk,       \* lastValidation.ok
  risky,         \* currentAction reads as destructive
  execOk,        \* lastExecResult.ok
  passed, patchedStep, repeatStep,
  steps,         \* which step, and whether its record is valid
  warnings,      \* ids of the steps warned about because of their own check
  asserted,      \* ids with a passed businessAssertion evaluation
  failedStep,    \* NoStep when undefined
  outcome,       \* running, ok, failed, thrown or recursion (GraphRecursionError)
  supersteps,    \* nodes run by the current invocation
  resume,        \* the invocation carries Command({ resume: true })
  granted,       \* history: approvals given
  destructions   \* history: destructive actions executed

flags   == <<passed, patchedStep, repeatStep>>
ground  == <<plan, stepIndex, attempt, replans, iterations>>
report  == <<steps, warnings, asserted, failedStep>>
history == <<granted, destructions>>
vars == <<ground, node, validOk, risky, execOk, flags, report, outcome, supersteps, resume, history>>

NoStep == [id |-> PlanAssertions, ok |-> TRUE]
QaStep == [id : StepIds \union {PlanAssertions}, ok : BOOLEAN]

step == plan[stepIndex]
Record(ok) == [id |-> step.id, ok |-> ok]
LastStep == IF steps = << >> THEN NoStep ELSE steps[Len(steps)]

\* LangGraph runs node n and follows an edge to m.
Visit(n, m) ==
  /\ node = n
  /\ supersteps < RecursionLimit
  /\ supersteps' = supersteps + 1
  /\ node' = m

\* done: true, ok: false, and the edge to END.
End(n, record) ==
  /\ Visit(n, "END")
  /\ failedStep' = record
  /\ outcome' = "failed"

----------------------------------------------------------------------------
Init ==
  /\ plan \in InitialPlans
  /\ stepIndex = 1
  /\ attempt = 1
  /\ replans = 0
  /\ iterations = [id \in StepIds |-> 1]
  /\ node = "observe"
  /\ validOk = TRUE
  /\ risky = FALSE
  /\ execOk = FALSE
  /\ passed = FALSE /\ patchedStep = FALSE /\ repeatStep = FALSE
  /\ steps = << >>
  /\ warnings = {}
  /\ asserted = {}
  /\ failedStep = NoStep
  /\ outcome = "running"
  /\ supersteps = 0
  /\ resume = FALSE
  /\ granted = 0
  /\ destructions = 0

\* A patch may have made the plan shorter than the place it is at: the node
\* then finds no step and throws.
Observe ==
  /\ stepIndex <= Len(plan)
  /\ Visit("observe", "precheck")
  /\ attempt' = 1
  /\ passed' = FALSE /\ patchedStep' = FALSE /\ repeatStep' = FALSE
  /\ UNCHANGED <<plan, stepIndex, replans, iterations, validOk, risky, execOk, report, outcome, resume, history>>

PrecheckEdge(ok) == CASE ok               -> "resolveAction"
                      [] ~ok /\ step.warn -> "advance"
                      [] OTHER            -> "replan"

\* A failed precondition of a CONTINUE_WITH_WARNING step leaves no warning.
Precheck ==
  /\ validOk' \in BOOLEAN
  /\ Visit("precheck", PrecheckEdge(validOk'))
  /\ UNCHANGED <<ground, risky, execOk, flags, report, outcome, resume, history>>

\* currentAction is undefined when neither the page nor the provider gives one.
ResolveAction ==
  /\ node = "resolveAction"
  /\ \E found \in BOOLEAN, reason \in BOOLEAN :
       /\ risky' = (found /\ (step.destructive \/ reason))
       /\ Visit("resolveAction", IF found THEN "policyGuard" ELSE "replan")
  /\ UNCHANGED <<ground, validOk, execOk, flags, report, outcome, resume, history>>

PolicyGuard ==
  /\ \/ Visit("policyGuard", "destructiveGuard") /\ UNCHANGED <<steps, failedStep, outcome>>
     \/ End("policyGuard", Record(FALSE)) /\ steps' = Append(steps, Record(FALSE))
  /\ UNCHANGED <<ground, validOk, risky, execOk, flags, warnings, asserted, resume, history>>

\* Mutant of DestructiveGuard: an approval outlives the action it was given for.
DestructiveGuardKeepingApproval ==
  /\ Visit("destructiveGuard", IF AllowDestructive \/ ~risky \/ resume THEN "execute" ELSE "interrupted")
  /\ UNCHANGED <<ground, validOk, risky, execOk, flags, report, outcome, resume, history>>

\* interrupt() throws out of the node the first time and returns when the
\* invocation resumes it.
DestructiveGuard ==
  /\ Visit("destructiveGuard", IF AllowDestructive \/ ~risky \/ resume THEN "execute" ELSE "interrupted")
  /\ resume' = FALSE
  /\ UNCHANGED <<ground, validOk, risky, execOk, flags, report, outcome, history>>

\* PlanGraphExecutorService asks the approver; a refusal ends the run with
\* ok: false and nothing else, a grant resumes the graph in a new invocation.
AskApprover ==
  /\ node = "interrupted"
  /\ \/ /\ FALSE \in Approvals
        /\ node' = "END"
        /\ outcome' = "failed"
        /\ UNCHANGED <<supersteps, resume, granted>>
     \/ /\ TRUE \in Approvals
        /\ node' = "destructiveGuard"
        /\ resume' = TRUE
        /\ supersteps' = 0
        /\ granted' = granted + 1
        /\ UNCHANGED outcome
  /\ UNCHANGED <<ground, validOk, risky, execOk, flags, report, destructions>>

Execute ==
  /\ Visit("execute", "observeAfter")
  /\ execOk' \in BOOLEAN
  /\ destructions' = IF risky THEN destructions + 1 ELSE destructions
  /\ UNCHANGED <<ground, validOk, risky, flags, report, outcome, resume, granted>>

ObserveAfter ==
  /\ Visit("observeAfter", "postcheck")
  /\ UNCHANGED <<ground, validOk, risky, execOk, flags, report, outcome, resume, history>>

\* Mutant of PostcheckEdge: goes on without the assertions, as the legacy loop does.
PostcheckEdgeWithoutAssertions(isPassed, ok) ==
  CASE isPassed         -> "advance"
    [] ~isPassed /\ ~ok -> "replan"
    [] OTHER            -> "repeatUntil"

PostcheckEdge(isPassed, ok) ==
  CASE isPassed         -> "advance"
    [] ~isPassed /\ ~ok -> "replan"
    [] OTHER            -> "assertions"

\* With recovery, as in the legacy loop.
Postcheck ==
  /\ node = "postcheck"
  /\ \E post \in BOOLEAN :
       \/ /\ execOk /\ post
          /\ validOk' = TRUE
          /\ UNCHANGED <<passed, steps, warnings>>
       \/ /\ ~(execOk /\ post)
          /\ \E recovered \in BOOLEAN, again \in BOOLEAN :
               IF ~recovered /\ step.warn
               THEN /\ warnings' = warnings \union {step.id}
                    /\ validOk' = post
                    /\ passed' = TRUE
                    /\ UNCHANGED steps
               ELSE /\ validOk' = IF recovered THEN again ELSE post
                    /\ steps' = Append(steps, Record(validOk'))
                    /\ UNCHANGED <<passed, warnings>>
  /\ Visit("postcheck", PostcheckEdge(passed', validOk'))
  /\ UNCHANGED <<ground, risky, execOk, patchedStep, repeatStep, asserted, failedStep, outcome, resume, history>>

AssertionsEdge(ok) == IF ok THEN "repeatUntil" ELSE "replan"

\* Also after a recovery, on the observation made before it.
Assertions ==
  /\ node = "assertions"
  /\ validOk' \in IF step.asserts > 0 THEN BOOLEAN ELSE {TRUE}
  /\ steps' = Append(steps, Record(validOk'))
  /\ asserted' = IF validOk' THEN asserted \union {step.id} ELSE asserted
  /\ Visit("assertions", AssertionsEdge(validOk'))
  /\ UNCHANGED <<ground, risky, execOk, flags, warnings, failedStep, outcome, resume, history>>

RepeatUntil ==
  /\ \/ /\ repeatStep' = FALSE
        /\ Visit("repeatUntil", "advance")
        /\ UNCHANGED <<iterations, failedStep, outcome>>
     \/ /\ node = "repeatUntil"
        /\ step.repeatMax > 0
        /\ LET iteration == iterations[step.id] + 1
           IN \/ /\ iteration > step.repeatMax
                 /\ End("repeatUntil", LastStep)
                 /\ UNCHANGED <<iterations, repeatStep>>
              \/ /\ iteration <= step.repeatMax
                 /\ iterations' = [iterations EXCEPT ![step.id] = iteration]
                 /\ repeatStep' = TRUE
                 /\ Visit("repeatUntil", "observe")
                 /\ UNCHANGED <<failedStep, outcome>>
  /\ UNCHANGED <<plan, stepIndex, attempt, replans, validOk, risky, execOk, passed, patchedStep,
                 steps, warnings, asserted, resume, history>>

\* Without a patch the run ends with the last record, whichever step it is of.
Replan ==
  /\ \/ /\ node = "replan"
        /\ replans < MaxReplans
        /\ \E p \in Replans(plan, step) : plan' = p
        /\ replans' = replans + 1
        /\ patchedStep' = TRUE
        /\ passed' = TRUE
        /\ Visit("replan", "observe")
        /\ UNCHANGED <<failedStep, outcome>>
     \/ /\ End("replan", LastStep)
        /\ UNCHANGED <<plan, replans, patchedStep, passed>>
  /\ UNCHANGED <<stepIndex, attempt, iterations, validOk, risky, execOk, repeatStep,
                 steps, warnings, asserted, resume, history>>

\* Mutant of AdvanceEdge: off by one.
AdvanceEdgeTooEarly(i) == IF i >= Len(plan) THEN "finalAssertions" ELSE "observe"

AdvanceEdge(i) == IF i > Len(plan) THEN "finalAssertions" ELSE "observe"

Advance ==
  /\ IF patchedStep \/ repeatStep
     THEN patchedStep' = FALSE /\ repeatStep' = FALSE /\ UNCHANGED stepIndex
     ELSE stepIndex' = stepIndex + 1 /\ UNCHANGED <<patchedStep, repeatStep>>
  /\ passed' = FALSE
  /\ Visit("advance", AdvanceEdge(stepIndex'))
  /\ UNCHANGED <<plan, attempt, replans, iterations, validOk, risky, execOk, report, outcome, resume, history>>

FinalAssertions ==
  /\ \/ /\ Visit("finalAssertions", "END")
        /\ outcome' = "ok"
        /\ UNCHANGED <<steps, failedStep>>
     \/ LET record == [id |-> PlanAssertions, ok |-> FALSE]
        IN End("finalAssertions", record) /\ steps' = Append(steps, record)
  /\ UNCHANGED <<ground, validOk, risky, execOk, flags, warnings, asserted, resume, history>>

\* A node or the approver throws: the invocation rejects.
Throw ==
  /\ node # "END"
  /\ node' = "END"
  /\ outcome' = "thrown"
  /\ UNCHANGED <<ground, validOk, risky, execOk, flags, report, supersteps, resume, history>>

RecursionError ==
  /\ node \notin {"interrupted", "END"}
  /\ supersteps = RecursionLimit
  /\ node' = "END"
  /\ outcome' = "recursion"
  /\ UNCHANGED <<ground, validOk, risky, execOk, flags, report, supersteps, resume, history>>

Next ==
  \/ Observe \/ Precheck \/ ResolveAction \/ PolicyGuard
  \/ DestructiveGuard \/ AskApprover \/ Execute \/ ObserveAfter
  \/ Postcheck \/ Assertions \/ RepeatUntil \/ Replan
  \/ Advance \/ FinalAssertions
  \/ Throw \/ RecursionError

Spec == Init /\ [][Next]_vars

\* LangGraph schedules the next node as soon as one returned, and the approver
\* that ships with the code answers at once.
FairSpec == Spec /\ WF_vars(Next)

----------------------------------------------------------------------------
(* Properties                                                              *)

\* Every variable has its type.
TypeOK ==
  /\ plan \in Plan
  /\ stepIndex \in Nat \ {0}
  /\ attempt = 1
  /\ replans \in 0 .. MaxReplans
  /\ iterations \in [StepIds -> Nat]
  /\ node \in {"observe", "precheck", "resolveAction", "policyGuard", "destructiveGuard", "interrupted",
               "execute", "observeAfter", "postcheck", "assertions", "repeatUntil", "replan", "advance",
               "finalAssertions", "END"}
  /\ validOk \in BOOLEAN
  /\ risky \in BOOLEAN
  /\ execOk \in BOOLEAN
  /\ passed \in BOOLEAN
  /\ patchedStep \in BOOLEAN
  /\ repeatStep \in BOOLEAN
  /\ steps \in Seq(QaStep)
  /\ warnings \subseteq StepIds
  /\ asserted \subseteq StepIds
  /\ failedStep \in QaStep
  /\ outcome \in {"running", "ok", "failed", "thrown", "recursion"}
  /\ supersteps \in 0 .. RecursionLimit
  /\ resume \in BOOLEAN
  /\ granted \in Nat
  /\ destructions \in Nat

\* Every destructive action that was executed had an approval of its own: an
\* approval resumes one interrupt and does not outlive it.
DestructionsGranted == ~AllowDestructive => destructions <= granted

\* Unlike in the legacy loop, a step that needed recovery still has its
\* business assertions checked.
AssertionsChecked ==
  outcome = "ok" => \A i \in DOMAIN plan : plan[i].asserts > 0 => plan[i].warn \/ plan[i].id \in asserted

\* The run ends, if only by the recursion limit.
Terminates == <>(outcome # "running")

Run == INSTANCE PlanRun WITH outcome <- IF outcome = "recursion" THEN "thrown" ELSE outcome

\* The graph implements the contract of a plan run, like the legacy loop.
ImplementsPlanRun == Run!RunSpec

\* Switching the engine needs no other change: a plan is not ended by a limit
\* of the engine.
NoRecursionError == outcome # "recursion"
=============================================================================
