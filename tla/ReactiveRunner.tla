--------------------------- MODULE ReactiveRunner ---------------------------
(***************************************************************************)
(* ReactiveRunnerService (application/services/reactive-runner.service.ts):*)
(* the route of mode FULL_REACTIVE.  The tasks of a scenario one by one;   *)
(* for each, cycles of observing, a click on the outcome's own control     *)
(* when it is visible ("semantic" attempt), a decision of the LLM that is  *)
(* rejected until it would prove the task, the action, its validation and  *)
(* recovery.  The page and the LLM are nondeterministic.                   *)
(*                                                                         *)
(* Left out: tasks to log in.  ScenarioPlannerService drops them.          *)
(***************************************************************************)
EXTENDS ScenarioRun, Sequences, FiniteSets

CONSTANTS
  Kind,           \* task.expectedOutcome.kind: DEAUTHENTICATION, APPEARANCE_CHANGE or other
  ConsoleTasks,   \* isConsoleSafetyTask: the text of the task is about console errors
  MaxActions,     \* config.runtime.maxActionsPerTask
  MaxAttempts,    \* config.recovery.maxAttemptsPerTask
  SchemaRetries   \* config.llm.maxSchemaRetries

ASSUME ReactiveAssumption ==
  /\ Kind \in [1 .. N -> {"LOGOUT", "THEME", "OTHER"}]
  /\ ConsoleTasks \subseteq 1 .. N
  /\ MaxActions \in Nat \ {0}
  /\ MaxAttempts \in Nat \ {0}
  /\ SchemaRetries \in Nat

MaxCycles == IF MaxActions >= MaxAttempts THEN MaxActions ELSE MaxAttempts
Retries   == IF SchemaRetries >= 1 THEN SchemaRetries ELSE 1

VARIABLES
  pc,          \* where runScenario and runTask are
  cycle,       \* cycle + 1 of the current task
  attempts,    \* task.attempts.length of the current task
  tries,       \* decisions asked for in this cycle
  fresh,       \* obs is the latest observation of the page
  chosen,      \* what the decision expects, and whether its action is an assertion
  execOk,      \* exec.ok
  valid,       \* validation.ok
  recoveredOk, \* recovered.ok
  lastStep,    \* the last QaStep of each task
  bugs,        \* number of bugs recorded for each task
  memory       \* TaskMemoryService: state of each task

inner == <<cycle, attempts, tries, fresh, chosen, execOk, valid, recoveredOk>>
vars == <<task, status, outcome, pc, inner, lastStep, bugs, memory>>

\* What a decision expects, as far as the runner tells it apart: an item of the
\* menu on the way to the outcome (menu), a sign that the user is logged out
\* (proof), an empty console, or anything else.
Decision == [expect : {"menu", "proof", "console", "other"}, assertion : BOOLEAN]
NoDecision == [expect |-> "other", assertion |-> FALSE]
NoStep == [proof |-> FALSE, valid |-> FALSE, error |-> FALSE]
StepTaken(proof, ok, error) == [proof |-> proof, valid |-> ok, error |-> error]
Recorded(s) == lastStep' = [lastStep EXCEPT ![task] = s]
Remembered(state) == memory' = [memory EXCEPT ![task] = state]

----------------------------------------------------------------------------
(* How a task is settled.                                                  *)

Settled(s) ==
  /\ status' = [status EXCEPT ![task] = s]
  /\ task' = task + 1
  /\ pc' = "task"
  /\ UNCHANGED outcome

\* Mutant of Pass: memory.done is forgotten.
PassUnremembered ==
  /\ Settled("PASSED")
  /\ UNCHANGED <<inner, bugs, memory>>

Pass ==
  /\ Settled("PASSED")
  /\ Remembered("DONE")
  /\ UNCHANGED <<inner, bugs>>

\* recordBug writes evidence and may throw, after the task was blocked
\* (statusFirst) or before.
Block(statusFirst) ==
  /\ \/ /\ Settled("BLOCKED")
        /\ bugs' = [bugs EXCEPT ![task] = @ + 1]
     \/ /\ status' = IF statusFirst THEN [status EXCEPT ![task] = "BLOCKED"] ELSE status
        /\ outcome' = "thrown"
        /\ pc' = "done"
        /\ UNCHANGED <<task, bugs>>
  /\ UNCHANGED <<inner>>

\* Mutant of NextCycle: the task is started over.
NextCycleStartsOver ==
  /\ cycle' = 1
  /\ attempts' = 0
  /\ pc' = "cycle"
  /\ UNCHANGED <<task, status, outcome, bugs, memory,
                 tries, fresh, chosen, execOk, valid, recoveredOk>>

\* The end of the body of the loop over cycles.
NextCycle ==
  IF cycle = MaxCycles
  THEN Block(TRUE) /\ Remembered("BLOCKED")
  ELSE /\ cycle' = cycle + 1
       /\ pc' = "cycle"
       /\ UNCHANGED <<task, status, outcome, bugs, memory,
                      attempts, tries, fresh, chosen, execOk, valid, recoveredOk>>

----------------------------------------------------------------------------
Init ==
  /\ ScenarioInit
  /\ pc = "task"
  /\ cycle = 1
  /\ attempts = 0
  /\ tries = 0
  /\ fresh = FALSE
  /\ chosen = NoDecision
  /\ execOk = FALSE
  /\ valid = FALSE
  /\ recoveredOk = FALSE
  /\ lastStep = [t \in 1 .. N |-> NoStep]
  /\ bugs = [t \in 1 .. N |-> 0]
  /\ memory = [t \in 1 .. N |-> "NONE"]

\* Mutant of DepsBlocked: a dependency that is settled is good enough.
DepsBlockedOnlyPending(t) == \E d \in Deps[t] : status[d] = "PENDING"

DepsBlocked(t) == \E d \in Deps[t] : status[d] # "PASSED"

SkipTask ==
  /\ pc = "task"
  /\ task <= N
  /\ DepsBlocked(task)
  /\ Settled("SKIPPED")
  /\ UNCHANGED <<inner, lastStep, bugs, memory>>

StartTask ==
  /\ pc = "task"
  /\ task <= N
  /\ ~DepsBlocked(task)
  /\ cycle' = 1
  /\ attempts' = 0
  /\ Remembered("PLANNING")
  /\ pc' = "cycle"
  /\ UNCHANGED <<task, status, outcome, tries, fresh, chosen, execOk, valid, recoveredOk,
                 lastStep, bugs>>

EndScenario ==
  /\ pc = "task"
  /\ task > N
  /\ outcome' = "done"
  /\ pc' = "done"
  /\ UNCHANGED <<task, status, inner, lastStep, bugs, memory>>

\* The outcome's own control may be in the viewport.
Observe ==
  /\ pc = "cycle"
  /\ fresh' = TRUE
  /\ tries' = 0
  /\ \/ pc' = "decide"
     \/ Kind[task] # "OTHER" /\ pc' = "semantic"
  /\ UNCHANGED <<task, status, outcome, cycle, attempts, chosen, execOk, valid, recoveredOk,
                 lastStep, bugs, memory>>

\* trySemanticTheme and trySemanticLogout click the control and observe again;
\* when nothing is proven and attempts are left the caller goes on, with the
\* observation it had.
TrySemantic(here, goOn) ==
  /\ pc = here
  /\ \E ok \in BOOLEAN :
       /\ Recorded(StepTaken(Kind[task] = "LOGOUT", ok, ~ok))
       /\ \/ ok /\ Pass
          \/ /\ ~ok
             /\ attempts + 1 >= MaxCycles
             /\ Block(TRUE)
             /\ Remembered("BLOCKED")
          \/ /\ ~ok
             /\ attempts + 1 < MaxCycles
             /\ attempts' = attempts + 1
             /\ fresh' = FALSE
             /\ memory' = IF Kind[task] = "THEME" THEN [memory EXCEPT ![task] = "ACTING"] ELSE memory
             /\ pc' = goOn
             /\ UNCHANGED <<task, status, outcome, cycle, tries, chosen, execOk, valid,
                            recoveredOk, bugs>>

SemanticFirst == TrySemantic("semantic", "decide")
SemanticAfterMenu == TrySemantic("semanticAgain", "nextCycle")

\* The decisions semanticDecisionIssue lets through, after the promotions.  An
\* empty console proves nothing about a logout or a theme.
Proves(t, expect) ==
  CASE Kind[t] = "LOGOUT" -> expect \in {"menu", "proof"}
    [] Kind[t] = "THEME"  -> expect \in {"menu", "other"}
    [] OTHER              -> expect = "other" \/ (expect = "console" /\ t \in ConsoleTasks)

Accepted(t) == { d \in Decision : Proves(t, d.expect) /\ (d.expect = "menu" => ~d.assertion) }

\* intentAutocorrectEnvelope: a click on the outcome's control, if it is
\* visible, that expects its text.
Corrected(t) == [expect |-> IF Kind[t] = "OTHER" THEN "other" ELSE "menu", assertion |-> FALSE]

DecisionAccepted ==
  /\ pc = "decide"
  /\ chosen' \in Accepted(task)
  /\ pc' = "policy"
  /\ UNCHANGED <<task, status, outcome, cycle, attempts, tries, fresh, execOk, valid, recoveredOk,
                 lastStep, bugs, memory>>

Rejected ==
  /\ tries' = tries + 1
  /\ Remembered("PLANNING")
  /\ UNCHANGED <<task, status, outcome, cycle, attempts, fresh, execOk, valid, recoveredOk, lastStep, bugs>>

\* decideWithSemanticRetry: the decision is corrected, or the same observation
\* is put to the LLM again.
DecisionRejected ==
  /\ pc = "decide"
  /\ \/ Rejected /\ chosen' = Corrected(task) /\ pc' = "policy"
     \/ tries < Retries /\ Rejected /\ UNCHANGED <<chosen, pc>>
     \/ /\ tries >= Retries
        /\ Recorded(StepTaken(FALSE, FALSE, TRUE))
        /\ Remembered("BLOCKED")
        /\ Block(FALSE)

\* actionPolicy.validate refuses navigation to other routes and clicks at
\* coordinates, never a click on an element.
PolicyRefuses ==
  /\ pc = "policy"
  /\ chosen.expect # "menu"
  /\ Recorded(StepTaken(FALSE, FALSE, TRUE))
  /\ Remembered("BLOCKED")
  /\ Block(FALSE)

\* browser.execute, waitForQuiescence, observe.
Execute ==
  /\ pc = "policy"
  /\ execOk' \in BOOLEAN
  /\ recoveredOk' = FALSE
  /\ attempts' = attempts + 1
  /\ fresh' = TRUE
  /\ Remembered("ACTING")
  /\ pc' = "validate"
  /\ UNCHANGED <<task, status, outcome, cycle, tries, chosen, valid, lastStep, bugs>>

\* data.resolveObject throws a DomainError on what the decision expects.
UnresolvedExpectation ==
  /\ pc = "validate"
  /\ chosen.expect # "console"
  /\ Recorded(StepTaken(FALSE, FALSE, TRUE))
  /\ Remembered("BLOCKED")
  /\ Block(FALSE)

Validate ==
  /\ pc = "validate"
  /\ valid' \in BOOLEAN
  /\ pc' = IF execOk /\ valid' THEN "verdict" ELSE "recover"
  /\ UNCHANGED <<task, status, outcome, cycle, attempts, tries, fresh, chosen, execOk, recoveredOk,
                 lastStep, bugs, memory>>

\* RecoveryPolicyService: the fallback of the decision and the default actions,
\* in order, until one of them succeeds or the budget is used up; then the page
\* is observed and validated again.
Recover ==
  /\ pc = "recover"
  /\ recoveredOk' \in BOOLEAN
  /\ valid' \in BOOLEAN
  /\ pc' = "verdict"
  /\ UNCHANGED <<task, status, outcome, cycle, attempts, tries, fresh, chosen, execOk,
                 lastStep, bugs, memory>>

----------------------------------------------------------------------------
(* The verdict on the step.                                                *)

\* Mutants of Succeeded: any valid step will do, even the menu on the way; the
\* validation is not looked at.
SucceededByEffect == valid /\ (execOk \/ recoveredOk)
SucceededUnvalidated ==
  /\ chosen.expect # "menu"
  /\ Kind[task] = "LOGOUT" => chosen.expect = "proof"
  /\ execOk \/ (~chosen.assertion /\ recoveredOk)

\* stepSucceeded.
Succeeded ==
  /\ valid
  /\ chosen.expect # "menu"
  /\ Kind[task] = "LOGOUT" => chosen.expect = "proof"
  /\ execOk \/ (~chosen.assertion /\ recoveredOk)

Intermediate == valid /\ chosen.expect = "menu"

ThisStep == StepTaken(chosen.expect = "proof", valid, ~Succeeded /\ ~Intermediate)

StepSucceeds ==
  /\ pc = "verdict"
  /\ Succeeded
  /\ Recorded(ThisStep)
  /\ Pass

\* Mutant of ConsoleErrors: the return is missing.
ConsoleErrorsGoOn ==
  /\ pc = "verdict"
  /\ chosen.expect = "console"
  /\ ~valid
  /\ Recorded(ThisStep)
  /\ pc' = "nextCycle"
  /\ status' = [status EXCEPT ![task] = "BLOCKED"]
  /\ bugs' = [bugs EXCEPT ![task] = @ + 1]
  /\ UNCHANGED <<task, outcome, inner, memory>>

\* The task is blocked at once, and its memory is not told.
ConsoleErrors ==
  /\ pc = "verdict"
  /\ chosen.expect = "console"
  /\ ~valid
  /\ Recorded(ThisStep)
  /\ Block(TRUE)
  /\ UNCHANGED memory

\* After a menu was opened its control may be in the viewport.
StepFails ==
  /\ pc = "verdict"
  /\ ~Succeeded
  /\ ~(chosen.expect = "console" /\ ~valid)
  /\ Recorded(ThisStep)
  /\ \/ pc' = "nextCycle"
     \/ Intermediate /\ pc' = "semanticAgain"
  /\ UNCHANGED <<task, status, outcome, inner, bugs, memory>>

EndCycle ==
  /\ pc = "nextCycle"
  /\ NextCycle
  /\ UNCHANGED lastStep

\* The browser, the LLM or the evidence store throws.
Throw ==
  /\ pc # "done"
  /\ outcome' = "thrown"
  /\ pc' = "done"
  /\ UNCHANGED <<task, status, inner, lastStep, bugs, memory>>

Next ==
  \/ SkipTask \/ StartTask \/ EndScenario
  \/ Observe \/ SemanticFirst
  \/ DecisionAccepted \/ DecisionRejected \/ PolicyRefuses
  \/ Execute \/ UnresolvedExpectation \/ Validate \/ Recover
  \/ StepSucceeds \/ ConsoleErrors \/ StepFails
  \/ SemanticAfterMenu \/ EndCycle
  \/ Throw

Spec == Init /\ [][Next]_vars

\* One async function; every await in it is bounded by a timeout of the browser
\* or of the provider.
FairSpec == Spec /\ WF_vars(Next)

----------------------------------------------------------------------------
(* Properties                                                              *)

\* Every variable has its type; cycles and tries stay within their budgets.
TypeOK ==
  /\ task \in 1 .. N + 1
  /\ status \in [1 .. N -> {"PENDING", "PASSED", "BLOCKED", "SKIPPED"}]
  /\ outcome \in {"running", "done", "thrown"}
  /\ pc \in {"task", "cycle", "semantic", "decide", "policy", "validate", "recover", "verdict",
             "semanticAgain", "nextCycle", "done"}
  /\ cycle \in 1 .. MaxCycles
  /\ attempts \in Nat
  /\ tries \in 0 .. Retries + 1
  /\ fresh \in BOOLEAN
  /\ chosen \in Decision
  /\ execOk \in BOOLEAN
  /\ valid \in BOOLEAN
  /\ recoveredOk \in BOOLEAN
  /\ lastStep \in [1 .. N -> [proof : BOOLEAN, valid : BOOLEAN, error : BOOLEAN]]
  /\ bugs \in [1 .. N -> Nat]
  /\ memory \in [1 .. N -> {"NONE", "PLANNING", "ACTING", "BLOCKED", "DONE"}]

\* No task stops silently: in a scenario that ends, every task has passed, was
\* skipped, or is blocked with exactly one bug, however often it was retried,
\* corrected, recovered or tried semantically.
BlockedTasksHaveOneBug ==
  outcome # "thrown" =>
    \A t \in 1 .. task - 1 :
      /\ status[t] # "PENDING"
      /\ bugs[t] = IF status[t] = "BLOCKED" THEN 1 ELSE 0

\* A task to log out passes only on a step that proved a page without a user;
\* clicking the menu or finding it is not enough.
LogoutProven ==
  \A t \in 1 .. N : Kind[t] = "LOGOUT" /\ status[t] = "PASSED" => lastStep[t].proof /\ lastStep[t].valid

\* The last step of a task that passed is valid and carries no error, whichever
\* of the ways to pass it took; the report is made from the steps.
PassesOnAValidStep ==
  \A t \in 1 .. N : status[t] = "PASSED" => lastStep[t].valid /\ ~lastStep[t].error

\* The memory handed to the LLM and written to task-memory.json agrees with the
\* outcome of the task.
MemoryAgrees ==
  \A t \in 1 .. N :
    /\ memory[t] = "DONE" <=> status[t] = "PASSED"
    /\ memory[t] = "BLOCKED" /\ outcome # "thrown" => status[t] = "BLOCKED"

\* What is told of a task agrees, whichever way it went: its status, its bug,
\* its last step and what the LLM is given to remember of it.
OutcomesAgree == BlockedTasksHaveOneBug /\ PassesOnAValidStep /\ MemoryAgrees

\* The scenario ends.
Terminates == <>(outcome # "running")

\* The runner implements the contract of a scenario run.
ImplementsScenarioRun == ScenarioSpec

\* The LLM never decides with an element of an old observation (violated: after
\* a semantic attempt it is given the observation from before the click).
DecidesOnLatestObservation == pc = "decide" => fresh
=============================================================================
