# TLA+ specifications of qa-agent

qa-agent takes a demand and a configuration, plans test scenarios, drives a browser through them
with the help of an LLM, and reports what it found to files, to a pull request and in its exit
code. Around that core it reads the diff of a pull request, correlates it with the demand and with
what it remembers, builds the configuration of the run, learns from the outcome, and finds out
whether it can work on an application at all. This directory holds TLA+ models of these parts, the
TLC configurations that check them and proofs that TLAPS checks.

Paths in the text are relative to the root of the repository, those in the table to its `src/`, and
a bare file name with a line number is the file of that name under `src/`.

## The system

| Part | State | Operations | What is hard | What makes it correct |
|---|---|---|---|---|
| Plan executor, legacy engine (`application/services/plan-executor.service.ts`, `plan-step-runner`, `plan-replanner`, `plan-patch-applier`) | plan, index of step, attempt and iteration, replans, records, warnings | execute: preconditions, resolution, policy, action, postconditions, assertions, recovery, replan | patches rewrite the plan while it is executed; four ways for a step to end | a step is left only when settled; a failure names its step; what was executed is not rewritten |
| Plan executor, graph engine (`plan-graph-executor.service.ts`, `infra/graph/plan-execution.graph.ts`) | the same, in the channels of a LangGraph state | the thirteen nodes from observe to finalAssertions, the edges between them, the approver, the resumption | routing, a recursion limit, interrupt and resume | the contract of the legacy engine; no destructive action without an approval |
| Reactive runner (`reactive-runner`, `recovery-policy`, `task-memory`) | status, attempts and memory of each task | runScenario, runTask, semantic attempts, decisions, recover | retries inside cycles inside tasks; observations that are old when used | blocked means one bug; passed means a valid step |
| Run (`use-cases/run-agent.usecase.ts`, `interfaces/cli/exit-codes.ts`) | result, attempts, harness | execute, five routes, finalize, withTimeout | a second finalize after a failed one; a timer that answers first | exit code, run.json and pull request agree and tell of every failure |
| Scenario planner and orchestrator (`scenario-planner`, `scenario-orchestrator`, selectors) | none | plan, topological sort, authentication policy; selection by overlap, limit | cyclic and dangling dependencies of an LLM's plan; what the limit cuts | tasks come in order; every requirement is served as far as the limits allow |
| Execution plans (`execution-plan-planner`, `-factory`, `-policy`, `infra/llm/*-decision.provider.ts`, normalizers) | plan cache, attempts of a call | buildPlan, decide, classify, repair, refuse | rate limits and invalid answers inside retries; repairs that change a plan | what is run is of the catalogue and verified; each request ends |
| Elements (`element-resolver`, `element-availability`, `infra/playwright` extraction) | observation, numbers of its elements | observe, resolve, open containers, act | the page changes between looking and acting; six ways to fall back | what is acted on is what was chosen |
| Browser harness (`infra/playwright/playwright-harness.ts`) | browser, context, page, locators, signals, in-flight flag | open with four kinds of login, observe, execute, recoverPage, close | one instance for the whole process; lost pages and contexts; tabs that open late | one action at a time; nothing left behind; a proven login lasts; no stray tab |
| Commands (`cli/cli.command.ts`, `api/api.service.ts`, `project-onboarding.service.ts`, `capture-auth`) | jobs, log buffer, network signals | onboard, capture-auth, run, pipeline, reads | jobs of the daemon share the singletons | a verdict of READY is earned; browsers are closed |
| Pipeline (`use-cases/run-pipeline-*.usecase.ts`) | artifacts of the output directory, plan cache | prepare, preflight, correlate, auto-config, risk, generate plan, execute, report, learning, promotion | stages that read whatever file is there; errors that do not stop | gates stop the rest; the most severe code wins; OK means tested |
| Diff and correlation (`pr-diff-parser`, `pr-test-correlation`, risk) | file under construction, line counters | parse, map routes and schemas, score, rank, cap, log | text that looks like a header; criteria that match nothing | lines are as git wrote them; no criterion is lost |
| Learned memory (`run-pipeline-learning`, `-promote-learning`, `infra/memory/*`) | memory.md, log of promotions, fingerprints, database | extract, approve, write back, count | a file and a database written one after the other, by several jobs, without a lock | what the log tells is stored; lessons are kept, once; failures are counted |
| Auto-config (`auto-config-builder`, `project-memory-manager`, `file-project-memory`) | knowledge of the project by repository and branch | resolve, analyse, merge, decide the login, enrich | reuse for thirty days; answers of the LLM that are silent; overlap | nothing known is forgotten; a login was told by an analysis |
| Adapters, renderers, prompts, schemas, helpers | none | pure functions on texts, calls of services | wording | not modelled |

`RunAgentUseCase` asks `ScenarioPlannerService` for scenarios and, unless the mode is
`FULL_REACTIVE` or `ORCHESTRATOR`, `ExecutionPlanPlannerService` for an execution plan. The plan
goes to one of the two engines; in `FULL_REACTIVE` mode each scenario goes to the reactive runner;
in `ORCHESTRATOR` mode each task becomes a small plan. All of them share one `PlaywrightHarness`,
one `TaskMemoryService` and one `DataHarness`: they are singletons of the Nest container, so two
jobs of the daemon share them too. The pipeline calls the run as one of its stages and hands
everything else on through files.

## What is hard, and where

`PROJECT.json` lists the hazards one by one, each at its line with the properties that would catch
it. They come in eight families:

- **Rewriting what runs.** A replan replaces steps of the plan under a running index; a repeated
  step goes back to itself; a recovery leaves a loop early (`PlanExecutor`, `PlanGraph`).
- **Retries in retries.** Attempts inside cycles inside tasks, rate limits inside schema retries
  inside fallbacks, and several exits, each of which must record its bug, tell the memory and leave
  all loops (`ReactiveRunner`, `Planning`).
- **Failing while failing.** A file cannot be written after the report was published; the catch
  block finalizes again and may fail too; the timer answers in between (`RunAgent`, `Harness`).
- **Files that nobody clears.** The stages of the pipeline hand their results on through one
  directory and go on when the one before them failed, so that what they read may be of an
  earlier job, or of one that runs at the same time (`Pipeline`).
- **Two stores, no lock.** Memory, fingerprints and knowledge are read, merged and written whole
  after the awaits in between; a file and a database follow each other (`LearnedMemory`,
  `AutoConfig`).
- **One browser for all.** The harness is a singleton, each of its operations awaits, and nothing
  keeps a second run from starting (`Harness`, `Commands`).
- **The page moves.** What was observed is old when it is acted on; a name matches in part; a tab
  opens after the click; a session ends with its context (`Elements`, `Session`, `Tabs`).
- **Texts of others.** Diffs, plans and answers whose text looks like something else, or which name
  what does not exist (`PrDiff`, `Correlation`, `PlanMaking`, `ScenarioPlanner`).

## Modules

| Module | Stands for | Composed from |
|---|---|---|
| `Plans` | plans, steps, patches and the safety rules for patches | |
| `Selections` | the places a filter keeps of a sequence (operators) | |
| `PlansTheorems` | lemmas about patched plans, and about numbers, finite sets and selections | `Plans`, `Selections` |
| `PlanRun` | what running a plan promises (abstract) | `Plans` |
| `PlanExecutor` | the legacy engine | `Plans`; implements `PlanRun` |
| `PlanExecutorProofs` | proofs about the legacy engine, and about elements | `PlanExecutor`, `PlansTheorems`, `Elements` |
| `PlanGraph` | the graph engine | `Plans`; implements `PlanRun` |
| `PlanGraphProofs` | proofs about the graph engine, about planning and the correlation | `PlanGraph`, `PlansTheorems`, `Planning`, `Correlation` |
| `ScenarioRun` | what running a reactive scenario promises (abstract) | |
| `ReactiveRunner` | the reactive runner | implements `ScenarioRun` |
| `RunAgent` | a run: routes, finalize, timer, answer | takes what the executors and `ScenarioRun` promise |
| `RunAgentProofs` | proofs about a run, and about the commands | `RunAgent`, `Commands` |
| `ScenarioPlanner` | the stages of the scenario planner | |
| `ScenarioOrchestrator` | selection from the memory, planner, limit | `ScenarioPlanner` |
| `ScenarioProofs` | proofs about the planner, the orchestrator and the reactive runner | `ScenarioOrchestrator`, `ReactiveRunner`, `PlansTheorems` |
| `PlanMaking` | repair, policy and factory of execution plans (operators) | |
| `Planning` | requests to the LLM for plans and decisions | `PlanMaking` |
| `Locators` | extraction of elements, their union, and locators (operators) | |
| `Elements` | a step on a page: resolve, open, act | `Locators` |
| `Harness` | the life of the browser, shared by the runs of the process | |
| `HarnessProofs` | proofs about the harness, its tabs and the login | `Harness`, `Tabs`, `Session` |
| `Session` | the login of a run and what a recovery keeps of it | |
| `Tabs` | the tabs a click opens, and how they are closed | |
| `ExitCodes` | the exit codes and the most severe of them | |
| `Commands` | the command line and the daemon, onboarding, capture | `ExitCodes` |
| `Pipeline` | the stages of the pipeline, their files, the plan cache | `ExitCodes` |
| `PipelineProofs` | proofs about the pipeline | `Pipeline` |
| `PrDiff` | the parser of diffs, and what a file of a diff is about | |
| `Correlation` | demand against diff and memory, the log and the risk | `PrDiff` |
| `LearnedMemory` | learning and promotion | |
| `AutoConfig` | knowledge of the project and the config made from it | |
| `MemoryProofs` | proofs about what a project learned and knows, and diffs | `LearnedMemory`, `AutoConfig`, `PrDiff` |
| `MC...` | the instances for TLC | |

The two engines are interchangeable in the code (`runtime.engine`), so both are shown to implement
one specification, `PlanRun`: steps are left one at a time and in order, the plan is rewritten at
most `MaxReplans` times and only while it runs, and success comes after the last step. What
`PlanRun` allows and what the engines additionally guarantee about `failedStep` is what `RunAgent`
takes as the input of its plan route. In the same way `ReactiveRunner` implements `ScenarioRun`, and
its one-bug-per-blocked-task invariant is what the reactive route of `RunAgent` takes. `Commands`
has the run and the pipeline as one step with an outcome.

## How the models correspond to the code

In all modules an action is a stretch of code between two decisions or awaits. What the page, the
LLM, a file system or a database answers is a choice; formatting, logging and evidence texts are
left out. Indices count from 1. Definitions whose comment begins with "Mutant of" are variants that
do not belong to the model: with one of them in its place a run finds a property violated, and a
property of several parts often has several; variables marked "history" are read by properties only.

**Plans.** A step keeps what control depends on: its id, whether its failed preconditions or
postconditions only warn (`warn`), whether its text reads as destructive, how many business
assertions it has, its attempts and the limit of its `repeatUntil` (0 without one). A patch is a
target and replacement steps. `SafePatch` is `PlanPatchApplierService.assertSafe`, `ApplyPatch`
its `apply`.

**PlanExecutor.** `pc` is the place in the body of the attempt loop: preconditions, resolution of
the action, policy, action, postconditions, recovery, business assertions, `repeatUntil`, final
assertions. `NextStep`, `Retry`, `ReplanOr` and `Fail` are the ways out of the body (`break`,
`continue`, `tryReplan`, `return runner.fail`). `steps`, `warnings` and `failedStep` are the report,
`replans` is the budget, `iterations` counts `repeatUntil` by step id and, as in the code, outlives
a patch. `tryReplan` answers nothing for a spent budget, for a blocked or unsafe patch and for an
exception, so giving up is always possible.

**PlanGraph.** One action per node with the conditional edge that leaves it. The place
`interrupted`, `AskApprover` and `resume` model `interrupt()` and `Command({ resume: true })`: the
guard runs again, and the invocation begins anew, so `supersteps` does too. LangGraph itself is
external.

**ReactiveRunner.** `pc` is the place in `runScenario` and `runTask`. `fresh` tells whether the
local variable `obs` is the latest observation; `tries` counts the decisions asked for in one cycle
(`decideWithSemanticRetry`); `memory` is the state `TaskMemoryService` was told. Tasks to log in
are left out (the planner drops them), and menu tasks count as OTHER.

**RunAgent.** `result` is the `RunResult` with the statuses of tasks and scenarios and the bugs;
`outside` is what the world sees: the browser, the report on the pull request, video and trace, and
the files. `crashed` is the catch block, `outcome` how `execute` ends, `answer` what its caller
gets, be it from the run or from the timer. `Crash`, `Report`, `SaveArtifacts`,
`Write`/`WriteThrows` and `Close` are finalize, its failures and the finally block. `Results(T)` is
what an executor may return for tasks `T`. The five routes are plan, tools, reactive, orchestrator
and dry run.

**ScenarioPlanner, ScenarioOrchestrator.** One action per stage of `plan()`: build (the answer of
the provider, or a task for each criterion), normalize (outcomes, topological sort, tasks to log in),
authentication policy, plan policy (duplicates, limit). An outcome is resolved once for each task
that has none. The sort is the walk of `visit` with its calls made explicit: `todo` holds what is
left to enter and to leave, `stack` and `result` are the sets and the list of `topoSort`, and
`Calls` is a number of steps after which nothing is left. Nothing is assumed of the ids a provider
gives: `map.get` takes the last task of an id (`Named`). `given` keeps what was sorted, and `Needs` is the transitive closure of its
dependencies, independent of the walk. The orchestrator looks required scenarios up among the chunks
of the memory by a given overlap, calls the planner for those it did not find, and cuts the whole to
its limit; the ids of what the planner makes may be those of chunks.

**PlanMaking, Planning.** `PlanMaking` has, as operators, what the normalizer repairs in a plan of
an LLM, what `ExecutionPlanPolicyService` refuses and which steps the factory makes of a task. A
text is one word of each kind that the code looks for. `Planning` serves requests one after
another: the cache (its key is what the code's key sees), the LLM behind the router with the retry
of rate limits (groq), of invalid decisions and of invalid plans, the factory in both strategies,
and the classification of tasks whose outcome is not known.

**Locators, Elements.** `Locators` has the extraction from the accessibility tree and from the
DOM, their union, order and numbers, and for each kind of locator what it finds. `Elements` is one
step of a plan on a page: observe (two reads, between which the page may change), search before a
click, resolve, open containers one after another and observe again, ask the LLM, act through the
number. `resolver`, `harness`, `before` and `current` are the four observations the code holds at
once; `acted` remembers what was reached.

**Harness.** The variables are the fields of `PlaywrightHarness`; `alive`, `contexts` and `pages`
are what exists in Playwright. A job opens the harness, observes and acts, and closes it; each
await separates two actions, and jobs interleave at them. `Fault` lets a page, context or browser
go away at any time. `overlapped` remembers that two jobs were active at once.

**Session.** One run with the harness for itself: `open` with no authentication, a storage state, a
form or a redirect to an identity provider, and `recoverPage` after. `visitor` is whose session the
context has, `saved` the stored state, `late` a login that was submitted and will be accepted
after the wait for it. `SaveSession` and `Settle` may come in either order, as in the
`Promise.all` of the code. A login is `Proven` when a storage state of a user was given or
`successWhen` named a text only users see.

**Tabs.** `clickSameTab` with its handler and its 150 ms, the rounds of `enforceSingleTab`, the
ghost tab killer and the sweep in the finally block of `execute`. Tabs open at any time; looking
and closing are two steps.

**Commands.** A job is a command, in a process of its own or in that of the daemon, which has one
harness. `onboard` and `capture-auth` have a step per await; the other commands are one step with
their exit codes. `signals` is the ring of network signals that outlives a run, in which a later
onboarding looks for the answer of its URLs; `answered` and `met` are histories, of what the
application told each job and of the jobs that ran at once.

**Pipeline.** A job is one call of `pipeline all` (with or without `--auto-config`), `pipeline
prepare` or `pipeline correlate`. A gate that reads a file or waits for an answer is two actions,
`Begin` and `End`; the other stages are one. `dir` holds the files a later stage reads: a file
keeps which job wrote it (`by`), whose pull request it stems from (`of`), the scenarios it is about
and, for the result, the verdict; `read-pipeline-artifact` answers nothing for a missing file.
`GoOn`, `Stop` and `Block` are `runStep` and `runGateStep` with the `if` that follows them. Required
scenarios are numbered from 1 for each pull request (`ScenarioId` forgets whose they are), which is
what the key of the plan cache sees. `cache` is that of the process: losing it entry by entry covers
both expiry and a new process for the next job. `Kill` ends a job between two actions and leaves its
files. `shared` remembers the jobs that were active while another one was.

**PrDiff, Correlation.** git writes a diff line by line (`truth` is what it wrote) and the parser
reads each line at once; a line's text matters only in whether it looks like a header of a file or
names `/dev/null`. `Correlation` takes the diffs as the parser leaves them: scores are counted in
units of `1/Scale`, texts are sets of words, a route in a text is one word. It has the ranking, the
cap, the fallbacks to a route and a schema, the risks, the log of the consultation and the rating
of the diff by `pipeline risk`.

**LearnedMemory.** Candidates come from the events of an execution; fingerprints of what failed are
counted in a file or in rows; `promote-learning` dedups against the memory it read, approves,
writes memory.md whole (truncated first, then filled), then the database, then its log. Every gap
between a read and the write is a place where another job, a kill or a refusal may come.

**AutoConfig.** A build loads the knowledge of its repository and branch, reuses it when it is
complete and fresh, has it analysed and merges the answer otherwise, decides the login
(`computeAuth`), enriches and validates. `told` remembers what analyses ever answered. `Age` is the
passing of thirty days.

## Runs

| Run | Instance and bounds | Shows |
|---|---|---|
| `legacy` | three plans of one or two steps (retried, repeated, excused, destructive, with assertions), five patches, two replans | failures name their step, `ok` covers the final plan, steps are left only when settled and given up only after all attempts, executed steps are kept, assertions never weakened, the run ends, `PlanRun` is implemented |
| `graph` | two plans of two steps, three patches, one replan, limit of 30 nodes, an approver that may grant or refuse | no more destructive actions than approvals, every assertion checked, `PlanRun` is implemented |
| `reactive_chain` | a task, a theme change and a logout in a chain, one of them about the console, two cycles, one retry | status, bug, last step and memory agree; a logout passes only with a proof; the scenario ends; `ScenarioRun` is implemented |
| `run_agent` | two scenarios of two tasks and one, five routes, every file may fail, video, trace and report may, the timer may fire at any time | failures are told, the answer is published and the browser closed, an answer comes |
| `planner` | every choice of six dependency lists for three tasks (cycles, self references, dangling ids) over seven shapes; two scenarios with equal ids, and one with an id given twice; no answer, with one criterion or four; limits 3 and 2; five tables of overlaps | order, nothing left out but for the limits, requirements served by the best scenarios |
| `harness` | two jobs of two operations and one fault; every setup of a login, one retry, two losses; three tabs, two rounds | one action and one recovery at a time, nothing left behind, a proven login lasts, no tab of a click is left, each job ends |
| `pipeline` | two jobs of any kind, one required scenario each, one error or kill | gates stop, a plan is not of another demand, OK means that this job planned, executed and learned |
| `learned_memory` | two jobs, three executions, three promotions, one fault; diffs of two files and three lines; four demands and nine diffs; two builds, one fault, one ageing | promotions are kept once and as logged, failures counted, diff lines as written, criteria accounted for, knowledge kept, logins told |
| `planning` | two requests of any of five catalogues or for a decision, ten configurations, one retry of each kind | plans are of the catalogue and verified, decisions act on what was seen, each request ends |
| `commands` | two commands of ten, four URLs, a buffer of three signals, one fault | READY is earned, files and exit code agree, browsers are closed |
| `elements` | ten steps on three pages, two attempts, two openings, two spontaneous changes of the page | what is acted on was chosen, reached by its locator, and related to the target; a step ends |
| `run_orchestrator_passed` | the suite of `run_agent` in mode ORCHESTRATOR | a violation: the result of the first task settles all others, which are never run |

Several properties are conjunctions, one per question; their parts are named where they are
defined. `SettlesEveryStep`: `LeavesOnlySettledSteps` and `GivesUpAfterAllAttempts`.
`ReplansAreSafe`: `ExecutedPrefixKept` and `StrongestAssertionsKept`. `OutcomesAgree`:
`BlockedTasksHaveOneBug`, `PassesOnAValidStep` and `MemoryAgrees`. `FailuresAreTold`:
`PassingRunIsHonest` and `FailuresRecorded`. `EndsInOrder`: `AnswerIsPublished` and
`BrowserClosed`. `TasksComeInOrder`: `DependenciesComeFirst`, `PrerequisitesArePlanned` and
`LogoutComesLast`. `PromotedIsKept`: `LogMeansStored`, `MemoryKept` and `LearnedOnce`.
`ActsOnWhatWasChosen`: `ActsOnWhatWasSeen`, `ReachesTheElement`, `FoundCanBeResolved` and
`ChosenIsRelated`.

Two instances hold several machines that share no state and of which a behaviour runs one:
`MCHarness` (`sharing`, `loggingIn`, `clicking`) and `MCLearnedMemory` (learning, reading,
correlating, configuring). Nothing one of them does is visible to another in the code either, but
for what is handed on whole (a finished diff, the knowledge as stored), so that checking them apart
loses no interleaving. `MCPipeline` and `MCLearnedMemory` use symmetry: jobs and builds are
interchangeable there, and these runs check no liveness.

The bounds are where the cases meet. Two replans let a patch hit a step that a patch made, and two
steps let it hit an executed one. Two cycles and one retry make every limit of the reactive runner
be reached and be missed by one. Two scenarios are needed for one to stop the other, two tasks for
one to be SKIPPED by the other's failure. The planner's limits are parameters (8 and 6 in the code)
that it only compares with lengths, so 3 and 2 give the same cases with three tasks; so are
`MaxSelected` (10), `MaxRounds` (6) and the buffer of signals (500). With two jobs of two
operations an observation of one can wait for the recovery of another, and an overlap can happen at
every await; a second fault at the same time only adds errors that the code treats alike. Three
promotions are one more than the jobs, so that a promotion is repeated while another one runs. Two
losses let a recovered session be recovered again.

Some properties are claimed for what the code can promise only. `legacy` assumes a provider that
patches the step that failed (`AnyTarget = FALSE`); the code does not enforce it, see below.
`NothingLeftBehind` is claimed for jobs that did not overlap, `OkMeansTested` and
`PlanIsForItsDemand` for pipelines that had the directory for themselves; the latter also needs
auto-config, without which the config of the repository names one demand for every pull request.
`FailuresCounted`, when fingerprints are in a file, and `KnowledgeKept` are claimed where no two
writers overlapped and none died writing; the promotions need no such condition. `LoginLasts` is
about proven logins: without a text that only users see the harness cannot tell, and a form login
ends with its context. `BrowsersClosed` names the three cases in which the code leaks one.

Four more configurations, which are not among the runs, show disagreements between the code and
its documents; TLC finds a violation of the property each of them names (the last one is that of the
pipeline with another property in place of its own):

| Configuration | Shows |
|---|---|
| `AssertionsCheckedPlanExecutor.cfg` | legacy engine: after a successful recovery the loop is left before the business assertions (`plan-executor.service.ts:196`; `PROJECT-MAP.md:100` puts them after each step) |
| `RecursionPlanGraph.cfg` | a step takes 11 nodes and the limit is 100 (`plan-graph-executor.service.ts:21`): ten steps that all succeed end in a `GraphRecursionError`, although `README.md:718` offers the engine for any plan |
| `ObservationReactiveRunner.cfg` | after a fruitless semantic attempt the LLM decides on the observation from before its click (`reactive-runner.service.ts:85`; `doc/03-ephemeral-ids.md:10` asks for a new one after each action) |
| `MCPipeline.cfg`, with `PlansItsOwnScenarios` as its invariant | when nothing of the memory matches, the scenarios an earlier job selected are planned instead of the required ones (`run-pipeline-generate-plan.usecase.ts:118`) |

## Fairness

- `PlanExecutor`, `PlanGraph`, `ReactiveRunner`: weak fairness of `Next`. Each is one async
  function, every await of which is bounded by a timeout of the harness or of the client of the
  provider, and which nothing blocks; so some branch is taken. For the graph it includes the answer
  of the approver: the bundled adapter answers at once from the configuration; another may not.
- `RunAgent`: weak fairness of the timer only. The answer must come even when the run hangs in an
  await for ever.
- `Harness`: weak fairness of each job, because every await has a timeout of Playwright.
  `page.evaluate` has none, so on a page that hangs in a script this is an assumption; the timer of
  `RunAgent` is what answers then. Faults are not fair.
- `Elements`: weak fairness of the executor, for the same reason; the page need not move.
- `Planning`: weak fairness of serving a request. The clients of the LLM have a timeout; that
  another request comes is not assumed.
- The other modules state safety only.

## Proofs

The theorems hold for all values of the constants that satisfy the named assumptions
(`PlansAssumption`, `GraphAssumption`, `ScenarioAssumption`, `ReactiveAssumption`,
`PlannerAssumption`, `OrchestratorAssumption`,
`RunAssumption`, `HarnessAssumption`, `TabsAssumption`, `SetupsAssumption`, `SessionBoundsAssumption`,
`JobsAssumption`, `BoundsAssumption`, `AutoConfigAssumption`, `PathsAssumption`,
`PlanningAssumption`, `CommandsAssumption`, `CorrelationAssumption`,
`LocatorsAssumption`, `ElementsAssumption`, which TLC evaluates on the runs).

**PlansTheorems.** `ReplansArePlans`: what a safe patch makes of a plan is a plan, with at least one
step. The lemmas below it say where the steps of a patched plan come from. `PatchKeeps`: a patched
plan starts with the steps before the one the patch names and holds the steps of the patch and those
it does not affect; hence `ReplanKeepsAssertions`, for any provider, and `ReplanKeepsPrefix`, for one
that fulfils `PatchesTheFailedStep`: it patches the step that failed, and the ids of the plan stay
different. Only then does `findIndex` find the step at hand (`FirstIndexUnique`). The rest of the
module is about numbers, finite sets and parts of sequences: the least element of a set of naturals
stands in for induction, and from it come the largest value of a finite set (`LargestValue`), the
elements of a filtered sequence (`PlacesOfThose`) and the places in a ranking (`PlacesInARanking`:
better values come first, equal ones in their order, and no place is free or taken twice), what a
filter keeps and in which order (`ThoseAreKept`), what concatenations hold and after what
(`FlattenJoins`), and that a function can be iterated (`Iterated`).

**PlanExecutorProofs.** `Invariance` proves `IInv`, the conjunction of `TypeOK`, `Control` and
`FailureNamesItsStep`. `TypeOK` alone is not inductive: a record is written for `plan[stepIndex]`,
which is a step only while `stepIndex` is within the plan, and that is known only at certain places
of the loop. `Control` says at which (and that the outcome is undecided there), which is also what
makes the record just pushed the one a failure names. From `IInv` follow `TypeCorrect`,
`FailuresNameTheirStep`, `OnlySettledStepsAreLeft` and `GivesUpLate`, the two halves of
`EveryStepIsSettled`, and `ExecutorImplementsRun`: each action either stutters in `PlanRun` or is
one of its steps, the case of a replan by `ReplansArePlans`. `AssertionsAreNeverWeakened` holds for
any provider; under `PatchesTheFailedStep`, `ReplansAlwaysSafe` adds the executed prefix, and
`PassedRunsCoverTheirPlan` rests on `Covered`: what is behind the loop has a valid record or an
excuse. A step gets there by being left (`LeftSettled`), records are only ever added
(`RecordsStay`), and a replan leaves that part of the plan alone (`ReplanKeeps`).

The second part of the module is about `Elements`; the two have no theorem in common.
`ActsOnWhatWasChosenAlways` rests on `LookInv`. `SameObservation`: harness and resolver know one
observation, and where the executor looks up or acts it is the one the executor goes by, unless the
LLM has answered. `SeenOK`: each observation that is still held is known by its id, what it says of
the target has to do with it, and its elements tell of the page it is of. That an element tells
(`Tells`) goes through the whole extraction: on a page where no description fits two nodes the
locator of an element fits its node only (`LocatorFitsOne`), elements of one kind are of one node
(`OneKindOneNode`), so that a locator taken over by `Merge` leads to the same node, and order and
cut make no new element. That a look-up finds what has to do with the target (`FoundIsRelated`) goes
through the ways of `FindByLocator`, one lemma each; those that score need that there is a largest
number and a best element (`LargestIsThere`, `OneIsBest`), from the least element of a set of
naturals.

**PlanGraphProofs.** `GraphInvariance` proves `IInv` = `TypeOK`, `Places`, `Approved`. `Places`
gives each node between observe and advance its step, and the last node none. `Approved` is what
makes `EachDestructionIsGranted` inductive: an approval that is on its way to the guard, or has let
an action pass that is not executed yet, counts with the executed ones (`Unused`), and only a
destructive action can hold one. `GraphImplementsRun` has the same mapping as the legacy engine: a
node either leaves plan, place, budget and outcome alone, or is a step of `PlanRun`.
`PassedRunsCheckAssertions`, under `PatchesTheFailedStep`: `SeenSoFar` says that the steps behind
the place of the graph had their business assertions checked or may be left with a warning, and
`Reset` that the flags of an earlier step are gone when the next is looked at, without which
`advance` could count a step as done, or not, for a reason that is not its own.

The second part of the module is about `Planning`; the parts have no theorem in common. `PlansMayBeRun`
and `DecisionsActOnWhatWasSeen` rest on `PlanningInv`. `CacheOK`: what the cache holds under a key
fits any request with that key, which is why a plan made for one catalogue may be given to another.
`BuildingOK`: the factory has one step for each task it has done, in their order, and the unclassified
ones among them only wait. A plan of a model is what the policy lets pass (`PolicyHolds`); that of the
factory is not validated by the code, so that it passes all the same is a fact about each kind of
step (`ContractStepsFit`). `TasksArePairs` says what the tasks of all scenarios, joined, are (`FlattenJoins`). `CallsAreBounded` is
proved and in no run: `CallsOK` adds up what the steps still to make, the attempts left and the
retries left of the current call may cost.

The third part is about `Correlation`. `ReportsAreComplete` says that every criterion of the demand
is accounted for in the report and in the log, for any demand, diff and result of the search. The
criteria are those of the demand, each once (`ConsumedAreToldApart`), and so are the matches, with a
score that is a number (`CorrelatedIsScored`, through the candidates of a diff, of which one has the
largest score if there is any). `RankedAreRanked` gives every match above the threshold a place of
its own, better ones first. So a criterion that is not planned had a score below the threshold, and
then its risk tells it, or it fell to the cap, and then the cap is full, is told, and none behind
it scores better than one before it (`PlannedAccounts`); where nothing matches at all the
fallback to the routes plans no criterion (`RoutesAccount`). `CorrelationInv` adds the numbers of the
runs, by which report and log are known to be of the same one. Assumed of a criterion is that its
text is not empty and that equal texts have the same words, of a chunk that its relevance is a
number.

**ScenarioProofs.** The first part is about the planner, for any number of scenarios and tasks, whatever
ids and dependencies the provider gave. `TopoSortSorts` is where it starts. A recursive walk over a
graph is not something the prover can follow, but its steps are: `WalkOK` is an invariant of them.
`WalkOnce`: each id is emitted once. `WalkStack`: the tasks on the stack are exactly those still to
leave, each at one place. `WalkAll`: no id is forgotten. `WalkPath`: what is entered before the end of
a visit is needed by the task that ends there. `WalkDeps`: the dependencies of a task still to leave
are emitted, are still to be entered before that, or need it in turn, the stack being where such a
cycle shows; `WalkOrder` says the same of what is emitted. `EnteringKeepsWalk` and
`LeavingKeepsWalk` are the steps. That the walk ends within `Calls` steps needs a measure: what
is left to do, and for each task not yet entered room for its dependencies. So each id is emitted
once, after its dependencies unless they need it in turn (`Sorted`).

The stages then only have to hand on what the next one needs. `Tidy`: each planned task reads like one
that was given and comes after its prerequisites, as themselves or as equal tasks; that it survives
the merge, the removal of duplicates and the cut at once is the point, since each of them removes
tasks that others need (`JoinedIsTidy`, `DedupedIsTidy`, `StartIsTidy`). `Linked` is about the dependencies as
written in the plan, `Covers` about what may be missing, `LogsOut` and `LogoutAtEnd` about the
logout. `PlannerInv` says which of them hold after which stage: `NormalizedOK`, `ReadyOK`,
`PlannedOK`. From it follow `TasksAreInOrder`, `NothingElseIsLost` and `PlannerTypeSafety`.

The second part is about the orchestrator. `OrchestratorPlans`: it implements the planner's
specification, so that the above holds of what it makes. `RanksInAnOrder`: in a strict order of a
finite set for each place there is one element with as many before it, from which the sorted matches
are a sequence with every match in it (`RankedIsInOrder`); `FirstsAreOnePerChunk` and
`SelectPicksTheBest` say what removing the duplicates and cutting leave of it (`SelectedOK`), and `LimitedRuns`
what the limit leaves of chosen and made scenarios. `OrchestratorInv` carries both to the answer, and
that the planner was asked where something was uncovered, and then made something. `TheBestServe`:
of a chunk that is left out the ones that run are at least as good and as many as the smaller limit
allows, because they are the first of the selection.

The third part is about the reactive runner, and shares no theorem with the others. The actions of the reactive runner are many, but what they do to the books
(status, bugs, last step, memory) is little: `NextMoves` reduces each of them to one of seven
`Moves`: a task is worked on, passed, blocked or skipped, taken up, or the scenario ends or crashes.
`OutcomesAgree` alone is not inductive, since blocking a task adds a bug to whatever it had;
`NothingTold` says that of a task still to settle there is none, and nothing final in the memory.
From `IInv` (`BooksOK`, `LoopsOK`, `Control`, `NothingTold`, `Told`) follow `ReactiveTypeCorrect`,
`OutcomesAlwaysAgree` and `LogoutsAreProven`, and with the moves `RunnerImplementsScenario`.

**RunAgentProofs.** `RunsEndInOrder`: `Way` keeps each route to its own places and a crash on its
way to the end, and `Ordered` says what has been reported, saved and closed when a place of
`finalize` is reached, the second time after a crash too. `FailuresAlwaysTold` rests on `Honest`,
for runs that did not crash: of tasks that were not run nothing is told, and every failure is told
of its task, its scenario and, from the report on, of the run; `PlanTells` and `SettleTells` are the
two ways a result enters the books. It assumes `NamesFailedStep`, that is, that the engine names the
step it failed at, which the legacy engine is proved to do (`FailuresNameTheirStep`).

The second part of the module is about `Commands`. `VerdictsAreTrue` has two halves. That READY is
earned rests on `AloneOK`, which says of each job that no other one of its process overlapped
(`MetOK` keeps who did) four things: a success in the buffer was answered to this job or loaded by a
page (`LogOK`); what the smoke check will accept, and what it accepted, was earned (`BaseOK`); the
routes still to check are the last ones and those before them are earned unless one blocked
(`RoutesOK`); and its browser, while it runs, is the one its harness holds (`BrowserOK`). The lemma
that carries it is `LoadingIsTrue`: in a buffer that was emptied the first signal that may be of the
base URL is its own answer, after a refused attempt or none, as long as the page that follows does
not push it out. That the files agree is `FilesOK`: between the two writes of an onboarding
readiness.json is ahead of the history, and of onboardings that never overlapped one is there at
most. `BrowsersAreClosed` follows from `BrowserOK`.

**HarnessProofs.** `Invariance` proves `IInv`: `TypeOK`, and for each of the two flags that at most
one job is in the section it guards and that the flag is set exactly then. That is stated as "any
two jobs in the section are the same", which is inductive with the flag, and `AtMostOne` turns it
into the cardinalities. `ActionsExclude` and `RecoveriesExclude` give `OneThingAtATime`, for any
number of jobs, also overlapping ones. `NothingIsLeftBehind` rests on `LeftInv`. `Nested`: pages are
in open contexts, contexts in running browsers. `Cleared`: the fields are empty when no run is under
way. `Alone`: of a run that has the harness to itself, what it has opened (`Opens`) is its own
browser and no context but the one it may still close (`Closable`), which in the middle of a
recovery is the one it holds and not the one in the field. `NoTabOutlivesItsClick` is about `Tabs`:
a round or the sweep, once it has looked, has every tab of the click in hand, and tabs that open
later are not the click's. `ProvenLoginLasts`, for every set of setups and any number of retries and losses.
`LoginLasts` is about a run that works; `SessionInv` says what brought it there. `Way` gives each
kind of authentication its own way through `open`. `GivenKept`: a storage state that was given is
neither lost nor written over. `FormProven`: a form that was left by a text only users see was left
as a user, until the context is renewed. `ProviderProven`: what was proven at the identity provider
was saved before the run works, whichever of saving and waiting came first.

**PipelineProofs.** `GatesStop` rests on `GateInv`: that the record of a failed gate is the last one
survives the start of a job only because an idle job has no record (`IdleIsUnrecorded`); the actions
are grouped by the way they end, and `GoingOn`, `Stopping` and `Untouched` are the three cases.
`ExitCodeIsMostSevere` needs a record of each ended job (`EndedIsRecorded`) and `MostSevere`: the
summary of some codes is one of them and none is more severe, from the least element of a set of
naturals. `PlansAreForTheirDemand` rests on `DirInv`. `Own` is what a job that was never active
beside another one relies on: no other is active, the cache holds for its demand only its own
scenarios, and (`Settled`) the diff, the demand and the required scenarios are its own from the
stage on that writes them. To get there from a directory full of old files it needs
`IdleIsUnheard`: nothing anywhere stems from a job that has not started. `OkPipelinesHaveTested`
adds `Tested`, what the stages have left in the directory of such a job as long as each of them
answered OK, and with `ExitIsMostSevere` an exit code of OK means that each did.

**MemoryProofs.** `FailuresAlwaysCounted` says what the table of fingerprints is (`Table`), given
how often each failure was recorded. In the database a recording is one step. In the file it is
three, with the new table in the buffer of the job, so the invariant `PrintsKept` needs that as long
as no recordings overlapped only one job writes and holds what the table must become; what is in the
file meanwhile is not said. `PromotedAlwaysKept` rests on `PromotionInv`: `LessonsOnce` follows the
candidates from the job that extracted them, where all are of one run, over the file of candidates
to memory.md and the buffer of its writer; `ChunksKept` says the same of one writer as above; and
`OnItsWay` where each approved lesson of a running promotion is: in the buffer, in memory.md, in a
row, or still to be written to one, which gives `LogMeansStored` when the log is written. That part
holds whatever overlaps.

`LoginsWereTold` rests on `AllTold`: the knowledge that is stored and that every build holds says
nothing of the login but what some answer said of the project of that build; `Auth` then takes its
selectors from there only. `KnowledgeAlwaysKept` and `ProjectsAnalysedOnce` share `KeptInv`: for each
project whose memory was undisturbed, one build at most is between load and save, it has read what
is stored, and what it will store is the union of all answers; a second analysis would need stale
knowledge, and `Age`, which makes it so, starts the count anew. `ProjectsAnalysedOnce` is proved
only: no run checks it.

`LinesAreReadAsWritten` is about `PrDiff`. A witness tells for each line that was read which line of
git's it is; it grows by one with each line that does not look like a header (`ReadsExtended`) and
stays what it is otherwise (`ReadsKept`). That a file which is begun has no line yet, and one that is
finished gets none, is `WrittenInOrder`. The counters of the parser are those of git right after the
header of a hunk, and stay so while no line of it was taken for a header of a file (`CountersAgree`,
`Clean`), which is all that may disturb a number.

Only model-checked is liveness, which needs fairness and ENABLED: `Terminates` of the legacy engine
and of the reactive runner, `EventuallyAnswered`, `EveryRunEnds`, `EveryRequestEnds` and `StepEnds`.
What `run_orchestrator_passed` refutes is the only other property without a theorem.

## Seen in the code, without a run

No document says otherwise, or the models abstract from it; a reader of the code should know them
all the same.

Plans and runs:

- Graph: `maxAttempts` has no effect, since no edge retries; a step whose preconditions fail under
  CONTINUE_WITH_WARNING advances without a warning; the assertions after a recovery are evaluated
  on the observation made before it; a patch that leaves the plan shorter than the place it is at
  makes the next node throw.
- Patches: a patch may name any step of the plan, and then rewrites steps that were executed
  (`docs/SUB-AGENT-ORCHESTRATOR.md:749` says a replan never does); with `AnyTarget = TRUE` TLC
  shows it as a violation of `ExecutedPrefixKept`.
- Legacy: the final assertions are those of the original plan; the graph takes those of the
  current one.
- Reactive: a task blocked for console errors is not told to the memory (`MemoryAgrees` excepts
  it); the budget of a recovery starts anew with each call.
- Run: a refused destructive action in the graph engine leaves no bug and no blocked task, and the
  run ends with exit code 0 (with `NamesFailedStep = FALSE` TLC shows it as a violation of
  `PassingRunIsHonest`). The tools route takes the legacy engine whatever `runtime.engine` says.
- Run: with video and trace both enabled the trace is lost, since saving the video closes its
  context; the report is posted before both are saved. After a failed finalize the second one posts
  a second comment. When a file cannot be written in the catch block too, `run.json` may say PASSED
  although `execute` rejects.
- Orchestrator route: steps and attempts are appended twice; an answer that is no ToolQueue blocks
  a task without a bug; the browser is not closed.
- Planner: deduplication ignores the kind of outcome; tasks of one scenario with equal ids collapse
  into the last, and keep its place in the walk of the first; a task that depends on a logout runs before it under authentication. The limit of
  the orchestrator cuts generated scenarios first and does not look for equal ids among them.
- Plans of the factory are not validated as those of the LLM are; its plan for a change of theme
  clicks without proving a change. The key of the plan cache ignores the tasks and most of the
  config.

Browser:

- Overlapping runs lose a browser, and one closes that of the other; locators and a pending dialog
  outlive `close()`.
- The session is saved while the redirect is still awaited, so what is saved may be anonymous;
  `needsSsoLogin` asks for visibility without waiting; `successUrlContains` of a redirect is never
  read; partly configured selectors of an identity provider mean that nothing is filled in. A form
  login whose refusal changes the URL passes unless a text is configured, and one that is accepted
  late fails on its retry although it is logged in.
- A tab that opens more than 150 ms after a click stays until the next click unless
  `enforceSingleTab` is set; a click that throws skips it; a tab about to close may be taken for
  the page of the run.
- The fallback of an action by the LLM takes numbers from the old observation
  (`plan-executor.service.ts:109`, `plan-execution.graph.ts:131`; the numbers are ephemeral,
  `doc/03-ephemeral-ids.md`). Names match in part, so "Save" may click "Save draft"; a fill falls
  back to the largest editable field; opening a container again closes it; `allowGlobalEscape` and
  `allowClickOutside` are never read.

Pipeline and learning:

- When the execution fails before it writes a result, the report takes an earlier result for its
  own and may answer BUGS_FOUND for it. Without auto-config, the daemon reuses the plan of one pull
  request for another for an hour, because required scenarios have the same ids; required scenarios
  that the memory does not match are not planned when others are matched.
- The first line of `run-history.jsonl` is a comment, so the risk can never parse it and always
  works with an empty history; what it looks for is written in another case too.
- A line of a diff that begins with `-- ` or `++ ` is taken for a header and shifts the numbers of
  the lines below it. The boost of the memory alone can reach the threshold of a match. A gap is
  not logged when no criterion is covered at all. The risk falls when added lines lower the ratio
  of removed ones.
- `promote-learning` writes memory.md before the database: without `DATABASE_URL` and with the
  default target it throws after the file was written, and titles that were escaped are promoted
  again. Rows in Postgres stay candidates though searches read promoted ones.
- Files are written to `<file>.tmp` and renamed. The name is fixed, so two jobs in one directory
  share it: one rename may fail or publish a half-written file.
  `FileCorrelationArtifactsWriter` publishes `required-scenarios.json` and
  `correlation-report.md` one after the other, and a kill in between leaves two that do not match.
- Two repositories whose names differ in `/` and `-` only share their knowledge
  (`file-project-memory.adapter.ts:49`). A failed analysis renews the date of what it could not
  renew; login data are replaced as a whole; without a config file the analysis is done by the fake
  provider and its silence is reused for thirty days.

LLM, commands:

- The fallback provider is asked for the model of the first one, `fallbackModel` is not read, only
  429 is retried, and decisions never fall back. `openai` does not check the ids of elements in a
  decision, as `groq` does.
- `onboard` tells BUGS_FOUND for errors that are none (`cli.service.ts:174`), logs in twice, and
  leaks the browser when `open` throws after the launch; the answer of a prefetched resource may be
  taken for that of a route, and a base page that loads 500 resources or more pushes its own answer
  out of the buffer, so that one of them is looked at in its place. `capture-auth` over the API waits for a line on the daemon's terminal.
  The daemon reports any exit code as a success and never forgets a job.

## Not modelled

Adapters of git, GitHub and ClickUp, renderers, prompts, schemas and configuration: data or pure
I/O without a state that control depends on. Search in the memory scores texts and keeps nothing.
`ToolExecutorService`, `OrchestratorReplanService`, `ReplanQueueToPlanPatchMapper`,
`ToolQueueExecutionRecorder`, `ExecutionPlanBuilder`, `LlmOutputSanitizer` and the emergency plan
are not reached by the program. Partly modelled parts leave out what their row in `PROJECT.json`
names: dialogs, signals and screenshots of the harness, files of the pipeline that nobody reads
again, the texts the memory of a task keeps, the severity of a bug. What an action does to a page
is the page's choice everywhere.

## Plan

Done: the engines, the reactive runner, the run, the planner and orchestrator, the harness with
login and tabs, the pipeline; diff and correlation, learning and promotion, auto-config, planning
by the LLM, elements, commands; the proofs above.

Next, in the order of what they tell a user of the program:

1. The atomic writes themselves, with the shared name of the temporary file, below `Pipeline`.
2. Dialogs and signals of the harness.
