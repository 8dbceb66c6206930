------------------------------ MODULE RunAgent ------------------------------
(***************************************************************************)
(* RunAgentUseCase (application/use-cases/run-agent.usecase.ts): one run   *)
(* of the agent, from the planned scenarios to the answer of execute.  The *)
(* browser is opened, the scenarios go through the route the configuration *)
(* selects, the result is finalized (PR report, artifacts, files) and the  *)
(* browser is closed, while the timer of the run may answer first.         *)
(*                                                                         *)
(* What the executors and the reactive runner return is taken from their   *)
(* own modules: PlanExecutor and PlanGraph give Results, ScenarioRun gives *)
(* the outcomes of ReactiveScenario.  On the tools route (runWithTools)    *)
(* the plan is built once the browser is open, and whatever the engine of  *)
(* the configuration it is the legacy executor that runs it.               *)
(***************************************************************************)
EXTENDS Naturals, Sequences, FiniteSets

CONSTANTS
  ScenarioOf,       \* the scenario of each task, the tasks in the order of the suite
  Routes,           \* the routes of config.runtime.mode and dryRun
  Planned,          \* tasks the execution plan has steps for
  NamesFailedStep,  \* the engine always returns a failedStep (legacy does, graph does not)
  PrReport,         \* config.pr is set
  Video, Trace      \* config.evidence.video and trace are on

Task == DOMAIN ScenarioOf
Scenario == {ScenarioOf[t] : t \in Task}
TasksOf(s) == {t \in Task : ScenarioOf[t] = s}
LastScenario == CHOOSE s \in Scenario : \A r \in Scenario : r <= s

ASSUME RunAssumption ==
  /\ ScenarioOf \in Seq(Nat \ {0}) /\ ScenarioOf # <<>>
  /\ \A t, u \in Task : t <= u => ScenarioOf[t] <= ScenarioOf[u]
  /\ Scenario = 1 .. LastScenario
  /\ Routes \subseteq {"plan", "tools", "reactive", "orchestrator", "dry"}
  /\ Planned \subseteq Task /\ Planned # {}
  /\ {NamesFailedStep, PrReport, Video, Trace} \subseteq BOOLEAN

VARIABLES
  route,     \* the route of this run
  pc,        \* where the run is
  scenario,  \* the scenario of the loop
  task,      \* the task of the orchestrator's loop
  status,    \* task.status
  scen,      \* scenario.status
  bugs,      \* result.bugs: the task and the severity of each kind of bug
  run,       \* result.status
  crashed,   \* the catch block has been entered
  outcome,   \* what the route settles with: result or error
  answer,    \* what execute settles with: result, error or timeout
  browser,   \* PlaywrightHarness: closed, open, or noContext (saveVideo closed it)
  report,    \* what the last PR report says: none, failed or a status
  saved,     \* result.status in run.json
  files,     \* artifacts saved: video, trace
  own        \* history: how the steps of each task went, no if they were not run

result == <<scenario, task, status, scen, bugs, own>>
outside == <<browser, report, saved, files>>
vars == <<route, pc, result, run, crashed, outcome, answer, outside>>

Severity == {"LOW", "MEDIUM", "HIGH", "CRITICAL"}
TaskStatus == {"PENDING", "PASSED", "PASSED_WITH_WARNINGS", "SKIPPED", "BLOCKED"}
RunStatusSet == {"PASSED", "PASSED_WITH_WARNINGS", "FAILED", "BLOCKED"}
ScenarioStatusSet == {"PLANNED", "RUNNING", "PARTIAL"} \cup RunStatusSet
Green == {"PASSED", "PASSED_WITH_WARNINGS"}
CrashBug == [task |-> 1, severity |-> "CRITICAL"]

----------------------------------------------------------------------------
(* Statuses.                                                               *)

HasBlockingBug(bs) == \E b \in bs : b.severity \in {"HIGH", "CRITICAL"}

\* No route gives a task the status FAILED.
ScenarioStatus(st, s) ==
  LET ts == {st[t] : t \in TasksOf(s)}
  IN CASE ts \subseteq {"PASSED"} -> "PASSED"
       [] ts \subseteq Green /\ "PASSED_WITH_WARNINGS" \in ts -> "PASSED_WITH_WARNINGS"
       [] "BLOCKED" \in ts -> "BLOCKED"
       [] "PASSED" \in ts /\ "BLOCKED" \notin ts /\ ~ ts \subseteq Green -> "PARTIAL"
       [] OTHER -> "PLANNED"

\* Mutant of RunStatus: only bugs count.
RunStatusOfBugs(sc, bs) == IF HasBlockingBug(bs) THEN "BLOCKED" ELSE "PASSED"

RunStatus(sc, bs) ==
  CASE HasBlockingBug(bs) -> "BLOCKED"
    [] ~ HasBlockingBug(bs) /\ \E s \in Scenario : sc[s] = "BLOCKED" -> "FAILED"
    [] OTHER -> IF \E s \in Scenario : sc[s] = "PASSED_WITH_WARNINGS"
                THEN "PASSED_WITH_WARNINGS" ELSE "PASSED"

Running == [s \in Scenario |-> IF s = scenario THEN "RUNNING" ELSE scen[s]]

TypeOK ==
  /\ route \in Routes
  /\ pc \in {"prepare", "open", "build", "plan", "scenario", "navigate", "task", "report", "files",
             "write", "close", "end"}
  /\ scenario \in Scenario \cup {LastScenario + 1}
  /\ task \in Task \cup {Len(ScenarioOf) + 1}
  /\ status \in [Task -> TaskStatus]
  /\ scen \in [Scenario -> ScenarioStatusSet]
  /\ bugs \subseteq [task : Task, severity : Severity]
  /\ run \in RunStatusSet
  /\ crashed \in BOOLEAN
  /\ outcome \in {"none", "result", "error"}
  /\ answer \in {"none", "result", "error", "timeout"}
  /\ browser \in {"closed", "open", "noContext"}
  /\ report \in {"none", "failed"} \cup RunStatusSet
  /\ saved \in {"none"} \cup RunStatusSet
  /\ files \subseteq {"video", "trace"}
  /\ own \in [Task -> {"no", "ok", "failed"}]

Init ==
  /\ route \in Routes
  /\ pc = "prepare"
  /\ scenario = 1
  /\ task = 1
  /\ status = [t \in Task |-> "PENDING"]
  /\ scen = [s \in Scenario |-> "PLANNED"]
  /\ bugs = {}
  /\ run = "PASSED"
  /\ crashed = FALSE
  /\ outcome = "none"
  /\ answer = "none"
  /\ browser = "closed"
  /\ report = "none"
  /\ saved = "none"
  /\ files = {}
  /\ own = [t \in Task |-> "no"]

\* The configuration is loaded, the directory of the run made, the scenarios and
\* on the plan route the plan made; the context from ClickUp may be missing.
Prepare ==
  /\ pc = "prepare"
  /\ pc' = IF route = "dry" THEN "report" ELSE "open"
  /\ UNCHANGED <<result, run, crashed, outcome, answer, outside>>

\* Anything else that fails before there is a result makes execute reject.
PrepareThrows ==
  /\ pc = "prepare"
  /\ outcome' = "error"
  /\ answer' = "error"
  /\ pc' = "end"
  /\ UNCHANGED <<result, run, crashed, outside>>

\* Mutant of Crash: the result is written without being reported again.
CrashUnreported ==
  /\ crashed' = TRUE
  /\ run' = "BLOCKED"
  /\ bugs' = bugs \cup {CrashBug}
  /\ pc' = "files"
  /\ UNCHANGED <<outcome, answer>>

\* The catch block: whatever threw, the run is BLOCKED and finalized.
Crash ==
  /\ crashed' = TRUE
  /\ run' = "BLOCKED"
  /\ bugs' = bugs \cup {CrashBug}
  /\ pc' = "report"
  /\ UNCHANGED <<outcome, answer>>

\* The end of the try block: finalize the result.
Finalize(sc, bs) ==
  /\ run' = RunStatus(sc, bs)
  /\ pc' = "report"

Open ==
  /\ pc = "open"
  /\ \/ /\ browser' = "open"
        /\ pc' = CASE route = "plan" -> "plan" [] route = "tools" -> "build"
                   [] route = "reactive" -> "scenario" [] route = "orchestrator" -> "navigate"
        /\ UNCHANGED <<result, run, crashed, outcome, answer>>
     \/ /\ Crash
        /\ browser' \in {"closed", "open"}   \* launched, then login or navigation failed
        /\ UNCHANGED <<scenario, task, status, scen, own>>
  /\ UNCHANGED <<report, saved, files>>

----------------------------------------------------------------------------
(* Execution plans.                                                        *)

\* What an executor may return for a plan over the tasks T.
Results(T) ==
  {r \in [ok : BOOLEAN, named : BOOLEAN, failed : T, done : SUBSET T, warned : SUBSET T,
          severity : {"HIGH", "LOW"}] :
     /\ r.ok => T \ r.warned \subseteq r.done
     /\ ~ r.ok /\ (NamesFailedStep \/ route = "tools") => r.named}

\* Mutant of Named: the failed task keeps the status of its finished steps.
NamedOnlyBug(r, st) == st

Named(r, st) == IF ~ r.ok /\ r.named THEN [st EXCEPT ![r.failed] = "BLOCKED"] ELSE st

\* The statuses of all tasks of the suite after a plan over T returned r.
Applied(r, T) ==
  Named(r, [t \in Task |->
    IF t \in T /\ t \in r.done
    THEN IF t \in r.warned THEN "PASSED_WITH_WARNINGS" ELSE "PASSED"
    ELSE IF r.ok THEN "PASSED" ELSE "SKIPPED"])

Ran(r, T) ==
  own' = [t \in Task |-> CASE t \notin T -> own[t]
                           [] t \in T /\ ~ r.ok /\ t = r.failed -> "failed"
                           [] t \in T /\ (r.ok \/ t # r.failed) ->
                                IF r.ok \/ t \in r.done THEN "ok" ELSE "no"]

BugsOf(r) == IF ~ r.ok /\ r.named THEN {[task |-> r.failed, severity |-> r.severity]} ELSE {}

\* applyPlanExecutionResult throws when a file of the run cannot be written, or
\* the evidence of the bug, which comes after the statuses of the tasks.
ApplyThrows(r, T) ==
  /\ Crash
  /\ \/ UNCHANGED status
     \/ BugsOf(r) # {} /\ status' = Applied(r, T)

\* The tool qa.plan.build throws, or returns no plan.
BuildThrows ==
  /\ pc = "build"
  /\ Crash
  /\ UNCHANGED <<scenario, task, status, scen, own, outside>>

Build ==
  /\ pc = "build"
  /\ pc' = "plan"
  /\ UNCHANGED <<result, run, crashed, outcome, answer, outside>>

RunExecutionPlan ==
  /\ pc = "plan"
  /\ \E r \in Results(Planned) :
       \/ /\ Ran(r, Planned)
          /\ status' = Applied(r, Planned)
          /\ bugs' = bugs \cup BugsOf(r)
          /\ scen' = [s \in Scenario |-> ScenarioStatus(status', s)]
          /\ Finalize(scen', bugs')
          /\ UNCHANGED <<crashed, outcome, answer>>
       \/ /\ Ran(r, Planned)
          /\ ApplyThrows(r, Planned)
          /\ scen' = [s \in Scenario |-> "RUNNING"]
  /\ UNCHANGED <<scenario, task, outside>>

\* The executor itself throws; the tools route marks the scenarios after it.
PlanThrows ==
  /\ pc = "plan"
  /\ Crash
  /\ scen' = [s \in Scenario |-> IF route = "tools" THEN "PLANNED" ELSE "RUNNING"]
  /\ UNCHANGED <<scenario, task, status, own, outside>>

----------------------------------------------------------------------------
(* Mode FULL_REACTIVE.                                                     *)

\* Mutant of Settle: only the first blocked task has a bug.
SettleFirstBug(outcomes, severity) ==
  LET T == DOMAIN outcomes
      blocked == {t \in T : outcomes[t] = "BLOCKED"}
  IN /\ status' = [t \in Task |-> IF t \in T THEN outcomes[t] ELSE status[t]]
     /\ own' = [t \in Task |->
                  IF t \notin T \/ outcomes[t] \in {"SKIPPED", "PENDING"} THEN own[t]
                  ELSE IF t \in blocked THEN "failed" ELSE "ok"]
     /\ bugs' = bugs \cup {[task |-> t, severity |-> severity[t]] :
                             t \in {u \in blocked : \A v \in blocked : u <= v}}

\* What runScenario leaves of the tasks of a scenario; one bug for each
\* blocked task (ReactiveRunner!BlockedTasksHaveOneBug).
Settle(outcomes, severity) ==
  LET T == DOMAIN outcomes
      blocked == {t \in T : outcomes[t] = "BLOCKED"}
  IN /\ status' = [t \in Task |-> IF t \in T THEN outcomes[t] ELSE status[t]]
     /\ own' = [t \in Task |->
                  IF t \notin T \/ outcomes[t] \in {"SKIPPED", "PENDING"} THEN own[t]
                  ELSE IF t \in blocked THEN "failed" ELSE "ok"]
     /\ bugs' = bugs \cup {[task |-> t, severity |-> severity[t]] : t \in blocked}

ReactiveScenario ==
  /\ pc = "scenario" /\ scenario <= LastScenario
  /\ \E outcomes \in [TasksOf(scenario) -> {"PASSED", "BLOCKED", "SKIPPED"}],
        severity \in [TasksOf(scenario) -> {"LOW", "MEDIUM", "HIGH"}] :
       Settle(outcomes, severity)
  /\ scen' = [Running EXCEPT ![scenario] = ScenarioStatus(status', scenario)]
  /\ IF HasBlockingBug(bugs') \/ scen'[scenario] = "BLOCKED"
     THEN Finalize(scen', bugs') /\ UNCHANGED scenario
     ELSE scenario' = scenario + 1 /\ UNCHANGED <<run, pc>>
  /\ UNCHANGED <<task, crashed, outcome, answer, outside>>

\* runScenario throws with some of the tasks settled, perhaps a blocked one
\* whose bug was not recorded.
ReactiveThrows ==
  /\ pc = "scenario" /\ scenario <= LastScenario
  /\ Crash
  /\ \E outcomes \in [TasksOf(scenario) -> {"PENDING", "PASSED", "BLOCKED", "SKIPPED"}] :
       status' = [t \in Task |-> IF t \in DOMAIN outcomes THEN outcomes[t] ELSE status[t]]
  /\ own' = [t \in Task |-> IF ScenarioOf[t] # scenario THEN own[t] ELSE
               CASE status'[t] = "PASSED" -> "ok" [] status'[t] = "BLOCKED" -> "failed"
                 [] OTHER -> "no"]
  /\ scen' = Running
  /\ UNCHANGED <<scenario, task, outside>>

EndScenarios ==
  /\ pc \in {"scenario", "navigate"} /\ scenario > LastScenario
  /\ Finalize(scen, bugs)
  /\ UNCHANGED <<result, crashed, outcome, answer, outside>>

----------------------------------------------------------------------------
(* Mode ORCHESTRATOR: a queue of tools from the LLM for each task.         *)

FirstTask(s) == CHOOSE t \in TasksOf(s) : \A u \in TasksOf(s) : t <= u

Navigate ==
  /\ pc = "navigate" /\ scenario <= LastScenario
  /\ \/ /\ scen' = Running
        /\ task' = FirstTask(scenario)
        /\ pc' = "task"
        /\ UNCHANGED scenario
     \/ /\ scen' = [scen EXCEPT ![scenario] = "BLOCKED"]
        /\ scenario' = scenario + 1
        /\ UNCHANGED <<task, pc>>
  /\ UNCHANGED <<status, bugs, own, run, crashed, outcome, answer, outside>>

InScenario == pc = "task" /\ task \in TasksOf(scenario)
NextTask == task' = task + 1 /\ UNCHANGED <<pc, run, crashed, outcome, answer>>

SkipSettledTask ==
  /\ InScenario /\ status[task] # "PENDING"
  /\ NextTask
  /\ UNCHANGED <<scenario, status, scen, bugs, own, outside>>

\* The call of the LLM fails: blocked with a bug.  Its answer is no ToolQueue:
\* blocked without one.
NoQueue ==
  /\ InScenario /\ status[task] = "PENDING"
  /\ status' = [status EXCEPT ![task] = "BLOCKED"]
  /\ own' = [own EXCEPT ![task] = "failed"]
  /\ \/ /\ \/ \E sev \in {"HIGH", "LOW"} : bugs' = bugs \cup {[task |-> task, severity |-> sev]}
           \/ UNCHANGED bugs
        /\ NextTask
     \/ Crash /\ UNCHANGED task     \* recordBug throws
  /\ UNCHANGED <<scenario, scen, outside>>

\* The plan of the queue covers this task only; its result is applied to every
\* task of the suite.
RunQueue ==
  /\ InScenario /\ status[task] = "PENDING"
  /\ \E r \in Results({task}) :
       /\ Ran(r, {task})
       /\ \/ /\ status' = [Applied(r, {task}) EXCEPT ![task] = IF r.ok THEN "PASSED" ELSE "BLOCKED"]
             /\ bugs' = bugs \cup BugsOf(r)
             /\ scen' = [s \in Scenario |-> ScenarioStatus(Applied(r, {task}), s)]
             /\ NextTask
          \/ ApplyThrows(r, {task}) /\ UNCHANGED <<task, scen>>
  /\ UNCHANGED <<scenario, outside>>

\* Observing the page or executing the plan throws.
QueueThrows ==
  /\ InScenario /\ status[task] = "PENDING"
  /\ Crash
  /\ UNCHANGED <<scenario, task, status, scen, own, outside>>

EndScenario ==
  /\ pc = "task" /\ task \notin TasksOf(scenario)
  /\ scen' = [scen EXCEPT ![scenario] = ScenarioStatus(status, scenario)]
  /\ IF HasBlockingBug(bugs)
     THEN Finalize(scen', bugs) /\ UNCHANGED scenario
     ELSE scenario' = scenario + 1 /\ pc' = "navigate" /\ UNCHANGED run
  /\ UNCHANGED <<task, status, bugs, own, crashed, outcome, answer, outside>>

----------------------------------------------------------------------------
(* finalize, and the end.                                                  *)

\* prReporter.report: published, or an error that is only logged.  Then the
\* pull request goes on showing what was published before.
Reported == IF PrReport THEN {run, "failed"} ELSE {report}

Report ==
  /\ pc = "report"
  /\ report' \in Reported
  /\ pc' = "files"
  /\ UNCHANGED <<result, run, crashed, outcome, answer, browser, saved, files>>

\* saveVideo closes the context of the browser; saveTrace needs it.
SaveArtifacts ==
  LET video == Video /\ \E t \in Task : own[t] # "no"
      trace == Trace /\ \E t \in Task : own[t] # "no"
  IN /\ pc = "files"
     /\ browser' = IF video /\ browser = "open" THEN "noContext" ELSE browser
     /\ files' = files \cup (IF video /\ browser # "closed" THEN {"video"} ELSE {})
                       \cup (IF trace /\ browser' = "open" THEN {"trace"} ELSE {})
     /\ pc' = "write"
     /\ UNCHANGED <<result, run, crashed, outcome, answer, report, saved>>

\* Mutant of WriteThrows: the second finalize may throw unnoticed.
WriteThrowsUnnoticed ==
  /\ pc = "write"
  /\ saved' \in {saved, run}
  /\ IF crashed \/ route = "dry"
     THEN /\ outcome' = "result"
          /\ pc' = "close"
          /\ UNCHANGED <<run, crashed, bugs, answer>>
     ELSE Crash
  /\ UNCHANGED <<scenario, task, status, scen, own, browser, report, files>>

\* One of the files cannot be written, before or after run.json.  In the try
\* block that is a crash; in the catch block, and in a dry run, execute rejects.
WriteThrows ==
  /\ pc = "write"
  /\ saved' \in {saved, run}
  /\ IF crashed \/ route = "dry"
     THEN /\ outcome' = "error"
          /\ pc' = "close"
          /\ UNCHANGED <<run, crashed, bugs, answer>>
     ELSE Crash
  /\ UNCHANGED <<scenario, task, status, scen, own, browser, report, files>>

Write ==
  /\ pc = "write"
  /\ saved' = run
  /\ outcome' = "result"
  /\ pc' = "close"
  /\ UNCHANGED <<result, run, crashed, answer, browser, report, files>>

\* The finally block of runWithBrowser and runWithTools; runWithOrchestrator has
\* none, and a dry run opens nothing.  Promise.race: the first to settle answers.
Close ==
  /\ pc = "close"
  /\ browser' = IF route # "orchestrator" THEN "closed" ELSE browser
  /\ answer' = IF answer = "none" THEN outcome ELSE answer
  /\ pc' = "end"
  /\ UNCHANGED <<result, run, crashed, outcome, report, saved, files>>

\* Mutant of Timeout: the timer is armed after the browser is open.
TimeoutOnceOpen ==
  /\ route # "dry" /\ pc \notin {"prepare", "open", "end"} /\ answer = "none"
  /\ answer' = "timeout"
  /\ UNCHANGED <<pc, result, run, crashed, outcome, outside>>

\* The timer of withTimeout, armed before the browser is opened.  The run goes on.
Timeout ==
  /\ route # "dry" /\ pc \notin {"prepare", "end"} /\ answer = "none"
  /\ answer' = "timeout"
  /\ UNCHANGED <<pc, result, run, crashed, outcome, outside>>

Step ==
  \/ Prepare \/ PrepareThrows \/ Open
  \/ Build \/ BuildThrows \/ RunExecutionPlan \/ PlanThrows
  \/ ReactiveScenario \/ ReactiveThrows \/ EndScenarios
  \/ Navigate \/ SkipSettledTask \/ NoQueue \/ RunQueue \/ QueueThrows \/ EndScenario
  \/ Report \/ SaveArtifacts \/ Write \/ WriteThrows \/ Close
  \/ Timeout

Next == Step /\ UNCHANGED route

Spec == Init /\ [][Next]_vars

\* Of the run itself nothing is assumed: the page may hang.  Only the timer of
\* Node.js is sure to fire.
FairSpec == Spec /\ WF_vars(Timeout /\ UNCHANGED route)

----------------------------------------------------------------------------
(* Properties.                                                             *)

\* The exit code of the command (classifyResult, classifyError).
ExitCode ==
  CASE answer = "result" -> IF HasBlockingBug(bugs) \/ run \in {"BLOCKED", "FAILED"} THEN 1 ELSE 0
    [] answer = "error" -> 3
    [] answer = "timeout" -> 4
    [] OTHER -> 0

\* A command that ends with exit code 0 has run no task that failed and has not
\* crashed, whatever the severity of what it found.
PassingRunIsHonest ==
  answer = "result" /\ ExitCode = 0 /\ route # "orchestrator" =>
    ~ crashed /\ \A t \in Task : own[t] # "failed"

\* In a run that did not crash exactly the tasks that failed are BLOCKED, each
\* with a bug: none keeps the status of the steps that worked before.
FailuresRecorded ==
  answer = "result" /\ ~ crashed /\ route # "orchestrator" =>
    \A t \in Task : /\ own[t] = "failed" <=> status[t] = "BLOCKED"
                    /\ own[t] = "failed" <=> \E b \in bugs : b.task = t

\* What went wrong is told: a run that passes is honest, and the failures of
\* one that did not crash are recorded.
FailuresAreTold == PassingRunIsHonest /\ FailuresRecorded

\* The status that is answered is the one in run.json and the one the pull
\* request shows, also after a first finalize reported another one and failed.
AnswerIsPublished ==
  answer = "result" => /\ saved = run
                       /\ PrReport => report \in {run, "failed"}

\* However the run ends, the browser does not outlive it (a run of the
\* orchestrator leaves it open).
BrowserClosed == pc = "end" /\ route # "orchestrator" => browser = "closed"

\* A run ends in order: what it answers is published, and its browser closed.
EndsInOrder == AnswerIsPublished /\ BrowserClosed

\* A run with a timer settles, even if the page hangs.
EventuallyAnswered == pc = "open" ~> answer # "none"

\* A task that passed was run (violated in mode ORCHESTRATOR: the result of each
\* plan sets the status of all the other tasks).
PassedTasksWereRun ==
  pc = "end" => \A t \in Task : status[t] \in Green => own[t] = "ok"
=============================================================================
