---------------------------- MODULE RunAgentProofs ----------------------------
(***************************************************************************)
(* Theorems about RunAgent, for every suite, route, plan and answer of the *)
(* executors, and about the commands of the agent, for every list of jobs, *)
(* pages and limits.                                                       *)
(***************************************************************************)
EXTENDS RunAgent, Commands, TLAPS

Final == {"report", "files", "write", "close", "end"}

\* The types of what the properties are about.
Shapes ==
  /\ scenario \in Nat
  /\ status \in [Task -> TaskStatus]
  /\ scen \in [Scenario -> ScenarioStatusSet]
  /\ own \in [Task -> {"no", "ok", "failed"}]

\* Each route has its places, and a crash leads to the end.
Way ==
  /\ route \in Routes
  /\ pc \in {"prepare", "open", "build", "plan", "scenario", "navigate", "task"} \cup Final
  /\ pc = "open" => route # "dry"
  /\ pc \in {"build", "plan"} => route \in {"plan", "tools"}
  /\ pc = "scenario" => route = "reactive"
  /\ pc \in {"navigate", "task"} => route = "orchestrator"
  /\ crashed => pc \in Final /\ run = "BLOCKED"

\* Of tasks that were not run yet nothing is told.
NothingTold ==
  /\ pc \in {"prepare", "open", "build", "plan"} =>
       bugs = {} /\ \A t \in Task : status[t] = "PENDING" /\ own[t] = "no"
  /\ pc = "scenario" =>
       \A t \in Task : ScenarioOf[t] >= scenario => status[t] = "PENDING" /\ own[t] = "no"

HasBug(t) == \E b \in bugs : b.task = t

\* Every failure is told of its task and of its scenario, and in the end of the
\* run.
Told ==
  \A t \in Task :
    /\ own[t] = "failed" <=> status[t] = "BLOCKED"
    /\ own[t] = "failed" <=> HasBug(t)
    /\ status[t] = "BLOCKED" => scen[ScenarioOf[t]] = "BLOCKED"
    /\ pc \in Final /\ status[t] = "BLOCKED" => run \in {"BLOCKED", "FAILED"}

\* That is so unless the run crashed, or is one of the orchestrator.
Honest == ~ crashed /\ route # "orchestrator" => Shapes /\ NothingTold /\ Told

\* What was reported and saved when a place of finalize is reached.
Ordered ==
  /\ pc = "prepare" => browser = "closed"
  /\ pc = "end" /\ route # "orchestrator" => browser = "closed"
  /\ pc \in {"files", "write", "close", "end"} /\ PrReport /\ outcome # "error" => report \in {run, "failed"}
  /\ outcome \in {"none", "result", "error"}
  /\ outcome # "none" => pc \in {"close", "end"}
  /\ outcome = "result" => saved = run
  /\ answer = "result" => pc = "end" /\ outcome = "result"

----------------------------------------------------------------------------
(* The end of a run: EndsInOrder.                                           *)

\* A step on the way to finalize, or back to it.
Toward ==
  /\ pc \notin {"files", "close", "end"} /\ pc' \notin {"prepare", "files", "write", "close", "end"}
  /\ UNCHANGED <<outcome, answer>>

RouteStep == Open \/ Build \/ BuildThrows \/ RunExecutionPlan \/ PlanThrows
             \/ ReactiveScenario \/ ReactiveThrows \/ EndScenarios
             \/ Navigate \/ SkipSettledTask \/ NoQueue \/ RunQueue \/ QueueThrows \/ EndScenario

LEMMA RouteGoesToward ==
  ASSUME Way, RouteStep
  PROVE  Toward
<1> USE DEF Toward, Crash, Finalize, outside, result, Way, Final
<1>1. CASE Open
  <2>1. pc' \in {"plan", "build", "scenario", "navigate", "report"}
    BY <1>1, RunAssumption DEF Open
  <2> QED
    BY <1>1, <2>1 DEF Open
<1>2. CASE Build \/ BuildThrows
  BY <1>2 DEF Build, BuildThrows
<1>3. CASE RunExecutionPlan
  BY <1>3 DEF RunExecutionPlan, ApplyThrows
<1>4. CASE PlanThrows \/ ReactiveThrows
  BY <1>4 DEF PlanThrows, ReactiveThrows
<1>5. CASE ReactiveScenario
  BY <1>5 DEF ReactiveScenario, Settle
<1>6. CASE EndScenarios
  BY <1>6 DEF EndScenarios
<1>7. CASE Navigate \/ EndScenario
  BY <1>7 DEF Navigate, EndScenario
<1>8. CASE SkipSettledTask \/ NoQueue \/ QueueThrows
  BY <1>8 DEF SkipSettledTask, NoQueue, QueueThrows, InScenario, NextTask
<1>9. CASE RunQueue
  BY <1>9 DEF RunQueue, InScenario, NextTask, ApplyThrows
<1> QED
  BY <1>1, <1>2, <1>3, <1>4, <1>5, <1>6, <1>7, <1>8, <1>9 DEF RouteStep

LEMMA OrderKept ==
  ASSUME Way, Ordered, Next
  PROVE  Ordered'
<1> USE DEF Ordered, Way, Final, outside, result
<1>0. UNCHANGED route /\ PrReport' = PrReport
  BY DEF Next
<1>1. ASSUME Toward PROVE Ordered'
  BY <1>0, <1>1 DEF Toward
<1>2. CASE RouteStep
  BY <1>1, <1>2, RouteGoesToward
<1>3. CASE Prepare \/ PrepareThrows
  BY <1>0, <1>3 DEF Prepare, PrepareThrows
<1>4. CASE Report
  BY <1>0, <1>4 DEF Report, Reported
<1>5. CASE SaveArtifacts
  BY <1>0, <1>5 DEF SaveArtifacts
<1>6. CASE WriteThrows
  BY <1>0, <1>6 DEF WriteThrows, Crash
<1>7. CASE Write
  BY <1>0, <1>7 DEF Write
<1>8. CASE Close
  BY <1>0, <1>8 DEF Close
<1>9. CASE Timeout
  BY <1>0, <1>9 DEF Timeout
<1> QED
  BY <1>2, <1>3, <1>4, <1>5, <1>6, <1>7, <1>8, <1>9 DEF Next, Step, RouteStep

\* A crash leads to finalize, and the routes keep to their places.
LEMMA WayKept ==
  ASSUME Way, Next
  PROVE  Way'
<1> USE DEF Way, Final, outside, result
<1>0. UNCHANGED route
  BY DEF Next
<1>1. ASSUME Crash PROVE Way'
  BY <1>0, <1>1 DEF Crash
<1>2. CASE Prepare \/ PrepareThrows
  BY <1>0, <1>2 DEF Prepare, PrepareThrows
<1>3. CASE Open
  <2>1. CASE Crash
    BY <1>1, <2>1
  <2>2. CASE /\ pc' = CASE route = "plan" -> "plan" [] route = "tools" -> "build"
                        [] route = "reactive" -> "scenario" [] route = "orchestrator" -> "navigate"
             /\ UNCHANGED <<run, crashed>>
    <3>1. route \in {"plan", "tools", "reactive", "orchestrator"}
      BY <1>3, RunAssumption DEF Open
    <3> QED
      BY <1>0, <1>3, <2>2, <3>1 DEF Open
  <2> QED
    BY <1>3, <2>1, <2>2 DEF Open
<1>4. CASE Build \/ BuildThrows \/ PlanThrows \/ ReactiveThrows \/ QueueThrows
  BY <1>0, <1>1, <1>4 DEF Build, BuildThrows, PlanThrows, ReactiveThrows, QueueThrows
<1>5. CASE RunExecutionPlan
  BY <1>0, <1>1, <1>5 DEF RunExecutionPlan, Finalize, ApplyThrows
<1>6. CASE ReactiveScenario
  BY <1>0, <1>6 DEF ReactiveScenario, Finalize
<1>7. CASE EndScenarios
  BY <1>0, <1>7 DEF EndScenarios, Finalize
<1>8. CASE Navigate \/ EndScenario
  BY <1>0, <1>8 DEF Navigate, EndScenario, Finalize
<1>9. CASE SkipSettledTask \/ NoQueue
  BY <1>0, <1>1, <1>9 DEF SkipSettledTask, NoQueue, NextTask, InScenario
<1>10. CASE RunQueue
  BY <1>0, <1>1, <1>10 DEF RunQueue, NextTask, InScenario, ApplyThrows
<1>11. CASE Report \/ SaveArtifacts \/ Write
  BY <1>0, <1>11 DEF Report, SaveArtifacts, Write
<1>12. CASE WriteThrows
  BY <1>0, <1>1, <1>12 DEF WriteThrows
<1>13. CASE Close \/ Timeout
  BY <1>0, <1>13 DEF Close, Timeout
<1> QED
  BY <1>2, <1>3, <1>4, <1>5, <1>6, <1>7, <1>8, <1>9, <1>10, <1>11, <1>12, <1>13 DEF Next, Step

LEMMA OrderInit == Init => Way /\ Ordered
BY DEF Init, Way, Final, Ordered

\* What is answered was published and saved, and the browser is closed by then,
\* whatever was thrown on the way and whenever the timer fired.
THEOREM RunsEndInOrder == Spec => []EndsInOrder
<1>1. Way /\ Ordered /\ [Next]_vars => (Way /\ Ordered)'
  <2> SUFFICES ASSUME Way, Ordered, [Next]_vars PROVE (Way /\ Ordered)'
    OBVIOUS
  <2>1. CASE Next
    BY <2>1, WayKept, OrderKept
  <2>2. CASE UNCHANGED vars
    BY <2>2 DEF vars, result, outside, Way, Ordered
  <2> QED
    BY <2>1, <2>2
<1>2. Way /\ Ordered => EndsInOrder
  BY DEF Ordered, EndsInOrder, AnswerIsPublished, BrowserClosed
<1> QED
  BY OrderInit, <1>1, <1>2, PTL DEF Spec

----------------------------------------------------------------------------
(* What a run tells: FailuresAreTold.                                       *)

LEMMA Suite ==
  /\ \A t \in Task : ScenarioOf[t] \in Nat \ {0} /\ ScenarioOf[t] \in Scenario /\ t \in TasksOf(ScenarioOf[t])
  /\ \A s : TasksOf(s) \subseteq Task
BY RunAssumption DEF Task, Scenario, TasksOf

\* A blocked task blocks its scenario, and a blocked scenario fails the run.
LEMMA Statuses ==
  ASSUME NEW st \in [Task -> TaskStatus]
  PROVE  /\ \A s \in Scenario : ScenarioStatus(st, s) \in ScenarioStatusSet
         /\ \A t \in Task : st[t] = "BLOCKED" => ScenarioStatus(st, ScenarioOf[t]) = "BLOCKED"
<1>1. \A s \in Scenario : ScenarioStatus(st, s) \in ScenarioStatusSet
  BY DEF ScenarioStatus, ScenarioStatusSet, RunStatusSet
<1>2. ASSUME NEW t \in Task, st[t] = "BLOCKED"
      PROVE  ScenarioStatus(st, ScenarioOf[t]) = "BLOCKED"
  <2> DEFINE ts == {st[u] : u \in TasksOf(ScenarioOf[t])}
  <2>1. "BLOCKED" \in ts
    BY <1>2, Suite
  <2>2. ~ (ts \subseteq {"PASSED"}) /\ ~ (ts \subseteq Green)
    BY <2>1 DEF Green
  <2> QED
    BY <2>1, <2>2 DEF ScenarioStatus
<1> QED
  BY <1>1, <1>2

LEMMA RunFails ==
  ASSUME NEW sc, NEW bs, NEW s \in Scenario, sc[s] = "BLOCKED"
  PROVE  RunStatus(sc, bs) \in {"BLOCKED", "FAILED"}
BY DEF RunStatus

\* A plan that fails names the task that failed, which is the only one blocked.
LEMMA PlanTells ==
  ASSUME NamesFailedStep, Way, Shapes, NothingTold, pc = "plan", NEW r \in Results(Planned),
         Ran(r, Planned), status' = Applied(r, Planned), bugs' = bugs \cup BugsOf(r)
  PROVE  /\ status' \in [Task -> TaskStatus] /\ own' \in [Task -> {"no", "ok", "failed"}]
         /\ \A t \in Task : (own'[t] = "failed" <=> status'[t] = "BLOCKED") /\ (own'[t] = "failed" <=> HasBug(t)')
<1> USE DEF NothingTold, Shapes
<1>1. r.ok \in BOOLEAN /\ r.failed \in Planned /\ Planned \subseteq Task /\ (~ r.ok => r.named)
  BY RunAssumption DEF Results
<1>2. bugs = {} /\ \A t \in Task : status[t] = "PENDING" /\ own[t] = "no"
  OBVIOUS
<1> DEFINE base == [t \in Task |->
                      IF t \in Planned /\ t \in r.done
                      THEN IF t \in r.warned THEN "PASSED_WITH_WARNINGS" ELSE "PASSED"
                      ELSE IF r.ok THEN "PASSED" ELSE "SKIPPED"]
<1>3. base \in [Task -> {"PASSED", "PASSED_WITH_WARNINGS", "SKIPPED"}]
  OBVIOUS
<1>4. status' = Named(r, base)
  BY DEF Applied
<1> HIDE DEF base
<1>5. CASE r.ok
  <2>1. status' = base /\ bugs' = {}
    BY <1>2, <1>4, <1>5 DEF Named, BugsOf
  <2>2. own' \in [Task -> {"no", "ok"}]
    BY <1>1, <1>2, <1>5 DEF Ran
  <2> QED
    BY <1>3, <2>1, <2>2 DEF TaskStatus, HasBug
<1>6. CASE ~ r.ok
  <2>1. status' = [base EXCEPT ![r.failed] = "BLOCKED"] /\ bugs' = {[task |-> r.failed, severity |-> r.severity]}
    BY <1>1, <1>2, <1>4, <1>6 DEF Named, BugsOf
  <2>2. \A t \in Task : own'[t] = "failed" <=> t = r.failed
    BY <1>1, <1>2, <1>6 DEF Ran
  <2>3. own' \in [Task -> {"no", "ok", "failed"}]
    BY <1>1, <1>2, <1>6 DEF Ran
  <2>4. \A t \in Task : HasBug(t)' <=> t = r.failed
    <3>1. [task |-> r.failed, severity |-> r.severity].task = r.failed
      OBVIOUS
    <3>2. \A b : b \in bugs' <=> b = [task |-> r.failed, severity |-> r.severity]
      BY <2>1
    <3> QED
      BY <3>1, <3>2 DEF HasBug
  <2>5. /\ status' \in [Task -> TaskStatus]
        /\ \A t \in Task : status'[t] = "BLOCKED" <=> t = r.failed
    BY <1>1, <1>3, <2>1 DEF TaskStatus
  <2> QED
    BY <2>2, <2>3, <2>4, <2>5
<1> QED
  BY <1>1, <1>5, <1>6

LEMMA PlanHonest ==
  ASSUME NamesFailedStep, Way, Honest, RunExecutionPlan, UNCHANGED route
  PROVE  Honest'
<1> SUFFICES ASSUME ~ crashed', route' # "orchestrator" PROVE (Shapes /\ NothingTold /\ Told)'
  BY DEF Honest
<1>1. ~ crashed /\ pc = "plan" /\ Shapes /\ NothingTold
  BY DEF RunExecutionPlan, ApplyThrows, Crash, Way, Honest, Final
<1>2. PICK r \in Results(Planned) :
        /\ Ran(r, Planned)
        /\ status' = Applied(r, Planned)
        /\ bugs' = bugs \cup BugsOf(r)
        /\ scen' = [s \in Scenario |-> ScenarioStatus(status', s)]
        /\ Finalize(scen', bugs')
  BY DEF RunExecutionPlan, ApplyThrows, Crash
<1>3. /\ status' \in [Task -> TaskStatus] /\ own' \in [Task -> {"no", "ok", "failed"}]
      /\ \A t \in Task : (own'[t] = "failed" <=> status'[t] = "BLOCKED") /\ (own'[t] = "failed" <=> HasBug(t)')
  BY <1>1, <1>2, PlanTells
<1>4. /\ scen' \in [Scenario -> ScenarioStatusSet]
      /\ \A t \in Task : status'[t] = "BLOCKED" => scen'[ScenarioOf[t]] = "BLOCKED"
  BY <1>2, <1>3, Statuses, Suite
<1>5. \A t \in Task : status'[t] = "BLOCKED" => run' \in {"BLOCKED", "FAILED"}
  BY <1>2, <1>4, RunFails, Suite DEF Finalize
<1>6. scenario' = scenario /\ pc' = "report"
  BY <1>2 DEF RunExecutionPlan, Finalize
<1> QED
  BY <1>1, <1>3, <1>4, <1>5, <1>6 DEF Shapes, NothingTold, Told

\* A scenario tells of its tasks, and of no other.
LEMMA SettleTells ==
  ASSUME Shapes, NothingTold, Told, pc = "scenario",
         NEW outcomes \in [TasksOf(scenario) -> {"PASSED", "BLOCKED", "SKIPPED"}],
         NEW severity \in [TasksOf(scenario) -> {"LOW", "MEDIUM", "HIGH"}],
         Settle(outcomes, severity)
  PROVE  /\ status' \in [Task -> TaskStatus] /\ own' \in [Task -> {"no", "ok", "failed"}]
         /\ \A t \in Task : (own'[t] = "failed" <=> status'[t] = "BLOCKED") /\ (own'[t] = "failed" <=> HasBug(t)')
         /\ \A t \in Task \ TasksOf(scenario) : status'[t] = status[t] /\ own'[t] = own[t]
<1> DEFINE T == TasksOf(scenario)
           blocked == {t \in T : outcomes[t] = "BLOCKED"}
<1>1. DOMAIN outcomes = T /\ T \subseteq Task
  BY Suite
<1>2. /\ status' = [t \in Task |-> IF t \in T THEN outcomes[t] ELSE status[t]]
      /\ own' = [t \in Task |-> IF t \notin T \/ outcomes[t] \in {"SKIPPED", "PENDING"} THEN own[t]
                                 ELSE IF t \in blocked THEN "failed" ELSE "ok"]
      /\ bugs' = bugs \cup {[task |-> t, severity |-> severity[t]] : t \in blocked}
  BY <1>1 DEF Settle
<1>3. \A t \in T : status[t] = "PENDING" /\ own[t] = "no" /\ ~ HasBug(t)
  BY <1>1 DEF TasksOf, NothingTold, Told, Shapes
<1>4. \A t \in Task : HasBug(t)' <=> HasBug(t) \/ t \in blocked
  <2>1. \A b : b \in bugs' <=> b \in bugs \/ \E t \in blocked : b = [task |-> t, severity |-> severity[t]]
    BY <1>2
  <2>2. \A t \in blocked : [task |-> t, severity |-> severity[t]].task = t
    OBVIOUS
  <2>3. ASSUME NEW t \in Task
        PROVE  HasBug(t)' <=> HasBug(t) \/ t \in blocked
    <3>1. HasBug(t) => HasBug(t)'
      BY <2>1 DEF HasBug
    <3>2. t \in blocked => HasBug(t)'
      BY <2>1, <2>2 DEF HasBug
    <3>3. HasBug(t)' => HasBug(t) \/ t \in blocked
      BY <2>1, <2>2 DEF HasBug
    <3> QED
      BY <3>1, <3>2, <3>3
  <2> QED
    BY <2>3
<1>5. /\ status' \in [Task -> TaskStatus]
      /\ \A t \in T : status'[t] = outcomes[t]
      /\ \A t \in Task \ T : status'[t] = status[t]
  BY <1>1, <1>2 DEF Shapes, TaskStatus
<1>6. /\ own' \in [Task -> {"no", "ok", "failed"}]
      /\ \A t \in T : own'[t] = "failed" <=> t \in blocked
      /\ \A t \in Task \ T : own'[t] = own[t]
  BY <1>1, <1>2, <1>3 DEF Shapes
<1>7. \A t \in T : status'[t] = "BLOCKED" <=> t \in blocked
  BY <1>5
<1>8. \A t \in Task \ T : HasBug(t)' <=> HasBug(t)
  BY <1>4
<1> HIDE DEF T, blocked
<1>9. ASSUME NEW t \in Task
      PROVE  (own'[t] = "failed" <=> status'[t] = "BLOCKED") /\ (own'[t] = "failed" <=> HasBug(t)')
  <2>1. CASE t \in T
    BY <1>3, <1>4, <1>6, <1>7, <2>1
  <2>2. CASE t \notin T
    BY <1>5, <1>6, <1>8, <2>2 DEF Told
  <2> QED
    BY <2>1, <2>2
<1> QED
  BY <1>5, <1>6, <1>9 DEF T

LEMMA ScenarioHonest ==
  ASSUME Way, Honest, ReactiveScenario, UNCHANGED route
  PROVE  Honest'
<1> SUFFICES ASSUME ~ crashed', route' # "orchestrator" PROVE (Shapes /\ NothingTold /\ Told)'
  BY DEF Honest
<1>1. ~ crashed /\ pc = "scenario" /\ Shapes /\ NothingTold /\ Told
  BY DEF ReactiveScenario, Honest
<1>2. PICK outcomes \in [TasksOf(scenario) -> {"PASSED", "BLOCKED", "SKIPPED"}],
           severity \in [TasksOf(scenario) -> {"LOW", "MEDIUM", "HIGH"}] :
        Settle(outcomes, severity)
  BY DEF ReactiveScenario
<1>3. /\ status' \in [Task -> TaskStatus] /\ own' \in [Task -> {"no", "ok", "failed"}]
      /\ \A t \in Task : (own'[t] = "failed" <=> status'[t] = "BLOCKED") /\ (own'[t] = "failed" <=> HasBug(t)')
      /\ \A t \in Task \ TasksOf(scenario) : status'[t] = status[t] /\ own'[t] = own[t]
  BY <1>1, <1>2, SettleTells
<1>4. scen' = [Running EXCEPT ![scenario] = ScenarioStatus(status', scenario)]
  BY DEF ReactiveScenario
<1>5. Running \in [Scenario -> ScenarioStatusSet]
  BY <1>1 DEF Running, Shapes, ScenarioStatusSet
<1>6. scen' \in [Scenario -> ScenarioStatusSet]
  <2>1. scenario \in Scenario => ScenarioStatus(status', scenario) \in ScenarioStatusSet
    BY <1>3, Statuses
  <2> QED
    BY <1>4, <1>5, <2>1
<1>7. ASSUME NEW t \in Task, status'[t] = "BLOCKED"
      PROVE  scen'[ScenarioOf[t]] = "BLOCKED"
  <2>1. CASE t \in TasksOf(scenario)
    <3>1. ScenarioOf[t] = scenario /\ scenario \in Scenario
      BY <2>1, Suite DEF TasksOf
    <3>2. ScenarioStatus(status', scenario) = "BLOCKED"
      BY <1>3, <1>7, <3>1, Statuses
    <3> QED
      BY <1>4, <1>5, <3>1, <3>2
  <2>2. CASE t \notin TasksOf(scenario)
    <3>1. ScenarioOf[t] # scenario /\ ScenarioOf[t] \in Scenario
      BY <2>2, Suite DEF TasksOf
    <3>2. scen[ScenarioOf[t]] = "BLOCKED"
      BY <1>1, <1>3, <1>7, <2>2 DEF Told
    <3> QED
      BY <1>4, <3>1, <3>2 DEF Running
  <2> QED
    BY <2>1, <2>2
<1>8. CASE Finalize(scen', bugs') /\ UNCHANGED scenario
  <2>1. \A t \in Task : status'[t] = "BLOCKED" => run' \in {"BLOCKED", "FAILED"}
    BY <1>7, <1>8, RunFails, Suite DEF Finalize
  <2> QED
    BY <1>1, <1>3, <1>6, <1>7, <1>8, <2>1 DEF Finalize, Shapes, NothingTold, Told
<1>9. CASE scenario' = scenario + 1 /\ UNCHANGED <<run, pc>>
  <2>1. \A t \in Task : ScenarioOf[t] >= scenario + 1 => t \notin TasksOf(scenario) /\ ScenarioOf[t] >= scenario
    BY <1>1, Suite DEF TasksOf, Shapes
  <2>2. NothingTold'
    BY <1>1, <1>3, <1>9, <2>1 DEF NothingTold
  <2> QED
    BY <1>1, <1>3, <1>6, <1>7, <1>9, <2>2 DEF Shapes, Told, Final
<1> QED
  BY <1>8, <1>9 DEF ReactiveScenario

\* A step that settles no task, and leaves what is told of the run.
LEMMA QuietHonest ==
  ASSUME Way, Honest, UNCHANGED <<route, scenario, status, scen, own, bugs>>,
         crashed' \/ UNCHANGED <<run, crashed>>,
         pc' \in {"open", "build", "plan", "scenario"} => pc \in {"prepare", "open", "build", "plan", pc'},
         pc' \in Final => pc \in Final \cup {"prepare"},
         pc' # "prepare"
  PROVE  Honest'
<1> SUFFICES ASSUME ~ crashed', route' # "orchestrator" PROVE (Shapes /\ NothingTold /\ Told)'
  BY DEF Honest
<1>1. ~ crashed /\ Shapes /\ NothingTold /\ Told /\ UNCHANGED run
  BY DEF Honest
<1>2. \A t \in Task : HasBug(t)' <=> HasBug(t)
  BY DEF HasBug
<1>3. Shapes' /\ NothingTold'
  BY <1>1 DEF Shapes, NothingTold, Final
<1>4. Told'
  <2> SUFFICES ASSUME NEW t \in Task
               PROVE  /\ own'[t] = "failed" <=> status'[t] = "BLOCKED"
                      /\ own'[t] = "failed" <=> HasBug(t)'
                      /\ status'[t] = "BLOCKED" => scen'[ScenarioOf[t]] = "BLOCKED"
                      /\ pc' \in Final /\ status'[t] = "BLOCKED" => run' \in {"BLOCKED", "FAILED"}
    BY DEF Told
  <2>1. pc = "prepare" => status[t] = "PENDING"
    BY <1>1 DEF NothingTold
  <2> QED
    BY <1>1, <1>2, <2>1 DEF Told
<1> QED
  BY <1>3, <1>4

LEMMA HonestKept ==
  ASSUME NamesFailedStep, Way, Honest, Next
  PROVE  Honest'
<1> USE DEF Way, Final, outside, result
<1>0. UNCHANGED route
  BY DEF Next
<1>1. ASSUME crashed' \/ route = "orchestrator" PROVE Honest'
  BY <1>0, <1>1 DEF Honest
<1>2. CASE Prepare \/ PrepareThrows
  BY <1>0, <1>2, QuietHonest DEF Prepare, PrepareThrows
<1>3. CASE Open
  <2>1. CASE Crash
    BY <1>1, <2>1 DEF Crash
  <2>2. CASE /\ pc' = CASE route = "plan" -> "plan" [] route = "tools" -> "build"
                        [] route = "reactive" -> "scenario" [] route = "orchestrator" -> "navigate"
             /\ UNCHANGED <<scenario, task, status, scen, bugs, own, run, crashed>>
    <3>1. pc = "open" /\ route \in {"plan", "tools", "reactive", "orchestrator"}
      BY <1>3, RunAssumption DEF Open
    <3>2. pc' \in {"plan", "build", "scenario", "navigate"}
      BY <2>2, <3>1
    <3> QED
      BY <1>0, <2>2, <3>1, <3>2, QuietHonest
  <2> QED
    BY <1>3, <2>1, <2>2 DEF Open
<1>4. CASE Build
  BY <1>0, <1>4, QuietHonest DEF Build
<1>5. CASE BuildThrows \/ PlanThrows \/ ReactiveThrows \/ QueueThrows
  BY <1>1, <1>5 DEF BuildThrows, PlanThrows, ReactiveThrows, QueueThrows, Crash
<1>6. CASE RunExecutionPlan
  BY <1>0, <1>6, PlanHonest
<1>7. CASE ReactiveScenario
  BY <1>0, <1>7, ScenarioHonest
<1>8. CASE EndScenarios
  <2>1. CASE route = "orchestrator"
    BY <1>1, <2>1
  <2>2. CASE route # "orchestrator"
    <3> SUFFICES ASSUME ~ crashed' PROVE Shapes' /\ NothingTold' /\ Told'
      BY DEF Honest
    <3>1. /\ ~ crashed /\ Shapes /\ Told
          /\ UNCHANGED <<scenario, status, scen, bugs, own>> /\ pc' = "report" /\ run' = RunStatus(scen, bugs)
      BY <1>8, <2>2 DEF EndScenarios, Honest, Finalize
    <3>2. \A t \in Task : status[t] = "BLOCKED" => run' \in {"BLOCKED", "FAILED"}
      BY <3>1, RunFails, Suite DEF Told
    <3>3. \A t \in Task : HasBug(t)' <=> HasBug(t)
      BY <3>1 DEF HasBug
    <3> QED
      BY <3>1, <3>2, <3>3 DEF Shapes, NothingTold, Told
  <2> QED
    BY <2>1, <2>2
<1>9. CASE Navigate \/ SkipSettledTask \/ NoQueue \/ RunQueue \/ EndScenario
  <2>1. route = "orchestrator"
    BY <1>9 DEF Navigate, SkipSettledTask, NoQueue, RunQueue, EndScenario, InScenario
  <2> QED
    BY <1>1, <2>1
<1>10. CASE Report \/ SaveArtifacts \/ Write \/ Close
  <2>1. /\ UNCHANGED <<scenario, status, scen, own, bugs, run, crashed>>
        /\ pc \in Final /\ pc' \in {"files", "write", "close", "end"}
    BY <1>10 DEF Report, SaveArtifacts, Write, Close
  <2> QED
    BY <1>0, <2>1, QuietHonest
<1>11. CASE WriteThrows
  <2>1. CASE Crash
    BY <1>1, <2>1 DEF Crash
  <2>2. CASE pc' = "close" /\ UNCHANGED <<run, crashed, bugs, scenario, status, scen, own>>
    BY <1>0, <1>11, <2>2, QuietHonest DEF WriteThrows
  <2> QED
    BY <1>11, <2>1, <2>2 DEF WriteThrows
<1>12. CASE Timeout
  <2>1. UNCHANGED <<pc, scenario, status, scen, own, bugs, run, crashed>> /\ pc # "prepare"
    BY <1>12 DEF Timeout
  <2> QED
    BY <1>0, <2>1, QuietHonest
<1> QED
  BY <1>2, <1>3, <1>4, <1>5, <1>6, <1>7, <1>8, <1>9, <1>10, <1>11, <1>12 DEF Next, Step

LEMMA HonestInit == Init => Honest
<1> SUFFICES ASSUME Init PROVE Shapes /\ NothingTold /\ Told
  BY DEF Honest
<1> USE DEF Init
<1>1. Shapes
  BY DEF Shapes, TaskStatus, ScenarioStatusSet
<1>2. NothingTold
  BY DEF NothingTold
<1>3. Told
  BY DEF Told, HasBug, Final
<1> QED
  BY <1>1, <1>2, <1>3

\* When the engine names the step that failed, as the legacy one does, a run
\* that ends with exit code 0 has run no task that failed, and one that did not
\* crash has blocked exactly those that did, each with a bug: for every suite
\* and plan, on every route but that of the orchestrator.
THEOREM FailuresAlwaysTold ==
  ASSUME NamesFailedStep
  PROVE  Spec => []FailuresAreTold
<1>1. Way /\ Ordered /\ Honest /\ [Next]_vars => (Way /\ Ordered /\ Honest)'
  <2> SUFFICES ASSUME Way, Ordered, Honest, [Next]_vars PROVE (Way /\ Ordered /\ Honest)'
    OBVIOUS
  <2>1. CASE Next
    BY <2>1, WayKept, OrderKept, HonestKept
  <2>2. CASE UNCHANGED vars
    BY <2>2 DEF vars, result, outside, Way, Ordered, Honest, Shapes, NothingTold, Told, HasBug
  <2> QED
    BY <2>1, <2>2
<1>2. Way /\ Ordered /\ Honest => FailuresAreTold
  <2> SUFFICES ASSUME Way, Ordered, Honest, answer = "result", route # "orchestrator"
               PROVE  /\ ExitCode = 0 => ~ crashed /\ \A t \in Task : own[t] # "failed"
                      /\ ~ crashed => \A t \in Task : (own[t] = "failed" <=> status[t] = "BLOCKED")
                                                      /\ (own[t] = "failed" <=> HasBug(t))
    BY DEF FailuresAreTold, PassingRunIsHonest, FailuresRecorded, HasBug
  <2>1. pc \in Final
    BY DEF Ordered, Final
  <2>2. run \in {"BLOCKED", "FAILED"} => ExitCode # 0
    BY DEF ExitCode
  <2>3. ExitCode = 0 => ~ crashed
    BY <2>2 DEF Way
  <2>4. ~ crashed => Told
    BY DEF Honest
  <2> QED
    BY <2>1, <2>2, <2>3, <2>4 DEF Told
<1> QED
  BY OrderInit, HonestInit, <1>1, <1>2, PTL DEF Spec

---------------------------------------------------------------------------
(* The commands: what is true of each job.                                  *)

Opening == {"launch", "context", "login", "goto"}
Looking == {"smoke", "visit", "check", "plan", "close"}
Telling == {"report", "persist", "append"}
Capturing == {"show", "person", "finish", "url", "capture"}
OneSteps == {"run", "pipeline", "read", "unknown"}
Finding == [opened : BOOLEAN, smoke : BOOLEAN, blocked : BOOLEAN, plan : {"none", "ok", "failed", "error"}]

\* Every URL that may be in the buffer; a page is asked for by the ones that have resources.
Loaded == UNION {UNION {ToSet(more) : more \in Resources[u]} : u \in DOMAIN Resources}
Signal == [url : DOMAIN Resources \cup Loaded, status : {0, 200, 500}]

CommandShapes ==
  /\ at \in [Jobs -> {"idle", "load", "ended"} \cup Opening \cup Looking \cup Telling \cup Capturing
                     \cup OneSteps]
  /\ request \in [Jobs -> Requests]
  /\ browserOf \in [Processes -> Jobs \cup {NoJob}] /\ DOMAIN pageOf = Processes
  /\ signals \in [Processes -> Seq(Signal)]
  /\ alive \in SUBSET Jobs
  /\ found \in [Jobs -> Finding]
  /\ routes \in [Jobs -> Seq(DOMAIN Resources)]
  /\ answered \in [Jobs -> [DOMAIN Resources -> SUBSET {200, 500}]]
  /\ DOMAIN reply = Jobs
  /\ lines \in Seq([by : Jobs, status : {"passed", "blocked", "failed"}])
  /\ faults \in Nat

\* Each command has its places, and an onboarding finds out what it does where it does.
PlacesOK ==
  \A j \in Jobs :
    /\ at[j] = "load" => request[j].command \in {"onboard", "capture-auth"}
    /\ at[j] \in Opening \cup Looking \cup Telling => Onboards(j)
    /\ at[j] \in Capturing => request[j].command = "capture-auth"
    /\ at[j] \in Opening \cup {"idle", "load"} => found[j] = NothingFound
    /\ at[j] \in Looking => found[j].opened /\ (at[j] = "close" <=> found[j].plan # "none")
    /\ at[j] \in Telling /\ found[j].opened => found[j].plan # "none"
    /\ at[j] \in {"visit", "check"} => routes[j] # <<>>
    /\ at[j] = "plan" \/ found[j].plan # "none" => routes[j] = <<>>

\* Who runs at once has met, and nobody has met a job that has not started.
MetOK ==
  /\ \A j, k \in Jobs : j # k /\ Active(j) /\ Active(k) => {j, k} \in met
  /\ \A j, k \in Jobs : {j, k} \in met => at[j] # "idle" /\ at[k] # "idle"

\* A success in the buffer was answered to this job, unless a page loaded it.
Truthful(log, told) ==
  \A n \in DOMAIN log :
    log[n].status = 200 => log[n].url \in Loaded \/ 200 \in told[log[n].url]

\* The first signal that may be of url has the status 200.
Succeeded(log, url) ==
  \E i \in DOMAIN log : /\ <<log[i].url, url>> \in StartsWith
                        /\ \A h \in 1..i - 1 : <<log[h].url, url>> \notin StartsWith
                        /\ log[i].status = 200

BaseEarned(j) == request[j].login = "form" \/ Crowded(BaseUrl) \/ 200 \in answered[j][BaseUrl]
RouteEarned(j, url) == Mistakable(url) \/ 200 \in answered[j][url]

LogOK(j) ==
  at[j] \in {"login", "goto", "smoke", "visit", "check"} => Truthful(signals[Process(j)], answered[j])

BaseOK(j) ==
  /\ at[j] = "login" => request[j].login = "form"
  /\ at[j] = "goto" /\ request[j].login # "form" => signals[Process(j)] = <<>>
  /\ at[j] = "smoke" /\ Succeeded(signals[Process(j)], BaseUrl) => BaseEarned(j)
  /\ at[j] # "smoke" /\ found[j].opened /\ found[j].smoke => BaseEarned(j)

\* The routes still to check are the last ones; those before them were checked.
RoutesOK(j) ==
  LET all == request[j].routes
      checked == Len(all) - Len(routes[j])
  IN at[j] # "idle" =>
       /\ checked \in 0..Len(all)
       /\ \A m \in DOMAIN routes[j] : routes[j][m] = all[checked + m]
       /\ ~found[j].blocked => \A i \in 1..checked : RouteEarned(j, all[i])

\* A browser that runs is the one of the harness, until its job has closed it.
BrowserOK(j) ==
  j \in alive =>
    /\ at[j] \in (Opening \ {"launch"}) \cup Looking => browserOf[Process(j)] = j
    /\ at[j] \in Telling \cup {"ended"} /\ request[j].command = "onboard" => ~found[j].opened
    /\ at[j] = "ended" => \/ request[j].command = "onboard"
                          \/ request[j].command = "capture-auth" /\ request[j].login = "sso"
    /\ at[j] \notin {"idle", "load", "launch", "show"} \cup OneSteps

\* All that holds of a job as long as no other one used its harness.
OwnOK(j) == LogOK(j) /\ BaseOK(j) /\ RoutesOK(j) /\ BrowserOK(j)

AloneOK == \A j \in Jobs : ~Disturbed(j) => OwnOK(j)

CommandsInv == CommandShapes /\ PlacesOK /\ MetOK /\ AloneOK

---------------------------------------------------------------------------
(* The buffer of signals.                                                   *)

\* The oldest d signals are gone, as many as there are too many.
Dropped(log, d) ==
  /\ d \in Nat
  /\ Len(log) <= BufferSize => d = 0
  /\ Len(log) > BufferSize => d = Len(log) - BufferSize
  /\ Len(Newest(log)) = Len(log) - d
  /\ \A n \in DOMAIN Newest(log) : n + d \in DOMAIN log /\ Newest(log)[n] = log[n + d]

LEMMA NewestOf ==
  ASSUME NEW S, NEW log \in Seq(S)
  PROVE  /\ Newest(log) \in Seq(S)
         /\ \E d : Dropped(log, d)
<1>0. BufferSize \in Nat /\ Len(log) \in Nat
  BY CommandsAssumption
<1>1. CASE Len(log) <= BufferSize
  <2>1. Newest(log) = log
    BY <1>0, <1>1 DEF Newest
  <2>2. Len(log) = Len(log) - 0 /\ \A n \in DOMAIN log : n + 0 \in DOMAIN log /\ log[n] = log[n + 0]
    BY <1>0
  <2>3. ~(Len(log) > BufferSize)
    BY <1>0, <1>1
  <2>4. Dropped(log, 0)
    BY <1>1, <2>1, <2>2, <2>3 DEF Dropped
  <2> QED BY <2>1, <2>4
<1>2. CASE Len(log) > BufferSize
  <2> DEFINE d == Len(log) - BufferSize
  <2>1. d \in Nat /\ Newest(log) = SubSeq(log, d + 1, Len(log))
    BY <1>0, <1>2 DEF Newest
  <2>2. /\ Newest(log) \in Seq(S) /\ Len(Newest(log)) = Len(log) - d
        /\ \A n \in 1..(Len(log) - d) : n + d \in DOMAIN log /\ Newest(log)[n] = log[n + d]
    BY <1>0, <1>2, <2>1
  <2>3. DOMAIN Newest(log) = 1..(Len(log) - d)
    BY <2>2
  <2>4. ~(Len(log) <= BufferSize)
    BY <1>0, <1>2
  <2> HIDE DEF d
  <2>5. Dropped(log, d)
    BY <2>1, <2>2, <2>3, <2>4 DEF Dropped, d
  <2> QED BY <2>2, <2>5
<1> QED BY <1>0, <1>1, <1>2

\* What a page loads is recorded as signals.
LEMMA LoadedAreSignals ==
  ASSUME NEW u \in DOMAIN Resources, NEW more \in Resources[u]
  PROVE  /\ more \in Seq(Loaded)
         /\ [i \in DOMAIN more |-> Answer(more[i], 200)] \in Seq(Signal)
         /\ Len([i \in DOMAIN more |-> Answer(more[i], 200)]) = Len(more)
         /\ \A i \in DOMAIN more : more[i] \in Loaded
<1>1. more \in Seq(ToSet(more))
  BY CommandsAssumption
<1>2. \A i \in DOMAIN more : more[i] \in Loaded
  BY DEF Loaded, ToSet
<1>3. DOMAIN more = 1..Len(more) /\ Len(more) \in Nat
  BY <1>1
<1>4. \A i \in DOMAIN more : Answer(more[i], 200) \in Signal
  BY <1>2 DEF Answer, Signal
<1> QED BY <1>1, <1>2, <1>3, <1>4

\* What is recorded of a job is true of it, and true remains what was.
StaysTruthful(j) ==
  /\ signals' \in [Processes -> Seq(Signal)]
  /\ answered' \in [Jobs -> [DOMAIN Resources -> SUBSET {200, 500}]]
  /\ \A p \in Processes \ {Process(j)} : signals'[p] = signals[p]
  /\ \A i \in Jobs \ {j} : answered'[i] = answered[i]
  /\ \A u \in DOMAIN Resources : answered[j][u] \subseteq answered'[j][u]
  /\ Truthful(signals[Process(j)], answered[j]) => Truthful(signals'[Process(j)], answered'[j])

\* Going to a page keeps the buffer truthful, and what it was told stays true.
LEMMA LoadingIsTrue ==
  ASSUME CommandShapes, NEW j \in Jobs, NEW u \in DOMAIN Resources, NEW code \in {200, 500},
         NEW failed, failed = <<>> \/ failed = <<Answer(u, 0)>>, LoadPage(j, failed, u, code)
  PROVE  /\ StaysTruthful(j)
         /\ code \in answered'[j][u]
         /\ ~Crowded(u) /\ signals[Process(j)] = <<>> /\ Succeeded(signals'[Process(j)], u)
              => code = 200
<1> DEFINE p == Process(j)
           old == signals[p]
<1>1. p \in Processes /\ old \in Seq(Signal)
  BY DEF Process, Processes, CommandShapes
<1>2. PICK more \in Resources[u] :
        signals' = [signals EXCEPT ![p] =
                      Newest(@ \o (failed \o <<Answer(u, code)>>
                                     \o [i \in DOMAIN more |-> Answer(more[i], 200)]))]
  BY DEF LoadPage, Record
<1>3. answered' = [answered EXCEPT ![j][u] = @ \cup {code}]
  BY DEF LoadPage
<1> DEFINE got == [i \in DOMAIN more |-> Answer(more[i], 200)]
           seen == failed \o <<Answer(u, code)>> \o got
<1>4. /\ got \in Seq(Signal) /\ Len(got) = Len(more) /\ Len(more) \in Nat
      /\ \A i \in DOMAIN got : got[i].url \in Loaded
  <2>1. \A i \in DOMAIN more : got[i].url \in Loaded
    <3>1. \A i \in DOMAIN more : more[i] \in Loaded
      BY DEF Loaded, ToSet
    <3> QED BY <3>1 DEF Answer
  <2> QED BY <2>1, LoadedAreSignals
<1> HIDE DEF got
<1>5. failed \in Seq(Signal) /\ Answer(u, code) \in Signal /\ Len(failed) \in {0, 1}
  <2>1. Answer(u, code) \in Signal /\ Answer(u, 0) \in Signal
    BY DEF Answer, Signal
  <2>2. CASE failed = <<>>
    BY <2>1, <2>2
  <2>3. CASE failed = <<Answer(u, 0)>>
    BY <2>1, <2>3
  <2> QED BY <2>1, <2>2, <2>3
<1>6. /\ seen \in Seq(Signal) /\ Len(seen) = Len(failed) + 1 + Len(got)
      /\ \A n \in 1..Len(failed) : seen[n] = Answer(u, 0)
      /\ seen[Len(failed) + 1] = Answer(u, code)
      /\ \A n \in 1..Len(seen) : n > Len(failed) + 1 => seen[n].url \in Loaded
  <2>1. CASE failed = <<>>
    BY <1>4, <1>5, <2>1
  <2>2. CASE failed = <<Answer(u, 0)>>
    BY <1>4, <1>5, <2>2
  <2> QED BY <2>1, <2>2
<1> HIDE DEF seen
<1> HIDE DEF old
<1> DEFINE full == old \o seen
<1>7. /\ full \in Seq(Signal) /\ Len(full) = Len(old) + Len(seen) /\ Len(old) \in Nat
      /\ \A n \in 1..Len(old) : full[n] = old[n]
      /\ \A n \in 1..Len(full) : n > Len(old) => full[n] = seen[n - Len(old)] /\ n - Len(old) \in 1..Len(seen)
  BY <1>1, <1>6
<1>8. signals'[p] = Newest(full)
  BY <1>1, <1>2 DEF CommandShapes, seen, got, old
<1> HIDE DEF full
<1>9. PICK d : Dropped(full, d)
  <2>1. full \in Seq(Signal)
    BY <1>7
  <2> QED BY <2>1, NewestOf
<1>10. Newest(full) \in Seq(Signal)
  BY <1>7, NewestOf
<1>11. /\ signals' \in [Processes -> Seq(Signal)]
       /\ \A q \in Processes \ {p} : signals'[q] = signals[q]
  BY <1>1, <1>2, <1>8, <1>10 DEF CommandShapes
<1>12. /\ answered' \in [Jobs -> [DOMAIN Resources -> SUBSET {200, 500}]]
       /\ \A i \in Jobs \ {j} : answered'[i] = answered[i]
       /\ \A v \in DOMAIN Resources : answered[j][v] \subseteq answered'[j][v]
       /\ code \in answered'[j][u]
  BY <1>3 DEF CommandShapes
<1>13. ASSUME Truthful(old, answered[j]) PROVE Truthful(Newest(full), answered'[j])
  <2> SUFFICES ASSUME NEW n \in DOMAIN Newest(full), Newest(full)[n].status = 200
               PROVE  Newest(full)[n].url \in Loaded \/ 200 \in answered'[j][Newest(full)[n].url]
    BY DEF Truthful
  <2>1. PICK k \in 1..Len(full) : Newest(full)[n] = full[k]
    BY <1>7, <1>9 DEF Dropped
  <2>2. CASE k <= Len(old)
    <3>1. k \in DOMAIN old /\ full[k] = old[k] /\ old[k] \in Signal
      <4>1. old \in Seq(Signal)
        BY <1>1 DEF old
      <4>2. DOMAIN old = 1..Len(old) /\ k \in 1..Len(old)
        BY <1>7, <2>1, <2>2, <4>1
      <4>3. full[k] = old[k]
        BY <1>7, <4>2
      <4> QED BY <4>1, <4>2, <4>3
    <3>2. old[k].url \in Loaded \/ 200 \in answered[j][old[k].url]
      BY <1>13, <2>1, <3>1 DEF Truthful
    <3>3. old[k].url \in DOMAIN Resources \cup Loaded
      BY <3>1 DEF Signal
    <3> QED BY <1>12, <2>1, <3>1, <3>2, <3>3
  <2>3. CASE k > Len(old)
    <3>1. PICK m \in 1..Len(seen) : full[k] = seen[m]
      BY <1>7, <2>1, <2>3
    <3>2. m <= Len(failed) => seen[m].status = 0
      BY <1>5, <1>6, <3>1 DEF Answer
    <3>3. m = Len(failed) + 1 => seen[m].url = u /\ seen[m].status = code
      BY <1>6 DEF Answer
    <3>4. m > Len(failed) + 1 => seen[m].url \in Loaded
      BY <1>6, <3>1
    <3>5. m <= Len(failed) \/ m = Len(failed) + 1 \/ m > Len(failed) + 1
      BY <1>5, <3>1
    <3> QED BY <1>12, <2>1, <3>1, <3>2, <3>3, <3>4, <3>5
  <2> QED BY <1>7, <2>1, <2>2, <2>3
<1>14. ASSUME ~Crowded(u), old = <<>>, Succeeded(Newest(full), u) PROVE code = 200
  <2> DEFINE a == Len(failed) + 1
  <2>0. d \in Nat
    BY <1>9 DEF Dropped
  <2>1. Len(old) = 0 /\ Len(full) = Len(seen) /\ (\A n \in 1..Len(full) : full[n] = seen[n])
    BY <1>7, <1>14
  <2>2. BufferSize \in Nat /\ Len(more) < BufferSize
    BY <1>4, <1>14, CommandsAssumption DEF Crowded
  <2>3. d < a /\ a \in 1..Len(full)
    BY <1>4, <1>5, <1>6, <1>9, <2>1, <2>2 DEF Dropped
  <2>4. PICK i \in DOMAIN Newest(full) :
          /\ \A h \in 1..i - 1 : <<Newest(full)[h].url, u>> \notin StartsWith
          /\ Newest(full)[i].status = 200
    BY <1>14 DEF Succeeded
  <2>5. DOMAIN Newest(full) = 1..Len(full) - d /\ i \in 1..Len(full) - d /\ i + d \in 1..Len(full)
    BY <1>7, <1>9, <1>10, <2>4 DEF Dropped
  <2>6. a - d \in DOMAIN Newest(full) /\ a - d >= 1
    BY <1>5, <1>7, <2>0, <2>3, <2>5
  <2>7. Newest(full)[a - d] = Answer(u, code)
    <3>1. Newest(full)[a - d] = full[(a - d) + d]
      BY <1>9, <2>6 DEF Dropped
    <3>2. (a - d) + d = a
      BY <1>5, <2>0
    <3> QED BY <1>6, <2>1, <2>3, <3>1, <3>2
  <2>8. <<Newest(full)[a - d].url, u>> \in StartsWith
    BY <2>7, CommandsAssumption DEF Answer
  <2>9. ~(a - d < i)
    BY <2>4, <2>5, <2>6, <2>8, <1>5
  <2>10. Newest(full)[i] = seen[i + d]
    BY <1>9, <2>1, <2>4, <2>5 DEF Dropped
  <2>11. ~(i + d < a)
    <3>1. i + d < a => seen[i + d] = Answer(u, 0)
      BY <1>5, <1>6, <2>5
    <3> QED BY <2>4, <2>10, <3>1 DEF Answer
  <2>12. i = a - d
    BY <1>5, <2>0, <2>5, <2>9, <2>11
  <2> QED BY <2>4, <2>7, <2>12 DEF Answer
<1>15. StaysTruthful(j)
  BY <1>8, <1>11, <1>12, <1>13 DEF StaysTruthful, old
<1> QED BY <1>8, <1>12, <1>14, <1>15 DEF old

\* A request that failed is no success.
LEMMA RefusalIsTrue ==
  ASSUME CommandShapes, NEW j \in Jobs, NEW u \in DOMAIN Resources,
         Record(j, <<Answer(u, 0)>>), UNCHANGED answered
  PROVE  StaysTruthful(j)
<1> DEFINE p == Process(j)
           old == signals[p]
           full == old \o <<Answer(u, 0)>>
<1>1. p \in Processes /\ old \in Seq(Signal)
  BY DEF Process, Processes, CommandShapes
<1>2. Answer(u, 0) \in Signal /\ Answer(u, 0).status = 0
  BY DEF Answer, Signal
<1>3. signals'[p] = Newest(full) /\ signals' = [signals EXCEPT ![p] = Newest(full)]
  BY <1>1 DEF Record, CommandShapes
<1> HIDE DEF old
<1>4. /\ full \in Seq(Signal)
      /\ \A n \in DOMAIN full : full[n] = Answer(u, 0) \/ (n \in DOMAIN old /\ full[n] = old[n])
  BY <1>1, <1>2
<1> HIDE DEF full
<1>5. /\ Newest(full) \in Seq(Signal)
      /\ \A n \in DOMAIN Newest(full) : \E m \in DOMAIN full : Newest(full)[n] = full[m]
  <2>1. PICK d : Dropped(full, d)
    BY <1>4, NewestOf
  <2>2. Newest(full) \in Seq(Signal)
    BY <1>4, NewestOf
  <2> QED BY <2>1, <2>2 DEF Dropped
<1>6. Truthful(old, answered[j]) => Truthful(Newest(full), answered[j])
  BY <1>2, <1>4, <1>5 DEF Truthful
<1>7. \A q \in Processes \ {p} : signals'[q] = signals[q]
  BY <1>3 DEF CommandShapes
<1>8. signals' \in [Processes -> Seq(Signal)]
  BY <1>1, <1>3, <1>5 DEF CommandShapes
<1>9. /\ answered' \in [Jobs -> [DOMAIN Resources -> SUBSET {200, 500}]]
      /\ \A i \in Jobs \ {j} : answered'[i] = answered[i]
      /\ \A v \in DOMAIN Resources : answered[j][v] \subseteq answered'[j][v]
  BY DEF CommandShapes
<1> QED BY <1>3, <1>6, <1>7, <1>8, <1>9 DEF old, StaysTruthful

---------------------------------------------------------------------------
(* What the step of a job leaves alone.                                     *)

\* A job moves only itself, and of the harnesses only that of its process.
ActsAlone(j) ==
  /\ Active(j) /\ UNCHANGED <<request, met>>
  /\ alive' \subseteq alive \cup {j}
  /\ \A i \in Jobs \ {j} :
       /\ at'[i] = at[i] /\ found'[i] = found[i] /\ routes'[i] = routes[i]
       /\ answered'[i] = answered[i] /\ reply'[i] = reply[i]
  /\ \A p \in Processes \ {Process(j)} : signals'[p] = signals[p] /\ browserOf'[p] = browserOf[p]

LEMMA OneStepAlone ==
  ASSUME CommandShapes, NEW j \in Jobs, OneStep(j) \/ UnknownCommand(j) \/ LoadConfig(j)
  PROVE  ActsAlone(j) /\ CommandShapes'
<1>1. /\ at[j] \in OneSteps \cup {"load"}
      /\ \E where \in {"ended", "launch", "show"} : at' = [at EXCEPT ![j] = where]
      /\ DOMAIN reply' = Jobs /\ \A i \in Jobs \ {j} : reply'[i] = reply[i]
  BY DEF OneStep, UnknownCommand, LoadConfig, End, Go, Reply, OneSteps, CommandShapes
<1>2. UNCHANGED <<request, harness, found, routes, written, faults, past>>
  BY DEF OneStep, UnknownCommand, LoadConfig
<1> QED BY <1>1, <1>2 DEF ActsAlone, CommandShapes, Active, OneSteps, Opening, Capturing,
                          harness, written, past

LEMMA CaptureAlone ==
  ASSUME CommandShapes, NEW j \in Jobs, ShowLogin(j) \/ AwaitUrl(j) \/ Capture(j)
  PROVE  ActsAlone(j) /\ CommandShapes'
<1>1. /\ at[j] \in Capturing
      /\ \E where \in {"ended", "person", "url", "capture", "finish"} : at' = [at EXCEPT ![j] = where]
      /\ DOMAIN reply' = Jobs /\ \A i \in Jobs \ {j} : reply'[i] = reply[i]
  BY DEF ShowLogin, AwaitUrl, Capture, LoginThrows, End, Go, Reply, Capturing, CommandShapes
<1>2. /\ UNCHANGED <<request, browserOf, pageOf, signals, found, routes, written, faults, past>>
      /\ alive' \in {alive, alive \cup {j}, alive \ {j}}
  BY DEF ShowLogin, AwaitUrl, Capture, harness
<1> QED BY <1>1, <1>2 DEF ActsAlone, CommandShapes, Active, Capturing, written, past

LEMMA OpenAlone ==
  ASSUME CommandShapes, NEW j \in Jobs, Launch(j) \/ Context(j) \/ CloseBrowser(j)
  PROVE  ActsAlone(j) /\ CommandShapes'
<1>1. /\ at[j] \in Opening \cup Looking
      /\ \E where \in {"context", "report", "login", "goto"} : at' = [at EXCEPT ![j] = where]
      /\ UNCHANGED <<request, found, routes, written, reply, faults, past>>
  BY DEF Launch, Context, CloseBrowser, OpenFails, Go, Opening, Looking
<1>2. Process(j) \in Processes
  BY DEF Process, Processes
<1>3. /\ UNCHANGED browserOf \/ \E by \in {j, NoJob} : browserOf' = [browserOf EXCEPT ![Process(j)] = by]
      /\ UNCHANGED signals \/ signals' = [signals EXCEPT ![Process(j)] = <<>>]
      /\ pageOf' \in {pageOf, [pageOf EXCEPT ![Process(j)] = j], [pageOf EXCEPT ![Process(j)] = NoJob]}
      /\ alive' \in {alive, alive \cup {j}, alive \ {browserOf[Process(j)]}}
  BY DEF Launch, Context, CloseBrowser
<1>4. /\ browserOf' \in [Processes -> Jobs \cup {NoJob}] /\ DOMAIN pageOf' = Processes
      /\ signals' \in [Processes -> Seq(Signal)]
      /\ alive' \in SUBSET Jobs
      /\ \A p \in Processes \ {Process(j)} : signals'[p] = signals[p] /\ browserOf'[p] = browserOf[p]
  <2>1. /\ browserOf' \in [Processes -> Jobs \cup {NoJob}]
        /\ \A p \in Processes \ {Process(j)} : browserOf'[p] = browserOf[p]
    <3>1. CASE UNCHANGED browserOf
      BY <3>1 DEF CommandShapes
    <3>2. ASSUME NEW by \in {j, NoJob}, browserOf' = [browserOf EXCEPT ![Process(j)] = by]
          PROVE  /\ browserOf' \in [Processes -> Jobs \cup {NoJob}]
                 /\ \A p \in Processes \ {Process(j)} : browserOf'[p] = browserOf[p]
      BY <1>2, <3>2 DEF CommandShapes
    <3> QED BY <1>3, <3>1, <3>2
  <2>2. /\ signals' \in [Processes -> Seq(Signal)]
        /\ \A p \in Processes \ {Process(j)} : signals'[p] = signals[p]
    <3>1. <<>> \in Seq(Signal)
      OBVIOUS
    <3>2. CASE UNCHANGED signals
      BY <3>2 DEF CommandShapes
    <3>3. CASE signals' = [signals EXCEPT ![Process(j)] = <<>>]
      BY <1>2, <3>1, <3>3 DEF CommandShapes
    <3> QED BY <1>3, <3>2, <3>3
  <2>3. DOMAIN pageOf' = Processes
    BY <1>3 DEF CommandShapes
  <2>4. alive' \in SUBSET Jobs
    BY <1>3 DEF CommandShapes
  <2> QED BY <2>1, <2>2, <2>3, <2>4
<1>5. alive' \subseteq alive \cup {j}
  BY <1>3
<1> QED BY <1>1, <1>4, <1>5 DEF ActsAlone, CommandShapes, Active, Opening, Looking, Telling, written, past

LEMMA LoadAlone ==
  ASSUME CommandShapes, NEW j \in Jobs, Login(j) \/ GoToBase(j) \/ VisitRoute(j),
         at[j] = "visit" => routes[j] # <<>>
  PROVE  /\ ActsAlone(j) /\ CommandShapes'
         /\ StaysTruthful(j)
<1>1. /\ at[j] \in {"login", "goto", "visit"}
      /\ \E where \in {"goto", "smoke", "check", "report"} : at' = [at EXCEPT ![j] = where]
      /\ UNCHANGED <<request, browserOf, pageOf, alive, routes, written, reply, faults, met>>
      /\ found' \in {found, [found EXCEPT ![j].opened = TRUE]}
  BY DEF Login, GoToBase, VisitRoute, OpenFails, Go
<1>2. Process(j) \in Processes
  BY DEF Process, Processes
<1>3. \/ \E u \in DOMAIN Resources, code \in {200, 500} : \E failed \in {<<>>, <<Answer(u, 0)>>} :
           LoadPage(j, failed, u, code)
      \/ UNCHANGED <<signals, answered>>
      \/ UNCHANGED answered /\ Record(j, <<Answer(Head(routes[j]), 0)>>) /\ Head(routes[j]) \in DOMAIN Resources
  <2>1. CASE Login(j)
    BY <2>1, CommandsAssumption DEF Login
  <2>2. CASE GoToBase(j)
    BY <2>2, CommandsAssumption DEF GoToBase
  <2>3. CASE VisitRoute(j)
    <3>1. Head(routes[j]) \in DOMAIN Resources
      BY <2>3 DEF VisitRoute, CommandShapes
    <3> QED BY <2>3, <3>1 DEF VisitRoute
  <2> QED BY <2>1, <2>2, <2>3
<1>4. StaysTruthful(j)
  <2>1. CASE \E u \in DOMAIN Resources, code \in {200, 500} : \E failed \in {<<>>, <<Answer(u, 0)>>} :
               LoadPage(j, failed, u, code)
    <3>1. PICK u \in DOMAIN Resources, code \in {200, 500} :
                 \E failed \in {<<>>, <<Answer(u, 0)>>} : LoadPage(j, failed, u, code)
      BY <2>1
    <3>2. PICK failed \in {<<>>, <<Answer(u, 0)>>} : LoadPage(j, failed, u, code)
      BY <3>1
    <3>3. failed = <<>> \/ failed = <<Answer(u, 0)>>
      OBVIOUS
    <3> QED BY <3>2, <3>3, LoadingIsTrue
  <2>2. CASE UNCHANGED <<signals, answered>>
    BY <2>2 DEF CommandShapes, StaysTruthful
  <2>3. CASE UNCHANGED answered /\ Record(j, <<Answer(Head(routes[j]), 0)>>) /\ Head(routes[j]) \in DOMAIN Resources
    BY <2>3, RefusalIsTrue
  <2> QED BY <1>3, <2>1, <2>2, <2>3
<1>5. found' \in [Jobs -> Finding]
      /\ \A i \in Jobs \ {j} : found'[i] = found[i]
  <2>1. CASE found' = found
    BY <2>1 DEF CommandShapes
  <2>2. CASE found' = [found EXCEPT ![j].opened = TRUE]
    <3>1. [found[j] EXCEPT !.opened = TRUE] \in Finding
      <4>1. found[j] \in Finding
        BY DEF CommandShapes
      <4> QED BY <4>1 DEF Finding
    <3>2. found' = [found EXCEPT ![j] = [found[j] EXCEPT !.opened = TRUE]]
      BY <2>2
    <3> QED BY <3>1, <3>2 DEF CommandShapes
  <2> QED BY <1>1, <2>1, <2>2
<1>6. /\ at' \in [Jobs -> {"idle", "load", "ended"} \cup Opening \cup Looking \cup Telling \cup Capturing
                     \cup OneSteps]
      /\ \A i \in Jobs \ {j} : at'[i] = at[i]
      /\ Active(j)
  BY <1>1 DEF CommandShapes, Opening, Looking, Telling, Active
<1>7. CommandShapes'
  BY <1>1, <1>4, <1>5, <1>6 DEF CommandShapes, written, StaysTruthful
<1>8. ActsAlone(j)
  BY <1>1, <1>4, <1>5, <1>6 DEF ActsAlone, StaysTruthful
<1> QED BY <1>4, <1>7, <1>8

LEMMA FindingKept ==
  ASSUME CommandShapes, NEW j \in Jobs,
         \/ \E value \in BOOLEAN : found' = [found EXCEPT ![j].smoke = value]
         \/ \E value \in BOOLEAN : found' = [found EXCEPT ![j].blocked = @ \/ value]
         \/ \E value \in {"ok", "failed", "error"} : found' = [found EXCEPT ![j].plan = value]
  PROVE  /\ \A i \in Jobs \ {j} : found'[i] = found[i]
         /\ found' \in [Jobs -> Finding]
<1>1. PICK f \in Finding : found' = [found EXCEPT ![j] = f]
  <2>1. found[j] \in Finding
    BY DEF CommandShapes
  <2>2. CASE \E value \in BOOLEAN : found' = [found EXCEPT ![j].smoke = value]
    BY <2>1, <2>2 DEF Finding, CommandShapes
  <2>3. CASE \E value \in BOOLEAN : found' = [found EXCEPT ![j].blocked = @ \/ value]
    <3>1. PICK value \in BOOLEAN : found' = [found EXCEPT ![j].blocked = @ \/ value]
      BY <2>3
    <3>2. found' = [found EXCEPT ![j] = [found[j] EXCEPT !.blocked = @ \/ value]]
      BY <3>1
    <3>3. [found[j] EXCEPT !.blocked = @ \/ value] \in Finding
      <4>1. CASE value
        BY <2>1, <4>1 DEF Finding
      <4>2. CASE ~value
        BY <2>1, <4>2 DEF Finding
      <4> QED BY <4>1, <4>2
    <3> QED BY <3>2, <3>3
  <2>4. CASE \E value \in {"ok", "failed", "error"} : found' = [found EXCEPT ![j].plan = value]
    BY <2>1, <2>4 DEF Finding, CommandShapes
  <2> QED BY <2>2, <2>3, <2>4
<1> QED BY <1>1 DEF CommandShapes

LEMMA LookAlone ==
  ASSUME CommandShapes, NEW j \in Jobs, VerifyMinimalSmoke(j) \/ CheckRoute(j) \/ RunSmokePlan(j),
         at[j] = "check" => routes[j] # <<>>
  PROVE  ActsAlone(j) /\ CommandShapes'
<1>1. /\ at[j] \in Looking
      /\ \E where \in {"plan", "visit", "close"} : at' = [at EXCEPT ![j] = where]
      /\ UNCHANGED <<request, harness, written, reply, faults, past>>
  BY DEF VerifyMinimalSmoke, CheckRoute, RunSmokePlan, Go, Looking, Next0
<1>2. /\ \A i \in Jobs \ {j} : found'[i] = found[i]
      /\ found' \in [Jobs -> Finding]
  <2>1. CASE VerifyMinimalSmoke(j)
    <3>1. PICK value \in BOOLEAN : found' = [found EXCEPT ![j].smoke = value]
      BY <2>1 DEF VerifyMinimalSmoke, Accessible
    <3> QED BY <3>1, FindingKept
  <2>2. CASE CheckRoute(j)
    <3>1. PICK value \in BOOLEAN : found' = [found EXCEPT ![j].blocked = @ \/ value]
      BY <2>2 DEF CheckRoute
    <3> QED BY <3>1, FindingKept
  <2>3. CASE RunSmokePlan(j)
    <3>1. PICK value \in {"ok", "failed", "error"} : found' = [found EXCEPT ![j].plan = value]
      BY <2>3 DEF RunSmokePlan
    <3> QED BY <3>1, FindingKept
  <2> QED BY <2>1, <2>2, <2>3
<1>3. /\ \A i \in Jobs \ {j} : routes'[i] = routes[i]
      /\ routes' \in [Jobs -> Seq(DOMAIN Resources)]
  <2>1. routes' = routes \/ (at[j] = "check" /\ routes' = [routes EXCEPT ![j] = Tail(@)])
    BY DEF VerifyMinimalSmoke, CheckRoute, RunSmokePlan
  <2>2. at[j] = "check" => Tail(routes[j]) \in Seq(DOMAIN Resources)
    BY DEF CommandShapes
  <2>3. CASE UNCHANGED routes
    BY <2>3 DEF CommandShapes
  <2>4. CASE at[j] = "check" /\ routes' = [routes EXCEPT ![j] = Tail(@)]
    BY <2>2, <2>4 DEF CommandShapes
  <2> QED BY <2>1, <2>3, <2>4
<1>4. /\ at' \in [Jobs -> {"idle", "load", "ended"} \cup Opening \cup Looking \cup Telling \cup Capturing
                     \cup OneSteps]
      /\ \A i \in Jobs \ {j} : at'[i] = at[i]
      /\ Active(j)
  BY <1>1 DEF CommandShapes, Looking, Active
<1>5. CommandShapes'
  BY <1>1, <1>2, <1>3, <1>4 DEF CommandShapes, harness, written, past
<1> QED BY <1>1, <1>2, <1>3, <1>4, <1>5 DEF ActsAlone, harness, past

LEMMA TellAlone ==
  ASSUME CommandShapes, NEW j \in Jobs,
         WriteReport(j) \/ WriteReadiness(j) \/ AppendHistory(j) \/ WriteFails(j)
  PROVE  ActsAlone(j) /\ CommandShapes'
<1>1. /\ at[j] \in Telling
      /\ \E where \in {"persist", "append", "ended"} : at' = [at EXCEPT ![j] = where]
      /\ UNCHANGED <<request, harness, found, routes, past>>
      /\ DOMAIN reply' = Jobs /\ \A i \in Jobs \ {j} : reply'[i] = reply[i]
      /\ faults' \in {faults, faults + 1}
  BY DEF WriteReport, WriteReadiness, AppendHistory, WriteFails, Go, End, Reply, Telling, CommandShapes
<1>2. lines' \in Seq([by : Jobs, status : {"passed", "blocked", "failed"}])
  <2>1. CASE AppendHistory(j)
    <3>1. lines' = Append(lines, [by |-> j, status |-> ToRunHistoryStatus(Evaluate(found[j]))])
      BY <2>1 DEF AppendHistory
    <3>2. ToRunHistoryStatus(Evaluate(found[j])) \in {"passed", "blocked", "failed"}
      BY DEF ToRunHistoryStatus
    <3> QED BY <3>1, <3>2 DEF CommandShapes
  <2>2. CASE ~AppendHistory(j)
    BY <2>2 DEF WriteReport, WriteReadiness, WriteFails, written, CommandShapes
  <2> QED BY <2>1, <2>2
<1> QED BY <1>1, <1>2 DEF ActsAlone, CommandShapes, Active, Telling, harness, past
---------------------------------------------------------------------------
(* The places of a job, and whom it met.                                    *)

LEMMA CommandActs ==
  ASSUME CommandShapes, PlacesOK, NEW j \in Jobs, Command(j) \/ WriteFails(j)
  PROVE  ActsAlone(j) /\ CommandShapes'
<1>1. /\ at[j] = "visit" => routes[j] # <<>>
      /\ at[j] = "check" => routes[j] # <<>>
  BY DEF PlacesOK
<1>2. CASE Onboard(j)
  BY <1>1, <1>2, OpenAlone, LoadAlone, LookAlone, TellAlone DEF Onboard
<1>3. CASE Command(j) /\ ~Onboard(j)
  BY <1>3, OneStepAlone, CaptureAlone DEF Command
<1>4. CASE WriteFails(j)
  BY <1>4, TellAlone
<1> QED BY <1>2, <1>3, <1>4

LEMMA TailOf ==
  ASSUME NEW S, NEW s \in Seq(S), s # <<>>
  PROVE  /\ Tail(s) \in Seq(S) /\ Len(Tail(s)) = Len(s) - 1 /\ Len(s) \in Nat \ {0}
         /\ Head(s) = s[1] /\ s[1] \in S
         /\ \A m \in DOMAIN Tail(s) : Tail(s)[m] = s[m + 1] /\ m + 1 \in DOMAIN s
         /\ Tail(s) = <<>> <=> Len(s) = 1
<1>1. Len(s) \in Nat \ {0}
  OBVIOUS
<1>2. Tail(s) \in Seq(S) /\ Len(Tail(s)) = Len(s) - 1
  BY <1>1
<1>3. Head(s) = s[1] /\ s[1] \in S
  BY <1>1
<1>4. DOMAIN Tail(s) = 1..Len(s) - 1 /\ DOMAIN s = 1..Len(s)
  BY <1>1, <1>2
<1>5. \A m \in DOMAIN Tail(s) : Tail(s)[m] = s[m + 1] /\ m + 1 \in DOMAIN s
  BY <1>1, <1>4
<1>6. Tail(s) = <<>> => Len(s) = 1
  <2>1. Len(s) # 1 => 1 \in DOMAIN Tail(s)
    BY <1>1, <1>4
  <2>2. DOMAIN <<>> = {}
    OBVIOUS
  <2> QED BY <2>1, <2>2
<1>7. Len(s) = 1 => Tail(s) = <<>>
  BY <1>1, <1>2, <1>4
<1> QED BY <1>1, <1>2, <1>3, <1>5, <1>6, <1>7

\* The places of one job, as PlacesOK has them.
PlaceOK(j) ==
  /\ at[j] = "load" => request[j].command \in {"onboard", "capture-auth"}
  /\ at[j] \in Opening \cup Looking \cup Telling => Onboards(j)
  /\ at[j] \in Capturing => request[j].command = "capture-auth"
  /\ at[j] \in Opening \cup {"idle", "load"} => found[j] = NothingFound
  /\ at[j] \in Looking => found[j].opened /\ (at[j] = "close" <=> found[j].plan # "none")
  /\ at[j] \in Telling /\ found[j].opened => found[j].plan # "none"
  /\ at[j] \in {"visit", "check"} => routes[j] # <<>>
  /\ at[j] = "plan" \/ found[j].plan # "none" => routes[j] = <<>>

LEMMA OneStepPlace ==
  ASSUME CommandShapes, NEW j \in Jobs, PlaceOK(j), OneStep(j) \/ UnknownCommand(j) \/ LoadConfig(j)
  PROVE  PlaceOK(j)'
<1>1. /\ UNCHANGED <<request, found, routes>>
      /\ \/ at'[j] = "ended"
         \/ at'[j] = "launch" /\ Onboards(j) /\ found[j] = NothingFound
         \/ at'[j] = "show" /\ request[j].command = "capture-auth"
  BY DEF OneStep, UnknownCommand, LoadConfig, End, Go, PlaceOK, CommandShapes, Onboards
<1>2. found[j].plan # "none" => routes[j] = <<>>
  BY DEF PlaceOK
<1> QED BY <1>1, <1>2 DEF PlaceOK, Onboards, Opening, Looking, Telling, Capturing, NothingFound

LEMMA CapturePlace ==
  ASSUME CommandShapes, NEW j \in Jobs, PlaceOK(j), ShowLogin(j) \/ AwaitUrl(j) \/ Capture(j)
  PROVE  PlaceOK(j)'
<1>1. /\ UNCHANGED <<request, found, routes>>
      /\ at'[j] \in {"ended", "person", "url", "capture", "finish"}
      /\ request[j].command = "capture-auth"
  BY DEF ShowLogin, AwaitUrl, Capture, LoginThrows, End, Go, PlaceOK, CommandShapes, Capturing
<1>2. found[j].plan # "none" => routes[j] = <<>>
  BY DEF PlaceOK
<1> QED BY <1>1, <1>2 DEF PlaceOK, Opening, Looking, Telling, Capturing

LEMMA OpenPlace ==
  ASSUME CommandShapes, NEW j \in Jobs, PlaceOK(j), Launch(j) \/ Context(j) \/ Login(j) \/ GoToBase(j)
  PROVE  PlaceOK(j)'
<1>1. Onboards(j) /\ found[j] = NothingFound
  BY DEF Launch, Context, Login, GoToBase, PlaceOK, Opening
<1>2. UNCHANGED <<request, routes>>
  BY DEF Launch, Context, Login, GoToBase
<1>3. \/ at'[j] \in Opening \cup {"report"} /\ found'[j] = found[j]
      \/ at'[j] = "smoke" /\ found' = [found EXCEPT ![j].opened = TRUE]
  BY DEF Launch, Context, Login, GoToBase, OpenFails, Go, Opening, CommandShapes
<1>4. CASE at'[j] \in Opening \cup {"report"} /\ found'[j] = found[j]
  BY <1>1, <1>2, <1>4 DEF PlaceOK, Onboards, Opening, Looking, Telling, Capturing, NothingFound
<1>5. CASE at'[j] = "smoke" /\ found' = [found EXCEPT ![j].opened = TRUE]
  <2>1. found'[j].opened /\ found'[j].plan = "none"
    BY <1>1, <1>5 DEF CommandShapes, NothingFound
  <2> QED BY <1>1, <1>2, <1>5, <2>1 DEF PlaceOK, Onboards, Opening, Looking, Telling, Capturing
<1> QED BY <1>3, <1>4, <1>5

LEMMA LookPlace ==
  ASSUME CommandShapes, NEW j \in Jobs, PlaceOK(j),
         VerifyMinimalSmoke(j) \/ VisitRoute(j) \/ CheckRoute(j)
  PROVE  PlaceOK(j)'
<1>1. /\ Onboards(j) /\ found[j].opened /\ found[j].plan = "none" /\ UNCHANGED request
  BY DEF VerifyMinimalSmoke, VisitRoute, CheckRoute, PlaceOK, Looking
<1>2. found'[j].opened /\ found'[j].plan = "none"
  <2>1. CASE VerifyMinimalSmoke(j)
    <3>1. \E value : found' = [found EXCEPT ![j].smoke = value]
      BY <2>1 DEF VerifyMinimalSmoke
    <3> QED BY <1>1, <3>1 DEF CommandShapes, Finding
  <2>2. CASE CheckRoute(j)
    <3>1. \E value : found' = [found EXCEPT ![j].blocked = value]
      BY <2>2 DEF CheckRoute
    <3> QED BY <1>1, <3>1 DEF CommandShapes, Finding
  <2>3. CASE VisitRoute(j)
    BY <1>1, <2>3 DEF VisitRoute
  <2> QED BY <2>1, <2>2, <2>3
<1>3. /\ at'[j] \in {"visit", "check", "plan"}
      /\ at'[j] = "plan" <=> routes'[j] = <<>>
  <2>1. CASE VerifyMinimalSmoke(j)
    BY <2>1 DEF VerifyMinimalSmoke, Next0, Go, CommandShapes
  <2>2. CASE VisitRoute(j)
    BY <2>2 DEF VisitRoute, Go, CommandShapes, PlaceOK
  <2>3. CASE CheckRoute(j)
    <3>1. routes[j] \in Seq(DOMAIN Resources) /\ routes[j] # <<>>
      BY <2>3 DEF CheckRoute, CommandShapes, PlaceOK
    <3>2. Tail(routes[j]) = <<>> <=> Len(routes[j]) = 1
      BY <3>1, TailOf
    <3>3. routes'[j] = Tail(routes[j])
      BY <2>3 DEF CheckRoute, CommandShapes
    <3> QED BY <2>3, <3>2, <3>3 DEF CheckRoute, Go, CommandShapes
  <2> QED BY <2>1, <2>2, <2>3
<1> QED BY <1>1, <1>2, <1>3 DEF PlaceOK, Onboards, Opening, Looking, Telling, Capturing

LEMMA TellPlace ==
  ASSUME CommandShapes, NEW j \in Jobs, PlaceOK(j),
         \/ RunSmokePlan(j) \/ CloseBrowser(j) \/ WriteReport(j) \/ WriteReadiness(j)
         \/ AppendHistory(j) \/ WriteFails(j)
  PROVE  PlaceOK(j)'
<1>1. Onboards(j) /\ UNCHANGED <<request, routes>>
  BY DEF RunSmokePlan, CloseBrowser, WriteReport, WriteReadiness, AppendHistory, WriteFails, PlaceOK,
         Looking, Telling
<1>2. CASE RunSmokePlan(j)
  <2>1. PICK value \in {"ok", "failed", "error"} : found' = [found EXCEPT ![j].plan = value]
    BY <1>2 DEF RunSmokePlan
  <2>2. found'[j].opened /\ found'[j].plan # "none" /\ routes[j] = <<>> /\ at'[j] = "close"
    BY <1>2, <2>1 DEF RunSmokePlan, Go, CommandShapes, PlaceOK, Finding, Looking
  <2> QED BY <1>1, <2>2 DEF PlaceOK, Onboards, Opening, Looking, Telling, Capturing
<1>3. CASE ~RunSmokePlan(j)
  <2>1. /\ UNCHANGED found
        /\ found[j].opened => found[j].plan # "none"
        /\ at'[j] \in Telling \cup {"ended"}
    BY <1>3 DEF CloseBrowser, WriteReport, WriteReadiness, AppendHistory, WriteFails, PlaceOK, Go, End,
                Looking, Telling, CommandShapes
  <2>2. found[j].plan # "none" => routes[j] = <<>>
    BY DEF PlaceOK
  <2>3. /\ at'[j] \notin Opening \cup Looking \cup Capturing \cup {"idle", "load"}
        /\ at'[j] # "plan" /\ at'[j] \notin {"visit", "check"}
    BY <2>1 DEF Opening, Looking, Telling, Capturing
  <2>4. Onboards(j)'
    BY <1>1 DEF Onboards
  <2> QED BY <1>1, <2>1, <2>2, <2>3, <2>4 DEF PlaceOK
<1> QED BY <1>2, <1>3

LEMMA CommandPlaces ==
  ASSUME CommandShapes, PlacesOK, NEW j \in Jobs, Command(j) \/ WriteFails(j)
  PROVE  PlacesOK'
<1>1. \A i \in Jobs : PlaceOK(i)
  BY DEF PlacesOK, PlaceOK
<1>2. PlaceOK(j)'
  BY <1>1, OneStepPlace, CapturePlace, OpenPlace, LookPlace, TellPlace DEF Command, Onboard
<1>3. ASSUME NEW i \in Jobs \ {j} PROVE PlaceOK(i)'
  <2>1. at'[i] = at[i] /\ found'[i] = found[i] /\ routes'[i] = routes[i] /\ UNCHANGED request
    BY CommandActs DEF ActsAlone
  <2> QED BY <1>1, <2>1 DEF PlaceOK, Onboards
<1>4. \A i \in Jobs : PlaceOK(i)'
  BY <1>2, <1>3
<1> QED BY <1>4 DEF PlacesOK, PlaceOK

LEMMA CommandMet ==
  ASSUME CommandShapes, PlacesOK, MetOK, NEW j \in Jobs, Command(j) \/ WriteFails(j)
  PROVE  MetOK'
<1>1. ActsAlone(j) /\ CommandShapes /\ at'[j] # "idle"
  <2>1. at'[j] # "idle"
    BY DEF Command, Onboard, OneStep, UnknownCommand, LoadConfig, ShowLogin, AwaitUrl, Capture, LoginThrows,
           Launch, Context, Login, GoToBase, OpenFails, VerifyMinimalSmoke, Next0, VisitRoute, CheckRoute,
           RunSmokePlan, CloseBrowser, WriteReport, WriteReadiness, AppendHistory, WriteFails, Go, End,
           CommandShapes
  <2> QED BY <2>1, CommandActs
<1>2. \A i \in Jobs : Active(i)' => Active(i)
  BY <1>1 DEF ActsAlone, Active
<1>3. \A i \in Jobs : at[i] # "idle" => at'[i] # "idle"
  BY <1>1 DEF ActsAlone
<1> QED BY <1>1, <1>2, <1>3 DEF MetOK, ActsAlone
---------------------------------------------------------------------------
(* What holds of a job that had its harness for itself.                     *)

\* The routes are as they were where nothing about them changes.
LEMMA RoutesKept ==
  ASSUME NEW j \in Jobs, RoutesOK(j), at[j] # "idle" \/ at'[j] = "idle", request'[j] = request[j],
         routes'[j] = routes[j], found'[j] = found[j], answered'[j] = answered[j]
  PROVE  RoutesOK(j)'
<1> DEFINE all == request[j].routes
           checked == Len(all) - Len(routes[j])
<1> SUFFICES ASSUME at'[j] # "idle" PROVE RoutesOK(j)'
  BY DEF RoutesOK
<1>1. /\ checked \in 0..Len(all)
      /\ \A m \in DOMAIN routes[j] : routes[j][m] = all[checked + m]
      /\ ~found[j].blocked => \A i \in 1..checked : RouteEarned(j, all[i])
  BY DEF RoutesOK
<1>2. ~found'[j].blocked => \A i \in 1..checked : Mistakable(all[i]) \/ 200 \in answered'[j][all[i]]
  BY <1>1 DEF RouteEarned
<1>3. request'[j].routes = all /\ Len(request'[j].routes) - Len(routes'[j]) = checked
  OBVIOUS
<1> HIDE DEF all, checked
<1> QED BY <1>1, <1>2, <1>3 DEF RoutesOK, RouteEarned, Mistakable

\* A job that is not moved keeps what is its own.
LEMMA OwnKept ==
  ASSUME NEW i \in Jobs, OwnOK(i), request'[i] = request[i],
         at'[i] = at[i], found'[i] = found[i], routes'[i] = routes[i], answered'[i] = answered[i],
         Active(i) => /\ signals'[Process(i)] = signals[Process(i)]
                      /\ browserOf'[Process(i)] = browserOf[Process(i)],
         i \in alive' => i \in alive
  PROVE  OwnOK(i)'
<1>1. Process(i)' = Process(i)
  BY DEF Process
<1>2. LogOK(i)'
  BY <1>1 DEF OwnOK, LogOK, Truthful, Active
<1>3. BaseEarned(i)' <=> BaseEarned(i)
  BY DEF BaseEarned
<1>4. BaseOK(i)'
  BY <1>1, <1>3 DEF OwnOK, BaseOK, Succeeded, Active
<1>5. RoutesOK(i)'
  BY RoutesKept DEF OwnOK
<1>6. BrowserOK(i)'
  BY <1>1 DEF OwnOK, BrowserOK, Active, Opening, Looking
<1> QED BY <1>2, <1>4, <1>5, <1>6 DEF OwnOK

LEMMA OthersKeepTheirOwn ==
  ASSUME CommandsInv, NEW j \in Jobs, ActsAlone(j), NEW i \in Jobs \ {j}, ~Disturbed(i)'
  PROVE  OwnOK(i)'
<1>1. ~Disturbed(i) /\ OwnOK(i)
  BY DEF Disturbed, Process, ActsAlone, CommandsInv, AloneOK
<1>2. Active(i) => Process(i) # Process(j)
  BY <1>1 DEF CommandsInv, MetOK, ActsAlone, Disturbed
<1>3. Process(i) \in Processes
  BY DEF Process, Processes
<1> QED BY <1>1, <1>2, <1>3, OwnKept DEF ActsAlone

\* What was earned stays so.
LEMMA EarnedStays ==
  ASSUME NEW j \in Jobs, UNCHANGED request,
         \A u \in DOMAIN Resources : answered[j][u] \subseteq answered'[j][u]
  PROVE  /\ BaseEarned(j) => BaseEarned(j)'
         /\ \A u \in DOMAIN Resources : RouteEarned(j, u) => RouteEarned(j, u)'
<1>1. BaseUrl \in DOMAIN Resources
  BY CommandsAssumption
<1> QED BY <1>1 DEF BaseEarned, RouteEarned

\* A step that finds nothing, answers nothing and looks at no buffer.
LEMMA PlainStep ==
  ASSUME CommandsInv, NEW j \in Jobs, OwnOK(j), UNCHANGED <<request, found, routes, answered>>,
         at[j] \notin {"idle", "smoke"},
         at'[j] \notin {"idle", "login", "goto", "smoke", "visit", "check"}
  PROVE  LogOK(j)' /\ BaseOK(j)' /\ RoutesOK(j)'
<1>1. LogOK(j)'
  BY DEF LogOK
<1>2. BaseOK(j)'
  <2>1. BaseEarned(j)' <=> BaseEarned(j)
    BY DEF BaseEarned
  <2> QED BY <2>1 DEF OwnOK, BaseOK
<1>3. RoutesOK(j)'
  BY RoutesKept DEF OwnOK
<1> QED BY <1>1, <1>2, <1>3

LEMMA OneStepOwn ==
  ASSUME CommandsInv, NEW j \in Jobs, OwnOK(j), OneStep(j) \/ UnknownCommand(j) \/ LoadConfig(j)
  PROVE  OwnOK(j)'
<1>1. /\ UNCHANGED <<request, found, routes, answered, alive>>
      /\ at[j] \in OneSteps \cup {"load"}
      /\ at'[j] \in {"ended", "launch", "show"}
  BY DEF OneStep, UnknownCommand, LoadConfig, End, Go, OneSteps, harness, past, CommandsInv, CommandShapes
<1>2. LogOK(j)' /\ BaseOK(j)' /\ RoutesOK(j)'
  BY <1>1, PlainStep DEF OneSteps
<1>3. j \notin alive
  BY <1>1 DEF OwnOK, BrowserOK, OneSteps
<1> QED BY <1>1, <1>2, <1>3 DEF OwnOK, BrowserOK

LEMMA CaptureOwn ==
  ASSUME CommandsInv, NEW j \in Jobs, OwnOK(j), ShowLogin(j) \/ AwaitUrl(j) \/ Capture(j)
  PROVE  OwnOK(j)'
<1>1. /\ UNCHANGED <<request, found, routes, answered>>
      /\ at[j] \in Capturing
      /\ at'[j] \in {"ended", "person", "url", "capture", "finish"}
      /\ at'[j] = "ended" /\ j \in alive' => request[j].login = "sso"
  BY DEF ShowLogin, AwaitUrl, Capture, LoginThrows, End, Go, Capturing, past, CommandsInv, CommandShapes
<1>2. LogOK(j)' /\ BaseOK(j)' /\ RoutesOK(j)'
  BY <1>1, PlainStep DEF Capturing
<1>3. request[j].command = "capture-auth"
  BY <1>1 DEF CommandsInv, PlacesOK
<1>4. BrowserOK(j)'
  BY <1>1, <1>3 DEF BrowserOK, Opening, Looking, Telling, OneSteps
<1> QED BY <1>2, <1>4 DEF OwnOK

LEMMA LaunchOwn ==
  ASSUME CommandsInv, NEW j \in Jobs, OwnOK(j), Launch(j)
  PROVE  OwnOK(j)'
<1>1. /\ UNCHANGED <<request, found, routes, answered>>
      /\ at[j] = "launch" /\ found[j] = NothingFound
      /\ \/ at'[j] = "context" /\ browserOf' = [browserOf EXCEPT ![Process(j)] = j]
         \/ at'[j] = "report" /\ UNCHANGED alive
  BY DEF Launch, OpenFails, Go, past, CommandsInv, CommandShapes, PlacesOK, Opening
<1>2. LogOK(j)' /\ BaseOK(j)' /\ RoutesOK(j)'
  BY <1>1, PlainStep
<1>3. j \notin alive
  BY <1>1 DEF OwnOK, BrowserOK
<1>4. BrowserOK(j)'
  <2>1. Process(j) \in Processes /\ Process(j)' = Process(j)
    BY <1>1 DEF Process, Processes
  <2>2. at'[j] = "context" => browserOf'[Process(j)] = j
    BY <1>1, <2>1 DEF CommandsInv, CommandShapes
  <2> QED BY <1>1, <1>3, <2>1, <2>2 DEF BrowserOK, Opening, Looking, Telling, OneSteps
<1> QED BY <1>2, <1>4 DEF OwnOK

LEMMA ContextOwn ==
  ASSUME CommandsInv, NEW j \in Jobs, OwnOK(j), Context(j)
  PROVE  OwnOK(j)'
<1>1. /\ UNCHANGED <<request, found, routes, answered, alive, browserOf>>
      /\ at[j] = "context" /\ found[j] = NothingFound
      /\ \/ /\ at'[j] = IF request[j].login = "form" THEN "login" ELSE "goto"
            /\ signals' = [signals EXCEPT ![Process(j)] = <<>>]
         \/ at'[j] = "report"
  BY DEF Context, OpenFails, Go, past, CommandsInv, CommandShapes, PlacesOK, Opening
<1>2. Process(j) \in Processes /\ Process(j)' = Process(j)
  BY <1>1 DEF Process, Processes
<1>3. at'[j] \in {"login", "goto"} => signals'[Process(j)] = <<>>
  BY <1>1, <1>2 DEF CommandsInv, CommandShapes
<1>4. LogOK(j)'
  <2>1. at'[j] \in {"login", "goto", "report"}
    BY <1>1
  <2> QED BY <1>2, <1>3, <2>1 DEF LogOK, Truthful
<1>5. BaseOK(j)'
  BY <1>1, <1>2, <1>3 DEF BaseOK, NothingFound
<1>6. RoutesOK(j)'
  BY <1>1 DEF OwnOK, RoutesOK, RouteEarned, Mistakable
<1>7. BrowserOK(j)'
  BY <1>1, <1>2 DEF OwnOK, BrowserOK, NothingFound, Opening, Looking, Telling, OneSteps
<1> QED BY <1>4, <1>5, <1>6, <1>7 DEF OwnOK

\* Where the routes and what they said stay, they are as earned as before.
LEMMA RoutesStay ==
  ASSUME CommandsInv, NEW j \in Jobs, RoutesOK(j), at[j] # "idle", UNCHANGED <<request, routes>>,
         found'[j].blocked = found[j].blocked,
         \A u \in DOMAIN Resources : answered[j][u] \subseteq answered'[j][u]
  PROVE  RoutesOK(j)'
<1> DEFINE all == request[j].routes
           checked == Len(all) - Len(routes[j])
<1>1. all \in Seq(DOMAIN Resources)
  BY CommandsAssumption DEF CommandsInv, CommandShapes
<1>2. \A i \in DOMAIN all : RouteEarned(j, all[i]) => RouteEarned(j, all[i])'
  BY <1>1 DEF RouteEarned
<1>3. checked \in 0..Len(all) => \A i \in 1..checked : i \in DOMAIN all
  <2> HIDE DEF all, checked
  <2>1. DOMAIN all = 1..Len(all) /\ Len(all) \in Nat
    BY <1>1
  <2> QED BY <2>1
<1>4. /\ checked \in 0..Len(all)
      /\ \A m \in DOMAIN routes[j] : routes[j][m] = all[checked + m]
      /\ ~found[j].blocked => \A i \in 1..checked : RouteEarned(j, all[i])
  BY DEF RoutesOK
<1>5. \A i \in DOMAIN all : RouteEarned(j, all[i]) => Mistakable(all[i]) \/ 200 \in answered'[j][all[i]]
  BY <1>2 DEF RouteEarned, Mistakable
<1>6. ~found'[j].blocked => \A i \in 1..checked : Mistakable(all[i]) \/ 200 \in answered'[j][all[i]]
  <2> HIDE DEF all, checked
  <2> QED BY <1>3, <1>4, <1>5
<1>7. request'[j].routes = all /\ routes'[j] = routes[j] /\ Len(request'[j].routes) - Len(routes'[j]) = checked
  OBVIOUS
<1> HIDE DEF all, checked
<1> QED BY <1>4, <1>6, <1>7 DEF RoutesOK, RouteEarned, Mistakable

\* The opening failed: nothing has been found.
LEMMA OpenFailsOwn ==
  ASSUME CommandsInv, NEW j \in Jobs, OwnOK(j), at[j] \in Opening, UNCHANGED <<request, routes>>,
         at'[j] = "report", found'[j] = found[j],
         \A u \in DOMAIN Resources : answered[j][u] \subseteq answered'[j][u]
  PROVE  OwnOK(j)'
<1>1. found[j] = NothingFound /\ at[j] # "idle"
  BY DEF CommandsInv, PlacesOK, Opening
<1>2. RoutesOK(j)'
  BY <1>1, RoutesStay DEF OwnOK
<1>3. LogOK(j)' /\ BaseOK(j)' /\ BrowserOK(j)'
  BY <1>1 DEF LogOK, BaseOK, BrowserOK, NothingFound, Opening, Looking, OneSteps
<1> QED BY <1>2, <1>3 DEF OwnOK

\* Loading a page keeps the log truthful.
LEMMA LogStays ==
  ASSUME NEW j \in Jobs, StaysTruthful(j), UNCHANGED request,
         Truthful(signals[Process(j)], answered[j])
  PROVE  LogOK(j)'
<1>1. Process(j)' = Process(j)
  BY DEF Process
<1> QED BY <1>1 DEF LogOK, StaysTruthful, Truthful

LEMMA LoginOwn ==
  ASSUME CommandsInv, NEW j \in Jobs, OwnOK(j), Login(j)
  PROVE  OwnOK(j)'
<1>1. /\ UNCHANGED <<request, browserOf, alive, routes>>
      /\ at[j] = "login" /\ found[j] = NothingFound /\ request[j].login = "form"
      /\ at' = [at EXCEPT ![j] = "goto"] \/ at' = [at EXCEPT ![j] = "report"]
      /\ UNCHANGED found
  BY DEF Login, OpenFails, Go, CommandsInv, PlacesOK, Opening, OwnOK, BaseOK
<1>2. LoginUrl \in DOMAIN Resources
  BY CommandsAssumption
<1>3. \/ StaysTruthful(j)
      \/ UNCHANGED <<signals, answered>>
  <2>1. CASE UNCHANGED <<signals, answered>>
    BY <2>1
  <2>2. CASE \E code \in {200, 500} : LoadPage(j, <<>>, LoginUrl, code)
    BY <1>2, <2>2, LoadingIsTrue DEF CommandsInv
  <2> QED BY <2>1, <2>2 DEF Login
<1>4. \A u \in DOMAIN Resources : answered[j][u] \subseteq answered'[j][u]
  BY <1>3 DEF StaysTruthful
<1>5. CASE at' = [at EXCEPT ![j] = "report"]
  <2>1. at'[j] = "report"
    BY <1>5 DEF CommandsInv, CommandShapes
  <2> QED BY <1>1, <1>4, <2>1, OpenFailsOwn DEF Opening
<1>6. CASE at' = [at EXCEPT ![j] = "goto"]
  <2>1. at'[j] = "goto"
    BY <1>6 DEF CommandsInv, CommandShapes
  <2>2. LogOK(j)'
    <3>1. Truthful(signals[Process(j)], answered[j])
      BY <1>1 DEF OwnOK, LogOK
    <3>2. CASE StaysTruthful(j)
      BY <1>1, <3>1, <3>2, LogStays
    <3>3. CASE UNCHANGED <<signals, answered>>
      BY <1>1, <3>1, <3>3 DEF LogOK, Truthful, Process
    <3> QED BY <1>3, <3>2, <3>3
  <2>3. BaseOK(j)'
    BY <1>1, <2>1 DEF BaseOK, NothingFound
  <2>4. RoutesOK(j)'
    BY <1>1, <1>4, RoutesStay DEF OwnOK
  <2>5. BrowserOK(j)'
    BY <1>1, <2>1 DEF OwnOK, BrowserOK, Process, Opening, Looking, Telling, OneSteps
  <2> QED BY <2>2, <2>3, <2>4, <2>5 DEF OwnOK
<1> QED BY <1>1, <1>5, <1>6

\* The answer of the base URL is the first signal that may be of it.
LEMMA GoToBaseOwn ==
  ASSUME CommandsInv, NEW j \in Jobs, OwnOK(j), GoToBase(j)
  PROVE  OwnOK(j)'
<1>1. /\ UNCHANGED <<request, browserOf, alive, routes>>
      /\ at[j] = "goto" /\ found[j] = NothingFound
  BY DEF GoToBase, CommandsInv, PlacesOK, Opening
<1>2. BaseUrl \in DOMAIN Resources /\ Process(j)' = Process(j)
  BY <1>1, CommandsAssumption DEF Process
<1>3. CASE OpenFails(j) /\ UNCHANGED <<signals, answered>>
  <2>1. at'[j] = "report" /\ found' = found
    BY <1>3 DEF OpenFails, Go, CommandsInv, CommandShapes
  <2> QED BY <1>1, <1>3, <2>1, OpenFailsOwn DEF Opening
<1>4. CASE ~(OpenFails(j) /\ UNCHANGED <<signals, answered>>)
  <2>1. /\ \E code \in {200, 500}, failed \in {<<>>, <<Answer(BaseUrl, 0)>>} :
             LoadPage(j, failed, BaseUrl, code)
        /\ Go(j, "smoke")
        /\ found' = [found EXCEPT ![j].opened = TRUE]
    BY <1>4 DEF GoToBase
  <2>2. PICK code \in {200, 500} : \E failed : /\ failed = <<>> \/ failed = <<Answer(BaseUrl, 0)>>
                                              /\ LoadPage(j, failed, BaseUrl, code)
    BY <2>1
  <2>3. PICK failed : /\ failed = <<>> \/ failed = <<Answer(BaseUrl, 0)>>
                      /\ LoadPage(j, failed, BaseUrl, code)
    BY <2>2
  <2>4. /\ StaysTruthful(j)
        /\ code \in answered'[j][BaseUrl]
        /\ ~Crowded(BaseUrl) /\ signals[Process(j)] = <<>> /\ Succeeded(signals'[Process(j)], BaseUrl)
             => code = 200
    BY <1>2, <2>3, LoadingIsTrue DEF CommandsInv
  <2>5. at'[j] = "smoke" /\ found'[j].opened /\ ~found'[j].blocked /\ found'[j].blocked = found[j].blocked
    BY <1>1, <2>1 DEF Go, CommandsInv, CommandShapes, NothingFound, Finding
  <2>6. \A u \in DOMAIN Resources : answered[j][u] \subseteq answered'[j][u]
    BY <2>4 DEF StaysTruthful
  <2>7. LogOK(j)'
    BY <1>1, <2>4, LogStays DEF OwnOK, LogOK
  <2>8. BaseOK(j)'
    <3>1. Succeeded(signals'[Process(j)], BaseUrl) =>
            request[j].login = "form" \/ Crowded(BaseUrl) \/ 200 \in answered'[j][BaseUrl]
      BY <1>1, <2>4 DEF OwnOK, BaseOK
    <3>2. request'[j] = request[j]
      BY <1>1
    <3>3. Succeeded(signals[Process(j)], BaseUrl)' => Succeeded(signals'[Process(j)], BaseUrl)
      BY <1>2 DEF Succeeded
    <3> QED BY <2>5, <3>1, <3>2, <3>3 DEF BaseOK, BaseEarned, Crowded
  <2>9. RoutesOK(j)'
    BY <1>1, <2>5, <2>6, RoutesStay DEF OwnOK
  <2>10. BrowserOK(j)'
    BY <1>1, <1>2, <2>5 DEF OwnOK, BrowserOK, Opening, Looking, Telling, OneSteps
  <2> QED BY <2>7, <2>8, <2>9, <2>10 DEF OwnOK
<1> QED BY <1>3, <1>4

\* What the smoke check accepts was answered to this job.
LEMMA SmokeOwn ==
  ASSUME CommandsInv, NEW j \in Jobs, OwnOK(j), VerifyMinimalSmoke(j)
  PROVE  OwnOK(j)'
<1>1. /\ UNCHANGED <<request, harness, routes, past>>
      /\ at[j] = "smoke" /\ at' = [at EXCEPT ![j] = Next0(j)]
  BY DEF VerifyMinimalSmoke, Go
<1>2. UNCHANGED <<signals, browserOf, alive, answered>> /\ Process(j)' = Process(j)
  BY <1>1 DEF harness, past, Process
<1>3. at'[j] \in {"visit", "plan"}
  BY <1>1 DEF Next0, CommandsInv, CommandShapes
<1>4. PICK shown \in BOOLEAN :
        found' = [found EXCEPT ![j].smoke =
                    pageOf[Process(j)] # NoJob /\ Accessible(signals[Process(j)], BaseUrl, shown)]
  BY DEF VerifyMinimalSmoke
<1>5. PICK value : /\ found' = [found EXCEPT ![j].smoke = value]
                   /\ value => Succeeded(signals[Process(j)], BaseUrl)
  BY <1>4 DEF Accessible, Succeeded
<1>6. /\ found'[j].smoke = value
      /\ found'[j].blocked = found[j].blocked /\ found'[j].opened = found[j].opened
  BY <1>5 DEF CommandsInv, CommandShapes, Finding
<1>7. LogOK(j)'
  BY <1>1, <1>2, <1>3 DEF OwnOK, LogOK, Truthful
<1>8. BaseOK(j)'
  <2>1. value => BaseEarned(j)
    BY <1>1, <1>5 DEF OwnOK, BaseOK
  <2>2. BaseEarned(j) => BaseEarned(j)'
    BY <1>1, <1>2 DEF BaseEarned
  <2> QED BY <1>3, <1>6, <2>1, <2>2 DEF BaseOK
<1>9. RoutesOK(j)'
  BY <1>1, <1>2, <1>6, RoutesStay DEF OwnOK
<1>10. BrowserOK(j)'
  BY <1>1, <1>2, <1>3 DEF OwnOK, BrowserOK, Opening, Looking, Telling, OneSteps
<1> QED BY <1>7, <1>8, <1>9, <1>10 DEF OwnOK

LEMMA VisitOwn ==
  ASSUME CommandsInv, NEW j \in Jobs, OwnOK(j), VisitRoute(j)
  PROVE  OwnOK(j)'
<1>1. /\ UNCHANGED <<request, browserOf, alive, found, routes>>
      /\ at[j] = "visit" /\ at' = [at EXCEPT ![j] = "check"]
  BY DEF VisitRoute, Go
<1>2. at'[j] = "check" /\ Process(j)' = Process(j)
  BY <1>1 DEF CommandsInv, CommandShapes, Process
<1>3. Head(routes[j]) \in DOMAIN Resources
  <2>1. routes[j] \in Seq(DOMAIN Resources) /\ routes[j] # <<>>
    BY <1>1 DEF CommandsInv, CommandShapes, PlacesOK
  <2> QED BY <2>1, TailOf
<1>4. StaysTruthful(j) \/ UNCHANGED <<signals, answered>>
  <2>1. CASE \E code \in {200, 500} : LoadPage(j, <<>>, Head(routes[j]), code)
    BY <1>3, <2>1, LoadingIsTrue DEF CommandsInv
  <2>2. CASE UNCHANGED answered /\ Record(j, <<Answer(Head(routes[j]), 0)>>)
    BY <1>3, <2>2, RefusalIsTrue DEF CommandsInv
  <2>3. CASE UNCHANGED <<answered, signals>>
    BY <2>3
  <2> QED BY <2>1, <2>2, <2>3 DEF VisitRoute
<1>5. \A u \in DOMAIN Resources : answered[j][u] \subseteq answered'[j][u]
  BY <1>4 DEF StaysTruthful
<1>6. LogOK(j)'
  <2>1. Truthful(signals[Process(j)], answered[j])
    BY <1>1 DEF OwnOK, LogOK
  <2>2. CASE StaysTruthful(j)
    BY <1>1, <2>1, <2>2, LogStays
  <2>3. CASE UNCHANGED <<signals, answered>>
    BY <1>2, <2>1, <2>3 DEF LogOK, Truthful
  <2> QED BY <1>4, <2>2, <2>3
<1>7. BaseOK(j)'
  <2>1. BaseEarned(j) => BaseEarned(j)'
    BY <1>1, <1>5, EarnedStays
  <2> QED BY <1>1, <1>2, <2>1 DEF OwnOK, BaseOK
<1>8. RoutesOK(j)'
  BY <1>1, <1>5, RoutesStay DEF OwnOK
<1>9. BrowserOK(j)'
  BY <1>1, <1>2 DEF OwnOK, BrowserOK, Opening, Looking, Telling, OneSteps
<1> QED BY <1>6, <1>7, <1>8, <1>9 DEF OwnOK

\* A success in a truthful buffer for url was answered to this job, or url may be mistaken.
LEMMA SuccessIsEarned ==
  ASSUME CommandShapes, NEW j \in Jobs, NEW url \in DOMAIN Resources,
         Truthful(signals[Process(j)], answered[j]), Succeeded(signals[Process(j)], url)
  PROVE  RouteEarned(j, url)
<1> DEFINE log == signals[Process(j)]
<1>1. PICK i \in DOMAIN log : <<log[i].url, url>> \in StartsWith /\ log[i].status = 200
  BY DEF Succeeded
<1>2. log[i].url \in Loaded \/ 200 \in answered[j][log[i].url]
  BY <1>1 DEF Truthful
<1>3. CASE log[i].url \in Loaded
  <2>1. PICK u \in DOMAIN Resources : \E more \in Resources[u] : log[i].url \in ToSet(more)
    BY <1>3 DEF Loaded
  <2>2. PICK more \in Resources[u] : log[i].url \in ToSet(more)
    BY <2>1
  <2>3. \E n \in DOMAIN more : more[n] = log[i].url
    BY <2>2 DEF ToSet
  <2> QED BY <1>1, <2>2, <2>3 DEF RouteEarned, Mistakable
<1>4. CASE log[i].url # url
  <2>1. LET p == <<log[i].url, url>> IN p \in StartsWith /\ p[2] = url /\ p[1] # url
    BY <1>1, <1>4
  <2> QED BY <2>1 DEF RouteEarned, Mistakable
<1> QED BY <1>2, <1>3, <1>4 DEF RouteEarned

\* One more route has been checked.
LEMMA CheckOwn ==
  ASSUME CommandsInv, NEW j \in Jobs, OwnOK(j), CheckRoute(j)
  PROVE  OwnOK(j)'
<1>1. /\ UNCHANGED <<request, harness, past>>
      /\ at[j] = "check" /\ at' = [at EXCEPT ![j] = IF Len(routes[j]) = 1 THEN "plan" ELSE "visit"]
      /\ routes' = [routes EXCEPT ![j] = Tail(@)]
  BY DEF CheckRoute, Go
<1>2. UNCHANGED <<signals, browserOf, alive, answered>> /\ Process(j)' = Process(j)
  BY <1>1 DEF harness, past, Process
<1>3. at'[j] \in {"visit", "plan"} /\ routes'[j] = Tail(routes[j])
  BY <1>1 DEF CommandsInv, CommandShapes
<1>4. PICK shown \in BOOLEAN :
        found' = [found EXCEPT ![j].blocked =
                    @ \/ pageOf[Process(j)] = NoJob
                      \/ ~Accessible(signals[Process(j)], Head(routes[j]), shown)]
  BY DEF CheckRoute
<1>5. PICK value : /\ found' = [found EXCEPT ![j].blocked = value]
                   /\ ~value => ~found[j].blocked /\ Succeeded(signals[Process(j)], Head(routes[j]))
  <2>1. found' = [found EXCEPT ![j].blocked =
                    found[j].blocked \/ pageOf[Process(j)] = NoJob
                      \/ ~Accessible(signals[Process(j)], Head(routes[j]), shown)]
    BY <1>4 DEF CommandsInv, CommandShapes
  <2> QED BY <2>1 DEF Accessible, Succeeded
<1>6. /\ found'[j].blocked = value
      /\ found'[j].smoke = found[j].smoke /\ found'[j].opened = found[j].opened
  BY <1>5 DEF CommandsInv, CommandShapes, Finding
<1>7. LogOK(j)'
  BY <1>1, <1>2, <1>3 DEF OwnOK, LogOK, Truthful
<1>8. BaseOK(j)'
  <2>1. BaseEarned(j) => BaseEarned(j)'
    BY <1>1, <1>2 DEF BaseEarned
  <2> QED BY <1>1, <1>3, <1>6, <2>1 DEF OwnOK, BaseOK
<1>9. RoutesOK(j)'
  <2> DEFINE all == request[j].routes
             checked == Len(all) - Len(routes[j])
             rest == routes[j]
             here == Head(rest)
  <2>1. /\ checked \in 0..Len(all)
        /\ \A m \in DOMAIN rest : rest[m] = all[checked + m]
        /\ ~found[j].blocked => \A i \in 1..checked : RouteEarned(j, all[i])
    BY <1>1 DEF OwnOK, RoutesOK
  <2>2. rest \in Seq(DOMAIN Resources) /\ rest # <<>>
    BY <1>1 DEF CommandsInv, CommandShapes, PlacesOK
  <2>3. all \in Seq(DOMAIN Resources)
    BY CommandsAssumption DEF CommandsInv, CommandShapes
  <2>4. /\ Len(Tail(rest)) = Len(rest) - 1 /\ Len(rest) \in Nat \ {0}
        /\ here = rest[1] /\ here \in DOMAIN Resources
        /\ \A m \in DOMAIN Tail(rest) : Tail(rest)[m] = rest[m + 1] /\ m + 1 \in DOMAIN rest /\ m \in Nat
    <3>1. \A m \in DOMAIN Tail(rest) : m \in Nat
      BY <2>2, TailOf
    <3> QED BY <2>2, <3>1, TailOf
  <2>5. ~value => RouteEarned(j, here)
    <3>1. Truthful(signals[Process(j)], answered[j])
      BY <1>1 DEF OwnOK, LogOK
    <3> QED BY <1>5, <2>4, <3>1, SuccessIsEarned DEF CommandsInv
  <2>6. request'[j] = request[j] /\ \A u : RouteEarned(j, u) => RouteEarned(j, u)'
    BY <1>1, <1>2 DEF RouteEarned, Mistakable
  <2>7. 1 \in DOMAIN rest /\ Len(all) \in Nat
    BY <2>2, <2>3, <2>4
  <2> HIDE DEF all, rest, here
  <2>8. /\ Len(all) \in Nat /\ Len(rest) \in Nat \ {0} /\ Len(Tail(rest)) = Len(rest) - 1
        /\ checked = Len(all) - Len(rest) /\ checked \in Nat
    <3>1. checked \in 0..Len(all)
      BY <2>1
    <3>2. checked \in Nat
      BY <2>7, <3>1
    <3> QED BY <2>4, <2>7, <3>2 DEF rest
  <2> HIDE DEF checked
  <2>9. Len(all) - Len(Tail(rest)) = checked + 1 /\ checked + 1 \in 0..Len(all)
    BY <2>8
  <2>10. \A m \in DOMAIN Tail(rest) : Tail(rest)[m] = all[checked + 1 + m]
    <3> SUFFICES ASSUME NEW m \in DOMAIN Tail(rest)
                 PROVE  Tail(rest)[m] = all[checked + 1 + m]
      OBVIOUS
    <3>1. Tail(rest)[m] = all[checked + (m + 1)] /\ m \in Nat
      BY <2>1, <2>4
    <3>2. checked + (m + 1) = checked + 1 + m
      BY <2>8, <3>1
    <3> QED BY <3>1, <3>2
  <2>11. ~value => \A i \in 1..checked + 1 : RouteEarned(j, all[i])
    <3>1. here = all[checked + 1]
      BY <2>1, <2>4, <2>7
    <3>2. ~value => \A i \in 1..checked : RouteEarned(j, all[i])
      BY <1>5, <2>1
    <3>3. \A i \in 1..checked + 1 : i \in 1..checked \/ i = checked + 1
      BY <2>8
    <3> QED BY <2>5, <3>1, <3>2, <3>3
  <2>12. routes'[j] = Tail(rest) /\ request'[j].routes = all
    BY <1>3, <2>6 DEF all, rest
  <2>13. ~value => \A i \in 1..checked + 1 : Mistakable(all[i]) \/ 200 \in answered'[j][all[i]]
    BY <1>2, <2>11 DEF RouteEarned
  <2>14. Len(request'[j].routes) - Len(routes'[j]) = checked + 1
    BY <2>9, <2>12
  <2> QED BY <1>6, <2>9, <2>10, <2>12, <2>13, <2>14 DEF RoutesOK, RouteEarned, Mistakable
<1>10. BrowserOK(j)'
  BY <1>1, <1>2, <1>3, <1>6 DEF OwnOK, BrowserOK, Opening, Looking, Telling, OneSteps
<1> QED BY <1>7, <1>8, <1>9, <1>10 DEF OwnOK

LEMMA PlanOwn ==
  ASSUME CommandsInv, NEW j \in Jobs, OwnOK(j), RunSmokePlan(j)
  PROVE  OwnOK(j)'
<1>1. /\ UNCHANGED <<request, harness, routes, past>>
      /\ at[j] = "plan" /\ at' = [at EXCEPT ![j] = "close"]
  BY DEF RunSmokePlan, Go
<1>2. UNCHANGED <<signals, browserOf, alive, answered>> /\ Process(j)' = Process(j)
  BY <1>1 DEF harness, past, Process
<1>3. at'[j] = "close"
  BY <1>1 DEF CommandsInv, CommandShapes
<1>4. /\ found'[j].smoke = found[j].smoke /\ found'[j].blocked = found[j].blocked
      /\ found'[j].opened = found[j].opened
  <2>1. \E value : found' = [found EXCEPT ![j].plan = value]
    BY DEF RunSmokePlan
  <2> QED BY <2>1 DEF CommandsInv, CommandShapes, Finding
<1>5. LogOK(j)'
  BY <1>3 DEF LogOK
<1>6. BaseOK(j)'
  <2>1. BaseEarned(j) => BaseEarned(j)'
    BY <1>1, <1>2 DEF BaseEarned
  <2> QED BY <1>1, <1>3, <1>4, <2>1 DEF OwnOK, BaseOK
<1>7. RoutesOK(j)'
  BY <1>1, <1>2, <1>4, RoutesStay DEF OwnOK
<1>8. BrowserOK(j)'
  BY <1>1, <1>2, <1>3, <1>4 DEF OwnOK, BrowserOK, Opening, Looking, Telling, OneSteps
<1> QED BY <1>5, <1>6, <1>7, <1>8 DEF OwnOK

\* The browser that is closed is the job's own.
LEMMA CloseOwn ==
  ASSUME CommandsInv, NEW j \in Jobs, OwnOK(j), CloseBrowser(j)
  PROVE  OwnOK(j)'
<1>1. /\ UNCHANGED <<request, found, routes, answered>>
      /\ at[j] = "close" /\ at' = [at EXCEPT ![j] = "report"]
      /\ alive' = alive \ {browserOf[Process(j)]}
  BY DEF CloseBrowser, Go, past
<1>2. at'[j] = "report"
  BY <1>1 DEF CommandsInv, CommandShapes
<1>3. LogOK(j)' /\ BaseOK(j)' /\ RoutesOK(j)'
  BY <1>1, <1>2, PlainStep
<1>4. j \in alive => browserOf[Process(j)] = j
  BY <1>1 DEF OwnOK, BrowserOK, Looking
<1>5. j \notin alive'
  BY <1>1, <1>4
<1> QED BY <1>3, <1>5 DEF OwnOK, BrowserOK

LEMMA TellOwn ==
  ASSUME CommandsInv, NEW j \in Jobs, OwnOK(j),
         WriteReport(j) \/ WriteReadiness(j) \/ AppendHistory(j) \/ WriteFails(j)
  PROVE  OwnOK(j)'
<1>1. /\ UNCHANGED <<request, found, routes, answered, alive>>
      /\ at[j] \in Telling /\ at'[j] \in Telling \cup {"ended"}
  BY DEF WriteReport, WriteReadiness, AppendHistory, WriteFails, Go, End, Telling, harness, past,
         CommandsInv, CommandShapes
<1>2. LogOK(j)' /\ BaseOK(j)' /\ RoutesOK(j)'
  BY <1>1, PlainStep DEF Telling
<1>3. request[j].command = "onboard"
  BY <1>1 DEF CommandsInv, PlacesOK, Onboards
<1> QED BY <1>1, <1>2, <1>3 DEF OwnOK, BrowserOK, Telling, Opening, Looking, OneSteps

LEMMA CommandKeepsAlone ==
  ASSUME CommandsInv, NEW j \in Jobs, Command(j) \/ WriteFails(j)
  PROVE  AloneOK'
<1>1. ActsAlone(j)
  BY CommandActs DEF CommandsInv
<1>2. ASSUME NEW i \in Jobs \ {j}, ~Disturbed(i)' PROVE OwnOK(i)'
  BY <1>1, <1>2, OthersKeepTheirOwn
<1>3. ASSUME ~Disturbed(j)' PROVE OwnOK(j)'
  <2>1. ~Disturbed(j)
    BY <1>1, <1>3 DEF Disturbed, Process, ActsAlone
  <2>2. OwnOK(j)
    BY <2>1 DEF CommandsInv, AloneOK
  <2> QED BY <2>2, OneStepOwn, CaptureOwn, LaunchOwn, ContextOwn, LoginOwn, GoToBaseOwn, SmokeOwn, VisitOwn,
             CheckOwn, PlanOwn, CloseOwn, TellOwn DEF Command, Onboard
<1>4. \A i \in Jobs : ~Disturbed(i)' => OwnOK(i)'
  BY <1>2, <1>3
<1> QED BY <1>4 DEF AloneOK

LEMMA CommandStep ==
  ASSUME CommandsInv, NEW j \in Jobs, Command(j) \/ WriteFails(j)
  PROVE  CommandsInv'
<1> QED BY CommandActs, CommandPlaces, CommandMet, CommandKeepsAlone DEF CommandsInv

---------------------------------------------------------------------------
(* A job starts, and a person presses a key.                                *)

\* Where a job is once it has started.
Started == {"load", "run", "pipeline", "read", "unknown"}

LEMMA StartIs ==
  ASSUME CommandsInv, NEW j \in Jobs, Start(j)
  PROVE  /\ at[j] = "idle" /\ at'[j] \in Started
         /\ at'[j] = "load" => request'[j].command \in {"onboard", "capture-auth"}
         /\ request'[j] \in Requests /\ routes'[j] = request'[j].routes
         /\ CommandShapes'
         /\ \A i \in Jobs \ {j} : at'[i] = at[i] /\ request'[i] = request[i] /\ routes'[i] = routes[i]
         /\ met' = met \cup {{j, k} : k \in {i \in Jobs : Active(i)}}
         /\ UNCHANGED <<harness, found, written, reply, faults, answered>>
<1>1. PICK r \in Requests :
        /\ request' = [request EXCEPT ![j] = r]
        /\ routes' = [routes EXCEPT ![j] = r.routes]
        /\ Go(j, CASE r.command \in {"onboard", "capture-auth"} -> "load" [] OTHER -> r.command)
  BY DEF Start
<1>2. /\ r.command \in {"onboard", "capture-auth", "run", "pipeline", "read", "unknown"}
      /\ r.routes \in Seq(DOMAIN Resources)
  BY CommandsAssumption
<1>3. PICK where \in Started : /\ at' = [at EXCEPT ![j] = where]
                               /\ where = "load" => r.command \in {"onboard", "capture-auth"}
  BY <1>1, <1>2 DEF Go, Started
<1>4. /\ at' \in [Jobs -> {"idle", "load", "ended"} \cup Opening \cup Looking \cup Telling \cup Capturing
                          \cup OneSteps]
      /\ at'[j] = where /\ \A i \in Jobs \ {j} : at'[i] = at[i]
  BY <1>3 DEF CommandsInv, CommandShapes, Started, OneSteps
<1>5. /\ request' \in [Jobs -> Requests] /\ request'[j] = r
      /\ \A i \in Jobs \ {j} : request'[i] = request[i]
  BY <1>1 DEF CommandsInv, CommandShapes
<1>6. /\ routes' \in [Jobs -> Seq(DOMAIN Resources)] /\ routes'[j] = r.routes
      /\ \A i \in Jobs \ {j} : routes'[i] = routes[i]
  BY <1>1, <1>2 DEF CommandsInv, CommandShapes
<1>7. /\ at[j] = "idle" /\ met' = met \cup {{j, k} : k \in {i \in Jobs : Active(i)}}
      /\ UNCHANGED <<harness, found, written, reply, faults, answered>>
  BY DEF Start
<1>8. CommandShapes'
  BY <1>4, <1>5, <1>6, <1>7 DEF CommandsInv, CommandShapes, harness, written
<1> QED BY <1>3, <1>4, <1>5, <1>6, <1>7, <1>8

LEMMA StartPlaces ==
  ASSUME CommandsInv, NEW j \in Jobs, Start(j)
  PROVE  PlacesOK'
<1>1. \A i \in Jobs : PlaceOK(i)
  BY DEF CommandsInv, PlacesOK, PlaceOK
<1>2. PlaceOK(j)'
  <2>1. found'[j] = NothingFound
    BY <1>1, StartIs DEF PlaceOK
  <2> QED BY <2>1, StartIs DEF PlaceOK, NothingFound, Started, Opening, Looking, Telling, Capturing
<1>3. ASSUME NEW i \in Jobs \ {j} PROVE PlaceOK(i)'
  <2>1. at'[i] = at[i] /\ found'[i] = found[i] /\ routes'[i] = routes[i] /\ request'[i] = request[i]
    BY StartIs
  <2> QED BY <1>1, <2>1 DEF PlaceOK, Onboards
<1>4. \A i \in Jobs : PlaceOK(i)'
  BY <1>2, <1>3
<1> QED BY <1>4 DEF PlacesOK, PlaceOK

LEMMA StartMet ==
  ASSUME CommandsInv, NEW j \in Jobs, Start(j)
  PROVE  MetOK'
<1>1. /\ at[j] = "idle" /\ at'[j] # "idle"
      /\ \A i \in Jobs \ {j} : at'[i] = at[i]
      /\ met' = met \cup {{j, k} : k \in {i \in Jobs : Active(i)}}
  BY StartIs DEF Started
<1>2. /\ \A i, k \in Jobs : i # k /\ Active(i) /\ Active(k) => {i, k} \in met
      /\ \A i, k \in Jobs : {i, k} \in met => at[i] # "idle" /\ at[k] # "idle"
  BY DEF CommandsInv, MetOK
<1>3. ASSUME NEW i \in Jobs, NEW k \in Jobs, i # k, Active(i)', Active(k)' PROVE {i, k} \in met'
  <2>1. CASE i = j
    <3>1. Active(k)
      BY <1>1, <1>3, <2>1 DEF Active
    <3> QED BY <1>1, <2>1, <3>1
  <2>2. CASE k = j
    <3>1. Active(i) /\ {i, k} = {k, i}
      BY <1>1, <1>3, <2>2 DEF Active
    <3> QED BY <1>1, <2>2, <3>1
  <2>3. CASE i # j /\ k # j
    <3>1. Active(i) /\ Active(k)
      BY <1>1, <1>3, <2>3 DEF Active
    <3> QED BY <1>1, <1>2, <1>3, <3>1
  <2> QED BY <2>1, <2>2, <2>3
<1>4. ASSUME NEW i \in Jobs, NEW k \in Jobs, {i, k} \in met' PROVE at'[i] # "idle" /\ at'[k] # "idle"
  <2>1. CASE {i, k} \in met
    BY <1>1, <1>2, <2>1
  <2>2. CASE {i, k} \notin met
    <3>1. PICK a \in Jobs : Active(a) /\ {i, k} = {j, a}
      BY <1>1, <1>4, <2>2
    <3>2. i \in {j, a} /\ k \in {j, a} /\ at[a] # "idle"
      BY <3>1 DEF Active
    <3> QED BY <1>1, <3>2
  <2> QED BY <2>1, <2>2
<1> QED BY <1>3, <1>4 DEF MetOK

LEMMA StartAlone ==
  ASSUME CommandsInv, NEW j \in Jobs, Start(j)
  PROVE  AloneOK'
<1>1. ~Disturbed(j)
  BY StartIs DEF Disturbed, CommandsInv, MetOK
<1>2. OwnOK(j)'
  <2>1. found'[j] = NothingFound /\ j \notin alive'
    BY <1>1, StartIs DEF CommandsInv, PlacesOK, AloneOK, OwnOK, BrowserOK, harness
  <2>2. at'[j] \in Started
    BY StartIs
  <2>3. LogOK(j)' /\ BaseOK(j)' /\ BrowserOK(j)'
    BY <2>1, <2>2 DEF LogOK, BaseOK, BrowserOK, NothingFound, Started
  <2>4. RoutesOK(j)'
    <3>1. routes'[j] = request'[j].routes /\ request'[j].routes \in Seq(DOMAIN Resources)
      BY StartIs, CommandsAssumption
    <3> DEFINE all == request'[j].routes
    <3>2. Len(all) \in Nat /\ Len(routes'[j]) = Len(all)
      BY <3>1
    <3>3. \A m \in DOMAIN all : m \in Nat
      BY <3>1
    <3>4. all = routes'[j]
      BY <3>1
    <3> HIDE DEF all
    <3>5. /\ Len(all) - Len(routes'[j]) = 0 /\ 0 \in 0..Len(all)
          /\ \A i \in 1..0 : FALSE
          /\ \A m \in DOMAIN all : 0 + m = m
      BY <3>2, <3>3
    <3> QED BY <3>4, <3>5 DEF RoutesOK, all
  <2> QED BY <2>3, <2>4 DEF OwnOK
<1>3. ASSUME NEW i \in Jobs \ {j}, ~Disturbed(i)' PROVE OwnOK(i)'
  <2>1. /\ UNCHANGED <<signals, browserOf, alive, found, answered>>
        /\ at'[i] = at[i] /\ request'[i] = request[i] /\ routes'[i] = routes[i]
    BY StartIs DEF harness
  <2>2. ~Disturbed(i)
    <3>1. SUFFICES ASSUME NEW k \in Jobs \ {i}, {i, k} \in met, Process(k) = Process(i)
                   PROVE  FALSE
      BY DEF Disturbed
    <3>2. k # j
      BY <3>1, StartIs DEF CommandsInv, MetOK
    <3>3. request'[k] = request[k] /\ {i, k} \in met'
      BY <3>1, <3>2, StartIs
    <3> QED BY <1>3, <2>1, <3>1, <3>3 DEF Disturbed, Process
  <2>3. OwnOK(i)
    BY <2>2 DEF CommandsInv, AloneOK
  <2> QED BY <2>1, <2>3, OwnKept
<1>4. \A i \in Jobs : ~Disturbed(i)' => OwnOK(i)'
  BY <1>2, <1>3
<1> QED BY <1>4 DEF AloneOK

\* Those who wait for the key go on, and nothing else happens.
LEMMA PressEnterStep ==
  ASSUME CommandsInv, NEW p \in Processes, PressEnter(p)
  PROVE  CommandsInv'
<1>1. /\ UNCHANGED <<request, harness, found, routes, written, reply, faults, past>>
      /\ \A i \in Jobs : \/ at'[i] = at[i]
                         \/ at[i] \in {"person", "finish"} /\ at'[i] \in {"url", "capture"}
      /\ DOMAIN at' = Jobs /\ at' = [i \in Jobs |-> at'[i]]
  BY DEF PressEnter
<1>2. UNCHANGED <<browserOf, pageOf, signals, alive, readiness, lines, answered, met>>
  BY <1>1 DEF harness, written, past
<1>3. CommandShapes'
  <2>1. at' \in [Jobs -> {"idle", "load", "ended"} \cup Opening \cup Looking \cup Telling \cup Capturing
                         \cup OneSteps]
    <3>1. \A i \in Jobs : at'[i] \in {"idle", "load", "ended"} \cup Opening \cup Looking \cup Telling
                                     \cup Capturing \cup OneSteps
      BY <1>1 DEF CommandsInv, CommandShapes, Capturing
    <3> QED BY <1>1, <3>1
  <2> QED BY <1>1, <1>2, <2>1 DEF CommandsInv, CommandShapes
<1>4. PlacesOK'
  <2>1. \A i \in Jobs : PlaceOK(i)
    BY DEF CommandsInv, PlacesOK, PlaceOK
  <2>2. ASSUME NEW i \in Jobs PROVE PlaceOK(i)'
    <3>1. CASE at'[i] = at[i]
      BY <1>1, <2>1, <3>1 DEF PlaceOK, Onboards
    <3>2. CASE at[i] \in {"person", "finish"} /\ at'[i] \in {"url", "capture"}
      <4>1. /\ request[i].command = "capture-auth"
            /\ found[i].plan # "none" => routes[i] = <<>>
        BY <2>1, <3>2 DEF PlaceOK, Capturing
      <4> QED BY <1>1, <3>2, <4>1 DEF PlaceOK, Opening, Looking, Telling
    <3> QED BY <1>1, <3>1, <3>2
  <2>3. \A i \in Jobs : PlaceOK(i)'
    BY <2>2
  <2> QED BY <2>3 DEF PlacesOK, PlaceOK
<1>5. MetOK'
  <2>1. \A i \in Jobs : Active(i)' => Active(i)
    BY <1>1 DEF Active
  <2>2. \A i \in Jobs : at[i] # "idle" => at'[i] # "idle"
    BY <1>1
  <2> QED BY <1>2, <2>1, <2>2 DEF CommandsInv, MetOK
<1>6. AloneOK'
  <2>1. ASSUME NEW i \in Jobs, ~Disturbed(i)' PROVE OwnOK(i)'
    <3>1. OwnOK(i)
      BY <1>1, <1>2, <2>1 DEF Disturbed, Process, CommandsInv, AloneOK
    <3>2. CASE at'[i] = at[i]
      BY <1>1, <1>2, <3>1, <3>2, OwnKept
    <3>3. CASE at[i] \in {"person", "finish"} /\ at'[i] \in {"url", "capture"}
      <4>1. LogOK(i)' /\ BaseOK(i)' /\ RoutesOK(i)'
        BY <1>1, <1>2, <3>1, <3>3, PlainStep
      <4>2. BrowserOK(i)'
        BY <3>3 DEF BrowserOK, Opening, Looking, Telling, OneSteps
      <4> QED BY <4>1, <4>2 DEF OwnOK
    <3> QED BY <1>1, <3>2, <3>3
  <2> QED BY <2>1 DEF AloneOK
<1> QED BY <1>3, <1>4, <1>5, <1>6 DEF CommandsInv

---------------------------------------------------------------------------
(* What an onboarding tells: the file, the line of the history, the exit code. *)

\* The onboardings ran one after the other and every file could be written.
Orderly ==
  /\ faults = 0
  /\ \A j, k \in Jobs : Onboards(j) /\ Onboards(k) /\ {j, k} \in met => j = k

\* The last line, readiness.json and the exit code of their onboarding say the same.
SaysTheSame(last) ==
  /\ last.by \in Jobs /\ Ended(last.by) /\ last.by = readiness.by
  /\ last.status = ToRunHistoryStatus(readiness.value)
  /\ request[last.by].caller = "cli" => (reply[last.by].exit = "OK" <=> readiness.value = "READY")

\* Between the two files, readiness.json is ahead.
FilesOK ==
  Orderly =>
    /\ \A j \in Jobs : at[j] = "append" => readiness = [value |-> Evaluate(found[j]), by |-> j]
    /\ lines # <<>> /\ (\A j \in Jobs : at[j] # "append") => SaysTheSame(Last(lines))

\* At the end of an onboarding the plan has run or there was nothing to run it on.
LEMMA VerdictIsKnown ==
  ASSUME CommandsInv, NEW j \in Jobs, at[j] \in Telling
  PROVE  /\ Evaluate(found[j]) \in {"READY", "ONBOARDING_BLOCKED"}
         /\ Exit("onboard", Evaluate(found[j])) = "OK" <=> Evaluate(found[j]) = "READY"
<1>1. found[j].opened => found[j].plan # "none"
  BY DEF CommandsInv, PlacesOK
<1>2. Evaluate(found[j]) \in {"READY", "ONBOARDING_BLOCKED"}
  BY <1>1 DEF Evaluate
<1>3. Exit("onboard", "READY") = "OK"
  BY DEF Exit, Errors
<1>4. Exit("onboard", "ONBOARDING_BLOCKED") = "ONBOARDING_BLOCKED"
  BY DEF Exit, Errors
<1> QED BY <1>2, <1>3, <1>4

\* What was not orderly does not become so, and two onboardings never tell at once in good order.
LEMMA OrderlyBefore ==
  ASSUME CommandsInv, NEW j \in Jobs, Start(j) \/ Command(j) \/ WriteFails(j), Orderly'
  PROVE  /\ Orderly /\ ~WriteFails(j)
         /\ \A i, k \in Jobs : at[i] \in Telling /\ at[k] \in Telling => i = k
<1>1. met \subseteq met' /\ \A i \in Jobs : at[i] # "idle" => request'[i] = request[i]
  BY StartIs, CommandActs DEF ActsAlone, CommandsInv
<1>2. faults = 0 /\ ~WriteFails(j)
  <2>1. faults' = 0 /\ faults \in Nat
    BY DEF Orderly, CommandsInv, CommandShapes
  <2>2. faults' \in {faults, faults + 1} /\ (WriteFails(j) => faults' = faults + 1)
    BY DEF Start, Command, Onboard, OneStep, UnknownCommand, LoadConfig, ShowLogin, AwaitUrl, Capture,
           Launch, Context, Login, GoToBase, VerifyMinimalSmoke, VisitRoute, CheckRoute,
           RunSmokePlan, CloseBrowser, WriteReport, WriteReadiness, AppendHistory, WriteFails
  <2> QED BY <2>1, <2>2
<1>3. \A i, k \in Jobs : Onboards(i) /\ Onboards(k) /\ {i, k} \in met => i = k
  BY <1>1 DEF Orderly, Onboards, CommandsInv, MetOK
<1>4. ASSUME NEW i \in Jobs, NEW k \in Jobs, at[i] \in Telling, at[k] \in Telling PROVE i = k
  <2>1. Onboards(i) /\ Onboards(k) /\ Active(i) /\ Active(k)
    BY <1>4 DEF CommandsInv, PlacesOK, Telling, Active
  <2> QED BY <1>3, <2>1 DEF CommandsInv, MetOK
<1> QED BY <1>2, <1>3, <1>4 DEF Orderly

\* A step of another command, or of another part of the onboarding.
LEMMA FilesStay ==
  ASSUME FilesOK, Orderly, UNCHANGED <<readiness, lines>>,
         \A i \in Jobs : at'[i] = "append" <=> at[i] = "append",
         \A i \in Jobs : at[i] = "append" => found'[i] = found[i],
         \A i \in Jobs : Ended(i) => at'[i] = at[i] /\ request'[i] = request[i] /\ reply'[i] = reply[i]
  PROVE  FilesOK'
<1>1. \A i \in Jobs : at'[i] = "append" => readiness' = [value |-> Evaluate(found'[i]), by |-> i]
  BY DEF FilesOK
<1>2. ASSUME lines' # <<>>, \A i \in Jobs : at'[i] # "append" PROVE SaysTheSame(Last(lines))'
  <2>1. SaysTheSame(Last(lines))
    BY <1>2 DEF FilesOK
  <2>2. Last(lines)' = Last(lines)
    BY DEF Last
  <2> QED BY <2>1, <2>2 DEF SaysTheSame, Ended
<1> QED BY <1>1, <1>2 DEF FilesOK

LEMMA FilesStep ==
  ASSUME CommandsInv, FilesOK, NEW j \in Jobs, Start(j) \/ Command(j) \/ WriteFails(j)
  PROVE  FilesOK'
<1> SUFFICES ASSUME Orderly' PROVE FilesOK'
  BY DEF FilesOK
<1>1. Orderly /\ ~WriteFails(j) /\ \A i, k \in Jobs : at[i] \in Telling /\ at[k] \in Telling => i = k
  BY OrderlyBefore
<1>2. CASE Start(j)
  <2>1. /\ at[j] = "idle" /\ at'[j] # "append" /\ UNCHANGED <<readiness, lines, found, reply>>
        /\ \A i \in Jobs \ {j} : at'[i] = at[i] /\ request'[i] = request[i]
    BY <1>2, StartIs DEF Started, written
  <2> QED BY <1>1, <2>1, FilesStay DEF Ended
<1>3. CASE Command(j) /\ ~WriteReadiness(j) /\ ~AppendHistory(j)
  <2>1. ActsAlone(j)
    BY <1>3, CommandActs DEF CommandsInv
  <2>2. ASSUME Onboard(j) PROVE UNCHANGED <<readiness, lines>> /\ at[j] # "append" /\ at'[j] # "append"
    <3>1. UNCHANGED <<readiness, lines>> /\ at[j] # "append"
      BY <1>3, <2>2 DEF Onboard, Launch, Context, Login, GoToBase, VerifyMinimalSmoke, VisitRoute, CheckRoute,
             RunSmokePlan, CloseBrowser, WriteReport, written
    <3>2. at'[j] # "append"
      BY <1>3, <2>2 DEF Onboard, Launch, Context, Login, GoToBase, OpenFails, VerifyMinimalSmoke, Next0, VisitRoute,
             CheckRoute, RunSmokePlan, CloseBrowser, WriteReport, Go, CommandsInv, CommandShapes
    <3> QED BY <3>1, <3>2
  <2>3. ASSUME ~Onboard(j) PROVE UNCHANGED <<readiness, lines>> /\ at[j] # "append" /\ at'[j] # "append"
    BY <1>3, <2>3 DEF Command, OneStep, UnknownCommand, LoadConfig, ShowLogin, AwaitUrl, Capture, LoginThrows,
           Go, End, written, CommandsInv, CommandShapes
  <2>4. UNCHANGED <<readiness, lines>> /\ at[j] # "append" /\ at'[j] # "append"
    BY <2>2, <2>3
  <2>5. \A i \in Jobs : Ended(i) => i # j
    BY <2>1 DEF ActsAlone, Active, Ended
  <2> QED BY <1>1, <2>1, <2>4, <2>5, FilesStay DEF ActsAlone
<1>4. CASE WriteReadiness(j)
  <2>1. /\ at[j] \in Telling /\ at' = [at EXCEPT ![j] = "append"] /\ UNCHANGED found
        /\ readiness' = [value |-> Evaluate(found[j]), by |-> j]
    BY <1>4 DEF WriteReadiness, Go, Telling
  <2>2. at'[j] = "append" /\ \A i \in Jobs : at'[i] = "append" => i = j
    BY <1>1, <2>1 DEF CommandsInv, CommandShapes, Telling
  <2> QED BY <2>1, <2>2 DEF FilesOK
<1>5. CASE AppendHistory(j)
  <2>1. /\ at[j] = "append" /\ at' = [at EXCEPT ![j] = "ended"] /\ UNCHANGED <<found, readiness, request>>
        /\ lines' = Append(lines, [by |-> j, status |-> ToRunHistoryStatus(Evaluate(found[j]))])
        /\ Reply(j, Evaluate(found[j]))
    BY <1>5 DEF AppendHistory, Go, End
  <2>2. at'[j] = "ended" /\ \A i \in Jobs : at'[i] # "append"
    BY <1>1, <2>1 DEF CommandsInv, CommandShapes, Telling
  <2>3. readiness' = [value |-> Evaluate(found[j]), by |-> j]
    BY <1>1, <2>1 DEF FilesOK
  <2>4. Last(lines') = [by |-> j, status |-> ToRunHistoryStatus(Evaluate(found[j]))]
    <3> DEFINE line == [by |-> j, status |-> ToRunHistoryStatus(Evaluate(found[j]))]
    <3>1. lines \in Seq([by : Jobs, status : {"passed", "blocked", "failed"}])
      BY DEF CommandsInv, CommandShapes
    <3>2. Len(lines) \in Nat
      BY <3>1
    <3>3. line \in [by : Jobs, status : {"passed", "blocked", "failed"}]
      BY DEF ToRunHistoryStatus
    <3> HIDE DEF line
    <3>4. Len(Append(lines, line)) = Len(lines) + 1 /\ Append(lines, line)[Len(lines) + 1] = line
      BY <3>1, <3>2, <3>3
    <3> QED BY <2>1, <3>4 DEF Last, line
  <2>5. request[j].caller = "cli" =>
          (reply'[j].exit = "OK" <=> Evaluate(found[j]) = "READY")
    <3>1. request[j].command = "onboard"
      BY <2>1 DEF CommandsInv, PlacesOK, Telling, Onboards
    <3>2. request[j].caller = "cli" => reply'[j].exit = Exit("onboard", Evaluate(found[j]))
      BY <2>1, <3>1 DEF Reply, CommandsInv, CommandShapes
    <3> QED BY <2>1, <3>2, VerdictIsKnown DEF Telling
  <2>6. SaysTheSame(Last(lines))'
    <3>1. Last(lines)' = [by |-> j, status |-> ToRunHistoryStatus(Evaluate(found[j]))]
      BY <2>4 DEF Last
    <3> QED BY <2>1, <2>2, <2>3, <2>5, <3>1 DEF SaysTheSame, Ended
  <2> QED BY <2>2, <2>6 DEF FilesOK
<1> QED BY <1>1, <1>2, <1>3, <1>4, <1>5

LEMMA PressEnterFiles ==
  ASSUME CommandsInv, FilesOK, NEW p \in Processes, PressEnter(p)
  PROVE  FilesOK'
<1> SUFFICES ASSUME Orderly' PROVE FilesOK'
  BY DEF FilesOK
<1>1. /\ UNCHANGED <<request, found, readiness, lines, reply, faults, met>>
      /\ \A i \in Jobs : \/ at'[i] = at[i]
                         \/ at[i] \in {"person", "finish"} /\ at'[i] \in {"url", "capture"}
  BY DEF PressEnter, written, past
<1>2. Orderly
  BY <1>1 DEF Orderly, Onboards
<1>3. /\ \A i \in Jobs : at'[i] = "append" <=> at[i] = "append"
      /\ \A i \in Jobs : Ended(i) => at'[i] = at[i]
  BY <1>1 DEF Ended
<1> QED BY <1>1, <1>2, <1>3, FilesStay

---------------------------------------------------------------------------
(* The theorems.                                                            *)

LEMMA CommandsInitially ==
  ASSUME CommandsInit
  PROVE  CommandsInv /\ FilesOK
<1>1. /\ at = [j \in Jobs |-> "idle"] /\ found = [j \in Jobs |-> NothingFound]
      /\ routes = [j \in Jobs |-> <<>>] /\ alive = {} /\ met = {} /\ lines = <<>>
  BY DEF CommandsInit
<1>2. CommandShapes
  <2>1. request \in [Jobs -> Requests]
    <3>1. (CHOOSE r \in Requests : TRUE) \in Requests
      BY CommandsAssumption
    <3> QED BY <3>1 DEF CommandsInit
  <2>2. found \in [Jobs -> Finding] /\ answered \in [Jobs -> [DOMAIN Resources -> SUBSET {200, 500}]]
    BY DEF CommandsInit, NothingFound, Finding
  <2>3. browserOf \in [Processes -> Jobs \cup {NoJob}] /\ DOMAIN pageOf = Processes
    BY DEF CommandsInit
  <2>4. signals \in [Processes -> Seq(Signal)] /\ DOMAIN reply = Jobs /\ faults \in Nat
    BY DEF CommandsInit
  <2> QED BY <1>1, <2>1, <2>2, <2>3, <2>4 DEF CommandShapes
<1>3. PlacesOK
  BY <1>1 DEF PlacesOK, NothingFound, Opening, Looking, Telling, Capturing
<1>4. MetOK
  BY <1>1 DEF MetOK, Active
<1>5. AloneOK
  BY <1>1 DEF AloneOK, OwnOK, LogOK, BaseOK, RoutesOK, BrowserOK, NothingFound
<1>6. FilesOK
  BY <1>1 DEF FilesOK
<1> QED BY <1>2, <1>3, <1>4, <1>5, <1>6 DEF CommandsInv

LEMMA CommandsStep ==
  ASSUME CommandsInv, FilesOK, [CommandsNext]_cmVars
  PROVE  (CommandsInv /\ FilesOK)'
<1>1. ASSUME NEW j \in Jobs, Start(j) PROVE (CommandsInv /\ FilesOK)'
  BY <1>1, StartIs, StartPlaces, StartMet, StartAlone, FilesStep DEF CommandsInv
<1>2. ASSUME NEW j \in Jobs, Command(j) \/ WriteFails(j) PROVE (CommandsInv /\ FilesOK)'
  BY <1>2, CommandStep, FilesStep
<1>3. ASSUME NEW p \in Processes, PressEnter(p) PROVE (CommandsInv /\ FilesOK)'
  BY <1>3, PressEnterStep, PressEnterFiles
<1>4. CASE UNCHANGED cmVars
  <2>1. /\ UNCHANGED <<at, request, browserOf, pageOf, signals, alive, found, routes>>
        /\ UNCHANGED <<readiness, lines, reply, faults, answered, met>>
    BY <1>4 DEF cmVars, harness, written, past
  <2>2. CommandShapes' /\ PlacesOK' /\ MetOK'
    BY <2>1 DEF CommandsInv, CommandShapes, PlacesOK, MetOK, Onboards, Active
  <2>3. AloneOK'
    <3>1. ASSUME NEW i \in Jobs, ~Disturbed(i)' PROVE OwnOK(i)'
      <4>1. OwnOK(i)
        BY <2>1, <3>1 DEF Disturbed, Process, CommandsInv, AloneOK
      <4> QED BY <2>1, <4>1, OwnKept
    <3> QED BY <3>1 DEF AloneOK
  <2>4. FilesOK'
    <3>1. Orderly' => Orderly
      BY <2>1 DEF Orderly, Onboards
    <3>2. CASE Orderly
      BY <2>1, <3>2, FilesStay
    <3> QED BY <3>1, <3>2 DEF FilesOK
  <2> QED BY <2>2, <2>3, <2>4 DEF CommandsInv
<1> QED BY <1>1, <1>2, <1>3, <1>4 DEF CommandsNext

LEMMA ReadyEarned ==
  ASSUME CommandsInv
  PROVE  ReadyIsEarned
<1> SUFFICES ASSUME NEW j \in Jobs, Ended(j), request[j].command = "onboard",
                    Evaluate(found[j]) = "READY", ~Disturbed(j)
             PROVE  /\ BaseEarned(j)
                    /\ \A i \in DOMAIN request[j].routes : RouteEarned(j, request[j].routes[i])
  BY DEF ReadyIsEarned, BaseEarned, RouteEarned
<1> DEFINE all == request[j].routes
<1>1. found[j].opened /\ found[j].smoke /\ ~found[j].blocked /\ found[j].plan = "ok"
  <2>1. found[j].plan \in {"none", "ok", "failed", "error"}
    BY DEF CommandsInv, CommandShapes, Finding
  <2>2. found[j].opened /\ found[j].plan # "error"
    BY DEF Evaluate
  <2>3. found[j].smoke /\ ~found[j].blocked
    BY <2>2 DEF Evaluate
  <2>4. found[j].plan = "ok"
    BY <2>2, <2>3 DEF Evaluate
  <2> QED BY <2>2, <2>3, <2>4
<1>2. OwnOK(j)
  BY DEF CommandsInv, AloneOK
<1>3. BaseEarned(j)
  BY <1>1, <1>2 DEF OwnOK, BaseOK, Ended
<1>4. routes[j] = <<>>
  BY <1>1 DEF CommandsInv, PlacesOK
<1>5. \A i \in 1..(Len(all) - Len(routes[j])) : RouteEarned(j, all[i])
  BY <1>1, <1>2 DEF OwnOK, RoutesOK, Ended
<1>6. Len(all) \in Nat /\ DOMAIN all = 1..Len(all)
  BY CommandsAssumption DEF CommandsInv, CommandShapes
<1>7. Len(all) - Len(routes[j]) = Len(all)
  BY <1>4, <1>6
<1> QED BY <1>3, <1>5, <1>6, <1>7

\* The verdict of an onboarding is earned, and the same wherever it is told, whatever the
\* jobs, the pages and the limits are (project-onboarding.service.ts, cli.service.ts).
THEOREM VerdictsAreTrue == CommandsSpec => []VerdictIsTrue
<1>1. CommandsInit => CommandsInv /\ FilesOK
  BY CommandsInitially
<1>2. CommandsInv /\ FilesOK /\ [CommandsNext]_cmVars => (CommandsInv /\ FilesOK)'
  BY CommandsStep
<1>3. ASSUME CommandsInv, FilesOK PROVE FilesAgree
  <2> SUFFICES ASSUME lines # <<>>, Orderly, \A j \in Jobs : Onboards(j) => ~Active(j)
               PROVE  SaysTheSame(Last(lines))
    BY DEF FilesAgree, Orderly, SaysTheSame
  <2>1. \A j \in Jobs : at[j] # "append"
    BY <1>3 DEF CommandsInv, PlacesOK, Telling, Active
  <2> QED BY <1>3, <2>1 DEF FilesOK
<1>4. CommandsInv /\ FilesOK => VerdictIsTrue
  BY <1>3, ReadyEarned DEF VerdictIsTrue
<1> QED BY <1>1, <1>2, <1>4, PTL DEF CommandsSpec

\* A command that is over leaves no browser of its own behind, but where the opening of an
\* onboarding fails, a login by SSO throws, or another job of the daemon had taken its place
\* (the finally of cli.service.ts closes what the harness holds).
THEOREM BrowsersAreClosed == CommandsSpec => []BrowsersClosed
<1>1. CommandsInit => CommandsInv /\ FilesOK
  BY CommandsInitially
<1>2. CommandsInv /\ FilesOK /\ [CommandsNext]_cmVars => (CommandsInv /\ FilesOK)'
  BY CommandsStep
<1>3. CommandsInv => BrowsersClosed
  <2> SUFFICES ASSUME CommandsInv, NEW j \in alive, Ended(j), ~Disturbed(j)
               PROVE  \/ request[j].command = "onboard" /\ ~found[j].opened
                      \/ request[j].command = "capture-auth" /\ request[j].login = "sso"
    BY DEF BrowsersClosed
  <2>1. j \in Jobs
    BY DEF CommandsInv, CommandShapes
  <2>2. BrowserOK(j)
    BY <2>1 DEF CommandsInv, AloneOK, OwnOK
  <2> QED BY <2>2 DEF BrowserOK, Ended
<1> QED BY <1>1, <1>2, <1>3, PTL DEF CommandsSpec
===============================================================================
