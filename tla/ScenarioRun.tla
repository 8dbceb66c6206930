---------------------------- MODULE ScenarioRun ----------------------------
(***************************************************************************)
(* What running a scenario in mode FULL_REACTIVE promises: its tasks are   *)
(* settled once each, in the order of the plan; a task is tried only when  *)
(* everything it depends on has passed and skipped otherwise; and only an  *)
(* exception leaves a task unsettled.  ReactiveRunner implements it.       *)
(***************************************************************************)
EXTENDS Naturals

CONSTANTS
  N,      \* scenario.tasks, named by their position
  Deps    \* task.dependsOn

ASSUME ScenarioAssumption ==
  /\ N \in Nat
  /\ Deps \in [1 .. N -> SUBSET (1 .. N)]

VARIABLES
  task,      \* the next task to settle
  status,    \* task.status
  outcome    \* running, done or thrown (an exception)

scenarioVars == <<task, status, outcome>>

ScenarioInit ==
  /\ task = 1
  /\ status = [t \in 1 .. N |-> "PENDING"]
  /\ outcome = "running"

Ready == \A d \in Deps[task] : status[d] = "PASSED"

Settle ==
  /\ outcome = "running"
  /\ task <= N
  /\ \E s \in IF Ready THEN {"PASSED", "BLOCKED"} ELSE {"SKIPPED"} :
       status' = [status EXCEPT ![task] = s]
  /\ task' = task + 1
  /\ UNCHANGED outcome

Finish ==
  /\ outcome = "running"
  /\ task > N
  /\ outcome' = "done"
  /\ UNCHANGED <<task, status>>

\* An exception may strike between blocking a task and recording its bug.
Crash ==
  /\ outcome = "running"
  /\ outcome' = "thrown"
  /\ \/ UNCHANGED status
     \/ task <= N /\ status' = [status EXCEPT ![task] = "BLOCKED"]
  /\ UNCHANGED task

ScenarioNext == Settle \/ Finish \/ Crash

ScenarioSpec == ScenarioInit /\ [][ScenarioNext]_scenarioVars
=============================================================================
