----------------------------- MODULE Pipeline ------------------------------
(***************************************************************************)
(* The QA pipeline of a pull request: prepare and correlate are gates, the *)
(* stages after them hand their results on through files of one directory  *)
(* (./.agent-qa/pipeline unless told otherwise) that nobody ever clears.   *)
(*                                                                         *)
(* A job is one invocation: of the whole pipeline, or of a gate alone.     *)
(* Jobs may follow each other in the directory or, when the API daemon     *)
(* starts them, run at the same time in one process, whose plan cache they *)
(* then share.  A job may be killed between any two of its actions.        *)
(***************************************************************************)
EXTENDS ExitCodes, FiniteSets

CONSTANTS
  Jobs,          \* invocations, each for a pull request of its own
  Memory,        \* the origin of a scenario that comes from the memory
  NoFile,        \* a file that does not exist
  NoPlan,        \* what the planner answers when it has no plan
  MaxRequired,   \* bound: required scenarios of a demand
  MaxFailures    \* bound: errors from outside and kills in a behaviour

ASSUME JobsAssumption == Memory \notin Jobs
ASSUME BoundsAssumption == MaxRequired \in Nat \ {0} /\ MaxFailures \in Nat

VARIABLES
  dir,      \* the files of the directory
  cache,    \* the plan cache of the process: plans by their key
  mode,     \* what each job was asked to run
  stage,    \* the stage each job is in
  input,    \* the file the stage has read and works on, NoFile before it
  steps,    \* the records of the stages of each job
  demandId, \* whose demand the config of each job names
  shared    \* jobs that were active while another one was

vars == <<dir, cache, mode, stage, input, steps, demandId, shared>>

-----------------------------------------------------------------------------
(* Data.  Required scenarios are numbered anew for every pull request, so   *)
(* their ids, unlike those of the memory, say nothing of the demand.        *)

Scenario == [of : Jobs \cup {Memory}, n : 1..MaxRequired]
Required(j, k) == [of : {j}, n : 1..k]
ScenarioId(s) == <<s.of = Memory, s.n>>

Artifacts == {"pr-diff-context", "demand-context", "required-scenarios",
              "selected-scenarios", "execution-plan", "execution-result",
              "learning-candidates"}

(* A file: the job that wrote it, the pull request (of which job) it stems  *)
(* from, the scenarios it is about, and the verdict of an execution (of     *)
(* every other file it is TRUE).                                            *)
File == [by : Jobs, of : Jobs, about : SUBSET Scenario, ok : BOOLEAN]

Gates == {"prepare", "correlate"}
Stages == Gates \cup {"auto-config", "risk", "generate-plan", "execute",
                      "report", "learning", "promote-learning"}
Modes == {"all", "all with auto-config"} \cup Gates

NextStage(j) ==
  IF mode[j] \in Gates THEN "ended" ELSE
  CASE stage[j] = "prepare" -> "correlate"
    [] stage[j] = "correlate" -> IF mode[j] = "all" THEN "risk"
                                 ELSE "auto-config"
    [] stage[j] = "auto-config" -> "risk"
    [] stage[j] = "risk" -> "generate-plan"
    [] stage[j] = "generate-plan" -> "execute"
    [] stage[j] = "execute" -> "report"
    [] stage[j] = "report" -> "learning"
    [] stage[j] = "learning" -> "promote-learning"
    [] stage[j] = "promote-learning" -> "ended"

Active(j) == stage[j] \in Stages
Codes(j) == [i \in DOMAIN steps[j] |-> steps[j][i].exitCode]
FinalExitCode(j) == MostSevereExitCode(Codes(j))

FailuresOf(j) == {i \in DOMAIN steps[j] : steps[j][i].exitCode \in ThrownCodes}
Failures == UNION {{<<j, i>> : i \in FailuresOf(j)} : j \in Jobs}
Killed == {j \in Jobs : stage[j] = "killed"}
MayFail == Cardinality(Failures) + Cardinality(Killed) < MaxFailures

-----------------------------------------------------------------------------
Init ==
  /\ dir = [a \in Artifacts |-> NoFile]
  /\ cache = <<>>
  /\ mode \in [Jobs -> Modes]
  /\ stage = [j \in Jobs |-> "idle"]
  /\ input = [j \in Jobs |-> NoFile]
  /\ steps = [j \in Jobs |-> <<>>]
  /\ demandId = [j \in Jobs |-> Memory]
  /\ shared = {}

(* A job starts: a whole pipeline at its first gate.                        *)
Start(j) ==
  /\ stage[j] = "idle"
  /\ stage' = [stage EXCEPT ![j] = IF mode[j] = "correlate" THEN "correlate"
                                   ELSE "prepare"]
  /\ shared' = LET others == {k \in Jobs : Active(k)}
               IN  IF others = {} THEN shared ELSE shared \cup others \cup {j}
  /\ UNCHANGED <<dir, cache, mode, input, steps, demandId>>

(* A stage ends with an exit code.                                          *)
Record(j, code) ==
  /\ steps' = [steps EXCEPT ![j] =
                 Append(@, [name |-> stage[j], exitCode |-> code])]
  /\ input' = [input EXCEPT ![j] = NoFile]
  /\ UNCHANGED <<mode, shared>>

(* The job goes on, whatever the code.                                      *)
GoOn(j, code) ==
  /\ Record(j, code)
  /\ stage' = [stage EXCEPT ![j] = NextStage(j)]

\* Mutant of Stop: only a blocked gate ends the job, an error of a gate does not.
StopWhenBlocked(j, code) ==
  /\ Record(j, code)
  /\ stage' = [stage EXCEPT ![j] = IF code = "PREFLIGHT_BLOCKED" THEN "ended"
                                   ELSE NextStage(j)]

(* A gate (or the auto-config) did not succeed: the job ends.               *)
Stop(j, code) ==
  /\ Record(j, code)
  /\ stage' = [stage EXCEPT ![j] = "ended"]

(* A blocked gate.  Whether a comment on the pull request says so is left   *)
(* out: a failure to post it is swallowed.                                  *)
Block(j) == Stop(j, "PREFLIGHT_BLOCKED")

Write(j, a, of, about, ok) ==
  dir' = [dir EXCEPT ![a] = [by |-> j, of |-> of, about |-> about, ok |-> ok]]

-----------------------------------------------------------------------------
(* The gates.                                                               *)

BlockingChecks == {"clickupToken", "clickupReadAccess", "clickupTaskId",
                   "prContext", "branchHead", "checkoutHistory", "config",
                   "previewReachable"}
PreflightChecks == BlockingChecks \cup {"githubToken", "prCommentPermission"}

BlockingChecksOk(failed, taskIdSkipped) ==
  \A c \in BlockingChecks : (c = "clickupTaskId" /\ taskIdSkipped) \/ c \notin failed

(* Preflight, then the diff of the pull request.  Bound: one check fails.   *)
Prepare(j) ==
  /\ stage[j] = "prepare"
  /\ \/ \E failed \in {{}} \cup {{c} : c \in PreflightChecks}, skipped \in BOOLEAN :
          IF BlockingChecksOk(failed, skipped)
          THEN Write(j, "pr-diff-context", j, {}, TRUE) /\ GoOn(j, "OK")
          ELSE Block(j) /\ UNCHANGED dir
     \/ MayFail /\ (\E c \in ThrownCodes : Stop(j, c)) /\ UNCHANGED dir
  /\ UNCHANGED <<cache, demandId>>

CorrelateBegin(j) ==
  /\ stage[j] = "correlate" /\ input[j] = NoFile
  /\ IF dir["pr-diff-context"] = NoFile
     THEN Block(j)
     ELSE /\ input' = [input EXCEPT ![j] = dir["pr-diff-context"]]
          /\ UNCHANGED <<stage, steps, mode, shared>>
  /\ UNCHANGED <<dir, cache, demandId>>

(* What correlate has written when it ends: the demand; then the required   *)
(* scenarios; then the scenarios of the memory that match them, if any do.  *)
Demand(j) == [dir EXCEPT !["demand-context"] =
                [by |-> j, of |-> input[j].of, about |-> {}, ok |-> TRUE]]
DemandAndRequired(j, k) ==
  [Demand(j) EXCEPT !["required-scenarios"] =
     [by |-> j, of |-> input[j].of, about |-> Required(input[j].of, k), ok |-> TRUE]]
Correlation(j, k, matched) ==
  IF matched = {} THEN DemandAndRequired(j, k)
  ELSE [DemandAndRequired(j, k) EXCEPT !["selected-scenarios"] =
          [by |-> j, of |-> input[j].of, about |-> [of : {Memory}, n : matched],
           ok |-> TRUE]]

CorrelateEnd(j) ==
  /\ stage[j] = "correlate" /\ input[j] # NoFile
  /\ \/ Block(j) /\ dir' \in {dir, Demand(j)}
     \/ /\ MayFail /\ Stop(j, "HARNESS_FATAL")
        /\ dir' \in {dir} \cup {DemandAndRequired(j, k) : k \in 1..MaxRequired}
     \/ /\ GoOn(j, "OK")
        /\ \E k \in 1..MaxRequired : \E matched \in SUBSET (1..k) :
             dir' = Correlation(j, k, matched)
  /\ UNCHANGED <<cache, demandId>>

-----------------------------------------------------------------------------
(* The stages after the gates.                                              *)

(* The config is built for the demand; the job ends when it cannot be.      *)
AutoConfig(j) ==
  /\ stage[j] = "auto-config"
  /\ \/ /\ NoFile \notin {dir["pr-diff-context"], dir["demand-context"]}
        /\ demandId' = [demandId EXCEPT ![j] = dir["demand-context"].of]
        /\ GoOn(j, "OK")
     \/ MayFail /\ (\E c \in ThrownCodes : Stop(j, c)) /\ UNCHANGED demandId
  /\ UNCHANGED <<dir, cache>>

(* A stage that throws leaves the files as they were.                       *)
StageFails(j) ==
  /\ Active(j) /\ stage[j] \notin Gates \cup {"auto-config"}
  /\ MayFail /\ \E c \in ThrownCodes : GoOn(j, c)
  /\ UNCHANGED <<dir, cache, demandId>>

Risk(j) ==
  /\ stage[j] = "risk"
  /\ GoOn(j, IF dir["pr-diff-context"] = NoFile THEN "CONFIG_ERROR" ELSE "OK")
  /\ UNCHANGED <<dir, cache, demandId>>

(* The scenarios to plan: the selected ones when there are any, else the    *)
(* required ones; whichever job wrote them.                                 *)
ResolveScenarios ==
  IF dir["selected-scenarios"] # NoFile THEN dir["selected-scenarios"]
  ELSE dir["required-scenarios"]

\* Mutant of CacheKey: the demand is not part of the key.
CacheKeyOfScenarios(j, about) == {ScenarioId(s) : s \in about}

CacheKey(j, about) == <<demandId[j], {ScenarioId(s) : s \in about}>>

\* Mutant of PlanAnswered: no plan is no problem.
PlanAnsweredOK(j, source, answer) ==
  /\ IF answer = NoPlan THEN UNCHANGED dir
     ELSE Write(j, "execution-plan", source.of, answer, TRUE)
  /\ GoOn(j, "OK")

(* The planner's answer is written unless it is none; the stage then        *)
(* reports a config error and the old plan stays.                           *)
PlanAnswered(j, source, answer) ==
  IF answer = NoPlan
  THEN UNCHANGED dir /\ GoOn(j, "CONFIG_ERROR")
  ELSE Write(j, "execution-plan", source.of, answer, TRUE) /\ GoOn(j, "OK")

GeneratePlanBegin(j) ==
  /\ stage[j] = "generate-plan" /\ input[j] = NoFile
  /\ LET scenarios == ResolveScenarios
         key == CacheKey(j, scenarios.about)
     IN  IF scenarios = NoFile
         THEN GoOn(j, "CONFIG_ERROR") /\ UNCHANGED dir
         ELSE IF key \in DOMAIN cache
         THEN PlanAnswered(j, scenarios, cache[key])
         ELSE /\ input' = [input EXCEPT ![j] = scenarios]
              /\ UNCHANGED <<dir, stage, steps, mode, shared>>
  /\ UNCHANGED <<cache, demandId>>

(* The LLM, whose plan names scenarios it was given but perhaps not all, or *)
(* the factory, answers; its answer is cached, even when it is none.  An    *)
(* error of the planner is not cached and is no plan either.                *)
GeneratePlanEnd(j) ==
  /\ stage[j] = "generate-plan" /\ input[j] # NoFile
  /\ \/ \E answer \in (SUBSET input[j].about \ {{}}) \cup {NoPlan} :
          /\ cache' = LET key == CacheKey(j, input[j].about)
                      IN  [k \in DOMAIN cache \cup {key} |->
                             IF k = key THEN answer ELSE cache[k]]
          /\ PlanAnswered(j, input[j], answer)
     \/ MayFail /\ PlanAnswered(j, input[j], NoPlan) /\ UNCHANGED cache
  /\ UNCHANGED demandId

(* An entry of the cache expires, or is lost with the process.              *)
Expire ==
  /\ \E key \in DOMAIN cache :
       cache' = [k \in DOMAIN cache \ {key} |-> cache[k]]
  /\ UNCHANGED <<dir, mode, stage, input, steps, demandId, shared>>

ExecuteBegin(j) ==
  /\ stage[j] = "execute" /\ input[j] = NoFile
  /\ IF dir["execution-plan"] = NoFile
     THEN GoOn(j, "CONFIG_ERROR")
     ELSE /\ input' = [input EXCEPT ![j] = dir["execution-plan"]]
          /\ UNCHANGED <<stage, steps, mode, shared>>
  /\ UNCHANGED <<dir, cache, demandId>>

ExecuteEnd(j) ==
  /\ stage[j] = "execute" /\ input[j] # NoFile
  /\ \E ok \in BOOLEAN :
       /\ Write(j, "execution-result", input[j].of, input[j].about, ok)
       /\ GoOn(j, IF ok THEN "OK" ELSE "BUGS_FOUND")
  /\ UNCHANGED <<cache, demandId>>

Report(j) ==
  /\ stage[j] = "report"
  /\ GoOn(j, IF dir["execution-result"] # NoFile /\ ~dir["execution-result"].ok
             THEN "BUGS_FOUND" ELSE "OK")
  /\ UNCHANGED <<dir, cache, demandId>>

(* The candidates are those of whatever result is in the directory.  Their  *)
(* "of" is the job that was executed, j itself when there is no result.     *)
Learning(j) ==
  /\ stage[j] = "learning"
  /\ IF dir["execution-result"] = NoFile
     THEN Write(j, "learning-candidates", j, {}, TRUE)
     ELSE Write(j, "learning-candidates", dir["execution-result"].by,
                dir["execution-result"].about, TRUE)
  /\ GoOn(j, "OK")
  /\ UNCHANGED <<cache, demandId>>

PromoteLearning(j) ==
  /\ stage[j] = "promote-learning"
  /\ GoOn(j, "OK")
  /\ UNCHANGED <<dir, cache, demandId>>

(* The process of a job is killed; its files stay.                          *)
Kill(j) ==
  /\ Active(j) /\ MayFail
  /\ stage' = [stage EXCEPT ![j] = "killed"]
  /\ input' = [input EXCEPT ![j] = NoFile]
  /\ UNCHANGED <<dir, cache, mode, steps, demandId, shared>>

AllOver ==
  /\ \A j \in Jobs : stage[j] \in {"ended", "killed"}
  /\ UNCHANGED vars

Step(j) ==
  \/ Start(j) \/ Prepare(j) \/ CorrelateBegin(j) \/ CorrelateEnd(j)
  \/ AutoConfig(j) \/ Risk(j) \/ GeneratePlanBegin(j) \/ GeneratePlanEnd(j)
  \/ ExecuteBegin(j) \/ ExecuteEnd(j) \/ Report(j) \/ Learning(j)
  \/ PromoteLearning(j) \/ StageFails(j) \/ Kill(j)

Next == (\E j \in Jobs : Step(j)) \/ Expire \/ AllOver

Spec == Init /\ [][Next]_vars

-----------------------------------------------------------------------------
(* Properties.                                                              *)

(* Every variable has its type, at most one file is in work per job, and    *)
(* only in the stages that read one and then wait.                          *)
TypeOK ==
  /\ dir \in [Artifacts -> File \cup {NoFile}]
  /\ \A key \in DOMAIN cache :
       /\ key[1] \in Jobs \cup {Memory}
       /\ cache[key] \in (SUBSET Scenario) \cup {NoPlan}
  /\ mode \in [Jobs -> Modes]
  /\ stage \in [Jobs -> Stages \cup {"idle", "ended", "killed"}]
  /\ input \in [Jobs -> File \cup {NoFile}]
  /\ \A j \in Jobs :
       /\ steps[j] \in Seq([name : Stages, exitCode : ExitCodes])
       /\ input[j] # NoFile =>
            stage[j] \in {"correlate", "generate-plan", "execute"}
  /\ demandId \in [Jobs -> Jobs \cup {Memory}]
  /\ shared \subseteq Jobs

(* After a gate, or the auto-config, that did not end with OK no later      *)
(* stage of the job runs: its record is the last one and the job is over.   *)
StopsAtGates ==
  \A j \in Jobs : \A i \in DOMAIN steps[j] :
    (steps[j][i].name \in Gates \cup {"auto-config"} /\ steps[j][i].exitCode # "OK")
      => i = Len(steps[j]) /\ ~Active(j)

(* Past the gates no error, no missing file and no bug keeps a later stage  *)
(* from running: a pipeline that ended without being stopped at a gate has  *)
(* one record of every stage, the report and the learning included.         *)
RunsToTheEnd ==
  \A j \in Jobs :
    LET Names == {steps[j][i].name : i \in DOMAIN steps[j]}
        Planned == IF mode[j] = "all" THEN Stages \ {"auto-config"} ELSE Stages
    IN  (stage[j] = "ended" /\ mode[j] \notin Gates /\ "risk" \in Names)
          => Names = Planned /\ Len(steps[j]) = Cardinality(Planned)

(* The exit code of a job is one of its stages', OK only if all of them     *)
(* are; a broken harness is never hidden by bugs or a bad configuration,    *)
(* and bugs are never hidden by a bad configuration.                        *)
ExitIsMostSevere ==
  \A j \in Jobs :
    LET codes == {steps[j][i].exitCode : i \in DOMAIN steps[j]}
        code == FinalExitCode(j)
    IN  (stage[j] = "ended")
          => /\ code \in codes
             /\ code = "OK" => codes = {"OK"}
             /\ "HARNESS_FATAL" \in codes => code = "HARNESS_FATAL"
             /\ "BUGS_FOUND" \in codes => code \notin {"OK", "CONFIG_ERROR"}

(* A pipeline that had the directory for itself and exits with OK has       *)
(* written a plan, executed that plan with success and learned from that    *)
(* execution: it never passes on the files another job left behind.         *)
OkMeansTested ==
  [][\A j \in Jobs \ shared :
       (/\ Active(j) /\ stage'[j] = "ended" /\ mode[j] \notin Gates
        /\ FinalExitCode(j)' = "OK")
         => /\ dir'["execution-plan"].by = j
            /\ dir'["execution-result"].by = j /\ dir'["execution-result"].ok
            /\ dir'["execution-result"].about = dir'["execution-plan"].about
            /\ dir'["learning-candidates"].by = j
            /\ dir'["learning-candidates"].of = j]_vars

(* The plan of a pipeline whose config was built for its demand is about no *)
(* required scenario of another demand, although the scenarios of all of    *)
(* them are numbered alike and the cache outlives a job.                    *)
PlanIsForItsDemand ==
  dir["execution-plan"] # NoFile =>
    LET plan == dir["execution-plan"]
    IN  (plan.by \notin shared /\ mode[plan.by] = "all with auto-config")
          => \A s \in plan.about : s.of \in {plan.by, Memory}

(* Violated.  The scenarios a pipeline plans are those its own correlation  *)
(* wrote, the required ones when nothing of the memory matched (the comment *)
(* above resolveScenarios).                                                 *)
PlansItsOwnScenarios ==
  \A j \in Jobs \ shared :
    (stage[j] = "generate-plan" /\ input[j] # NoFile) => input[j].by = j
=============================================================================
