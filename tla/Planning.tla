------------------------------ MODULE Planning ------------------------------
(***************************************************************************)
(* Requests to the LLM and what becomes of them: a plan is built from the  *)
(* cache, the LLM or the factory (ExecutionPlanPlannerService), which asks *)
(* the LLM about the tasks whose outcome is not known, and a decision is   *)
(* made for the reactive mode. Every call goes through a provider: groq    *)
(* waits and calls again when its rate is limited, openai does not, fake   *)
(* calls nobody. A call may fail, and what it answers is whatever text a   *)
(* model may write.                                                        *)
(*                                                                         *)
(* One request is served at a time; the cache outlives it, for an hour.    *)
(* DecisionRouterProvider has every optional method of its port, so that   *)
(* the emergency plan and the default outcome are never made.              *)
(***************************************************************************)
EXTENDS PlanMaking

CONSTANTS Requests,          \* what may be asked for
          PlanAnswers,       \* plans as a model may write them
          OutcomeAnswers,    \* kinds of outcome it may name
          DecisionAnswers,   \* actions it may decide on
          RateLimitRetries,  \* llm.rateLimitRetries
          MaxSchemaRetries,  \* llm.maxSchemaRetries
          MaxRequests        \* bound: requests served

\* A catalogue that is planned has no scenario without a task: enforcePlanPolicy of the
\* scenario planner adds one. The outcome of a task may be missing.
IsCatalogue(scenarios) ==
  /\ scenarios \in Seq(ToSet(scenarios))
  /\ \A s \in ToSet(scenarios) :
       /\ s.tasks \in Seq(ToSet(s.tasks)) \ {<<>>}
       /\ \A t \in ToSet(s.tasks) : t.outcome \in OutcomeKinds \union {None}

\* The first element is one of the elements, if there are any.
ASSUME PlanningAssumption ==
  /\ RateLimitRetries \in Nat /\ MaxSchemaRetries \in Nat /\ MaxRequests \in Nat
  /\ OutcomeAnswers \subseteq OutcomeKinds
  /\ \A r \in Requests : IsCatalogue(r.scenarios) /\ r.first \in r.elements \union {0}
  /\ Requests # {}

VARIABLES cache,      \* InMemoryPlanCacheAdapter.store
          served,     \* how many requests came
          req,        \* the request at hand
          pc,         \* where it is
          limited,    \* chatJson: attempts of this call refused for their rate
          tries,      \* decide: answers that were no decision
          calls,      \* calls made for this request
          todo,       \* fromScenarios: the tasks that have no step yet
          taskSteps,  \* fromScenarios: the steps so far
          unclassified, \* of which of them the outcome could not be resolved
          result      \* what the request got

planningVars == <<cache, served, req, pc, limited, tries, calls, todo, taskSteps, unclassified, result>>
building == <<todo, taskSteps, unclassified>>

NoResult == [kind |-> None]
Failure == [kind |-> "error"]
PlanResult(plan, source) == [kind |-> "plan", plan |-> plan, source |-> source, cached |-> FALSE]
Decision(action) == [kind |-> "decision", action |-> action]

\* Mutant of CacheKey: the key is the demand.
DemandKey(r) == <<r.demand>>

\* The key leaves out the tasks of the scenarios, and of the configuration all but the base URL.
CacheKey(r) ==
  <<r.demand, [i \in DOMAIN r.scenarios |-> r.scenarios[i].id], r.config.baseFaults>>

Config == req.config
\* The tasks of the request in order, each with its scenario.
Tasks(r) ==
  LET Of(scenario) == [j \in DOMAIN scenario.tasks |-> <<scenario.id, scenario.tasks[j]>>]
  IN FlattenSeq([i \in DOMAIN r.scenarios |-> Of(r.scenarios[i])])

PlanningInit ==
  /\ cache = << >> /\ served = 0 /\ pc = "idle" /\ result = NoResult
  /\ req = CHOOSE r \in Requests : TRUE
  /\ limited = 0 /\ tries = 0 /\ calls = 0
  /\ todo = <<>> /\ taskSteps = <<>> /\ unclassified = {}

Begin(r) ==
  /\ pc \in {"idle", "done"} /\ served < MaxRequests
  /\ served' = served + 1 /\ req' = r
  /\ pc' = IF r.kind = "decide" THEN "decide" ELSE "lookup"
  /\ result' = NoResult /\ limited' = 0 /\ tries' = 0 /\ calls' = 0
  /\ todo' = Tasks(r) /\ taskSteps' = <<>> /\ unclassified' = {}
  /\ UNCHANGED cache

\* An hour later.
Expire(key) ==
  /\ pc \in {"idle", "done"} /\ key \in DOMAIN cache
  /\ cache' = [k \in DOMAIN cache \ {key} |-> cache[k]]
  /\ UNCHANGED <<served, req, pc, limited, tries, calls, building, result>>

Reuse ==
  /\ pc = "lookup" /\ CacheKey(req) \in DOMAIN cache
  /\ result' = [cache[CacheKey(req)] EXCEPT !.cached = TRUE] /\ pc' = "done"
  /\ UNCHANGED <<cache, served, req, limited, tries, calls, building>>

Build ==
  /\ pc = "lookup" /\ CacheKey(req) \notin DOMAIN cache
  /\ pc' = IF Config.strategy = "factory_first" THEN "factory" ELSE "buildPlan"
  /\ UNCHANGED <<cache, served, req, limited, tries, calls, building, result>>

\* What a build returned is cached, whatever it is.
Return(planned) ==
  /\ result' = planned /\ pc' = "done"
  /\ cache' = [k \in DOMAIN cache \union {CacheKey(req)} |->
                 IF k = CacheKey(req) THEN planned ELSE cache[k]]

-----------------------------------------------------------------------------
(* The calls.                                                              *)

Calls == pc \in {"buildPlan", "classify", "decide"} /\ Config.provider # "fake" /\ Config.key

\* The step of the first task that waits, after its outcome was found.
AddStep(step) ==
  /\ taskSteps' = Append(taskSteps, step) /\ todo' = Tail(todo) /\ pc' = "factory"

\* Mutant of Unclassified: what nobody could classify is taken for something to open.
TakenForDisclosure ==
  AddStep(ContractStep(Head(todo)[1], Head(todo)[2], Config, "DISCLOSURE"))
Unclassified == AddStep(MakeSafeCheckStep(Head(todo)[1], Head(todo)[2]))

\* Mutant of PlanFails: the factory is asked again although it had no plan.
AsksFactoryAgain ==
  /\ pc = "buildPlan" /\ pc' = "factory"
  /\ UNCHANGED <<tries, building, result>>

\* What follows when a call has failed or its answer is of no use. A decision is asked for
\* again; at last groq aborts the scenario, and openai throws.
PlanFails ==
  /\ pc = "buildPlan"
  /\ IF Config.strategy = "factory_first" THEN result' = Failure /\ pc' = "done"
     ELSE pc' = "factory" /\ UNCHANGED result
  /\ UNCHANGED <<tries, building>>

ClassificationFails ==
  /\ pc = "classify" /\ Unclassified
  /\ unclassified' = unclassified \union {Len(taskSteps) + 1}
  /\ UNCHANGED <<tries, result>>

DecisionFails ==
  /\ pc = "decide"
  /\ IF tries < MaxSchemaRetries THEN tries' = tries + 1 /\ UNCHANGED <<pc, result>>
     ELSE /\ pc' = "done"
          /\ result' = IF Config.provider = "groq"
                       THEN Decision([type |-> "abortScenario", target |-> 0]) ELSE Failure
          /\ UNCHANGED tries
  /\ UNCHANGED building

Fails == PlanFails \/ ClassificationFails \/ DecisionFails

MayCallAgain == limited < RateLimitRetries

\* groq answers 429: wait, and call again.
RateLimited ==
  /\ Calls /\ Config.provider = "groq" /\ MayCallAgain
  /\ limited' = limited + 1 /\ calls' = calls + 1
  /\ UNCHANGED <<cache, served, req, pc, tries, building, result>>

\* Another status, the last 429, no connection, a text that is no JSON or names no outcome.
CallFails ==
  /\ Calls /\ Fails
  /\ limited' = 0 /\ calls' = calls + 1
  /\ UNCHANGED <<cache, served, req>>

\* Without a key nobody is called. Nor does groq try a decision again.
NoKey ==
  /\ pc \in {"buildPlan", "classify", "decide"} /\ Config.provider # "fake" /\ ~Config.key
  /\ IF pc = "decide" THEN result' = Failure /\ pc' = "done" /\ UNCHANGED <<tries, building>>
     ELSE Fails
  /\ UNCHANGED <<cache, served, req, limited, calls>>

\* A plan that is valid after the repair and that the policy lets through is taken.
PlanAnswered(raw) ==
  LET plan == RepairPlan(raw)
  IN /\ pc = "buildPlan" /\ Calls
     /\ IF PlanIsValid(plan) /\ ValidateSemanticPlan(plan, Config, req.scenarios)
        THEN Return(PlanResult(plan, "llm")) /\ UNCHANGED <<tries, building>>
        ELSE PlanFails /\ UNCHANGED cache
     /\ calls' = calls + 1 /\ limited' = 0
     /\ UNCHANGED <<served, req>>

\* The plan of the fake provider: one step, of no task.
FakePlan == <<[scenario |-> None, task |-> None, isFallback |-> FALSE,
               action |-> Action("waitForStable", NoLocator, None),
               posts |-> {Condition("text_any_visible", "title", None)}]>>

FakeBuildsPlan ==
  /\ pc = "buildPlan" /\ Config.provider = "fake"
  /\ IF ValidateSemanticPlan(FakePlan, Config, req.scenarios)
     THEN Return(PlanResult(FakePlan, "llm")) /\ UNCHANGED <<tries, building>>
     ELSE PlanFails /\ UNCHANGED cache
  /\ UNCHANGED <<served, req, limited, calls>>

Classified(kind) ==
  /\ pc = "classify" /\ Calls
  /\ AddStep(ContractStep(Head(todo)[1], Head(todo)[2], Config, kind))
  /\ calls' = calls + 1 /\ limited' = 0
  /\ UNCHANGED <<cache, served, req, tries, unclassified, result>>

FakeClassifies ==
  /\ pc = "classify" /\ Config.provider = "fake"
  /\ AddStep(ContractStep(Head(todo)[1], Head(todo)[2], Config, "NO_REGRESSION"))
  /\ UNCHANGED <<cache, served, req, limited, tries, calls, unclassified, result>>

\* groq repairs what was decided; openai takes it when the schema does.
Decided(raw) ==
  /\ pc = "decide" /\ Calls
  /\ IF Config.provider = "groq"
     THEN /\ result' = Decision(RepairAction(raw, req.elements, req.first)) /\ pc' = "done"
          /\ UNCHANGED <<tries, building>>
     ELSE IF raw.type \in RequiresElement /\ raw.id.form # "id" THEN DecisionFails
     ELSE /\ result' = Decision([type |-> raw.type, target |-> raw.id.n]) /\ pc' = "done"
          /\ UNCHANGED <<tries, building>>
  /\ calls' = calls + 1 /\ limited' = 0
  /\ UNCHANGED <<cache, served, req>>

\* The fake provider fills the first field, and throws on a page without elements.
FakeDecides ==
  /\ pc = "decide" /\ Config.provider = "fake"
  /\ result' = IF req.elements = {} THEN Failure
               ELSE Decision([type |-> "fill", target |-> req.first])
  /\ pc' = "done"
  /\ UNCHANGED <<cache, served, req, limited, tries, calls, building>>

-----------------------------------------------------------------------------
(* The factory.                                                            *)

\* The outcome of the next task is given: its step is made.
MakeTaskStep ==
  /\ pc = "factory" /\ todo # <<>> /\ Head(todo)[2].outcome # None
  /\ AddStep(ContractStep(Head(todo)[1], Head(todo)[2], Config, Head(todo)[2].outcome))
  /\ UNCHANGED <<cache, served, req, limited, tries, calls, unclassified, result>>

Resolve ==
  /\ pc = "factory" /\ todo # <<>> /\ Head(todo)[2].outcome = None
  /\ pc' = "classify"
  /\ UNCHANGED <<cache, served, req, limited, tries, calls, building, result>>

\* A catalogue without tasks gives no plan: factory_first then asks the LLM, and the other
\* strategy returns nothing as its plan.
FactoryDone ==
  /\ pc = "factory" /\ todo = <<>>
  /\ IF taskSteps = <<>> /\ Config.strategy = "factory_first"
     THEN pc' = "buildPlan" /\ UNCHANGED <<cache, result>>
     ELSE Return(PlanResult(taskSteps, "factory"))
  /\ UNCHANGED <<served, req, limited, tries, calls, building>>

Serve ==
  \/ Reuse \/ Build \/ RateLimited \/ CallFails \/ NoKey
  \/ \E raw \in PlanAnswers : PlanAnswered(raw)
  \/ \E kind \in OutcomeAnswers : Classified(kind)
  \/ \E raw \in DecisionAnswers : Decided(raw)
  \/ FakeBuildsPlan \/ FakeClassifies \/ FakeDecides
  \/ MakeTaskStep \/ Resolve \/ FactoryDone

PlanningNext == Serve \/ (\E r \in Requests : Begin(r)) \/ (\E key \in DOMAIN cache : Expire(key))

\* A request that is being served goes on: the calls end, by an answer or an error.
PlanningSpec == PlanningInit /\ [][PlanningNext]_planningVars /\ WF_planningVars(Serve)

-----------------------------------------------------------------------------
(* Properties.                                                             *)

HasPlan == result.kind = "plan"

\* The task a step is for: the factory makes one step for each, and the policy looks it up.
TaskOf(i) ==
  IF result.source = "factory" THEN {Tasks(req)[i][2]}
  ELSE FindTask(result.plan[i], req.scenarios)

\* A plan is about the scenarios of the request, from the LLM, the factory or the cache: the
\* policy compares the ids, and the ids are in the key of the cache.
StepsAreOfTheCatalogue ==
  HasPlan /\ TaskIds(req.scenarios) # {} =>
    \A s \in ToSet(result.plan) :
      s.scenario \in ScenarioIds(req.scenarios) \/ IsEmergency(s)

\* No click passes unseen: whoever planned it, a condition on the page decides whether it
\* worked, and of a click that logs out one that proves it. A plan that was built for other
\* tasks of the same ids (the cache) is only held to the first.
ClicksAreVerified ==
  HasPlan => \A i \in DOMAIN result.plan : result.plan[i].action.type = "click" =>
    /\ HasVerifiedStatePostcondition(result.plan[i])
    /\ ~result.cached /\ (\E t \in TaskOf(i) : t.outcome = "DEAUTHENTICATION")
         => \E c \in result.plan[i].posts : IsLogoutProofCondition(c)

\* A task that could not be classified is looked at and never acted on.
UnclassifiedIsNotActedOn ==
  HasPlan /\ result.source = "factory" /\ ~result.cached =>
    \A i \in unclassified :
      result.plan[i].isFallback /\ result.plan[i].action.type = "waitForStable"

\* A plan of the LLM, of the factory or of the cache may be run: it is of the
\* request, none of its clicks goes unverified, and nothing is done for a task
\* of which it is not known what it should come to.
PlanMayBeRun == StepsAreOfTheCatalogue /\ ClicksAreVerified /\ UnclassifiedIsNotActedOn

\* Retries multiply: a request makes at most as many calls as both limits and its tasks allow.
CallsBounded ==
  calls <= (RateLimitRetries + 1)
             * (IF req.kind = "decide" THEN MaxSchemaRetries + 1 ELSE 1 + Len(Tasks(req)))

\* A decision of groq acts on an element of the observation it was made for, or on none.
ActsOnWhatItSaw ==
  result.kind = "decision" /\ Config.provider = "groq" =>
    /\ result.action.target \in req.elements \union {0}
    /\ result.action.type \in RequiresElement => result.action.target # 0

\* Whatever the LLM does, a request gets its plan, decision or error.
EveryRequestEnds == (pc # "idle") ~> (pc = "done")

=============================================================================
