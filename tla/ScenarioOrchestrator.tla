------------------------ MODULE ScenarioOrchestrator ------------------------
(***************************************************************************)
(* ScenarioOrchestratorService                                             *)
(* (application/services/scenario-orchestrator.service.ts) on top of the   *)
(* planner: required scenarios are first looked up among the scenario      *)
(* chunks of the memory, the planner makes scenarios for those that were   *)
(* not found, and a limit cuts the whole.  The overlap of the tokens of a  *)
(* required scenario and a chunk is a given number of percent.             *)
(***************************************************************************)
EXTENDS ScenarioPlanner

CONSTANTS
  Requests,      \* what orchestrate() may be called with
  FreshIds,      \* ids of generated scenarios that are no id of a chunk
  MinMatchScore, \* MIN_MATCH_SCORE in percent: 25
  MaxSelected    \* MAX_SELECTED_SCENARIOS: 10

\* score[r][c]: the overlap of required scenario r and chunk c.  Both are
\* numbered, the chunks in the order of their ids.
ASSUME OrchestratorAssumption ==
  /\ \A q \in Requests :
       /\ q.required \in SUBSET Nat /\ IsFiniteSet(q.required)
       /\ q.chunks \in SUBSET Nat /\ IsFiniteSet(q.chunks)
       /\ q.score \in [q.required -> [q.chunks -> 0 .. 100]]
       /\ q.max \in 1 .. 100
  /\ MinMatchScore \in 1 .. 100 /\ MaxSelected \in Nat \ {0}

VARIABLES
  request,   \* the input of orchestrate()
  phase,     \* what orchestrate() does next
  metadata,  \* the matches of the selector, best first
  asked,     \* the required scenarios the generator was given
  answer     \* the result: ids to run, and required scenarios reported uncovered

orchestration == <<request, phase, metadata, asked, answer>>

----------------------------------------------------------------------------
(* The selector: MemoryScenarioSelector.select.                            *)

Better(m, n) ==
  \/ m.score > n.score
  \/ m.score = n.score /\ m.chunk < n.chunk
  \/ m.score = n.score /\ m.chunk = n.chunk /\ m.required < n.required

Matches(q) ==
  {m \in [required : q.required, chunk : q.chunks, score : MinMatchScore .. 100] :
     m.score = q.score[m.required][m.chunk]}

\* scoreMatchesByTokenOverlap, filtered by the least score: the k-th match is
\* the one that all but the k - 1 better ones come after.
Ranked(q) ==
  [k \in 1 .. Cardinality(Matches(q)) |->
     CHOOSE m \in Matches(q) : Cardinality({n \in Matches(q) : Better(n, m)}) = k - 1]

\* deduplicateByChunkId: of the matches of a chunk, the first.
FirstOfEachChunk(matches) ==
  LET first == {i \in DOMAIN matches : \A j \in 1 .. i - 1 : matches[j].chunk # matches[i].chunk}
  IN Those(matches, first)

Select(q) ==
  LET unique == FirstOfEachChunk(Ranked(q))
  IN FirstOf(unique, MaxSelected)

\* Mutant of Uncovered: what the selector warns of, whether or not its matches
\* outlived the better ones of others.
UncoveredByWarning(q, matches) == q.required \ {m.required : m \in ToSet(Ranked(q))}

Uncovered(q, matches) == q.required \ {m.required : m \in ToSet(matches)}

HasCatalog(q) == q.required # {} /\ q.chunks # {}

----------------------------------------------------------------------------
(* orchestrate().                                                          *)

OrchestratorInit ==
  /\ PlannerInit
  /\ request \in Requests
  /\ phase = "select"
  /\ metadata = <<>>
  /\ asked = {}
  /\ answer = [scenarios |-> <<>>, generated |-> <<>>, uncovered |-> {}]

\* handleSelectorPhase and the guard of handleGenerationPhase; without a
\* catalog (handleNoCatalogFallback) everything goes to the generator, which
\* does nothing when nothing is required.
SelectScenarios ==
  /\ phase = "select"
  /\ metadata' = IF HasCatalog(request) THEN Select(request) ELSE <<>>
  /\ asked' = Uncovered(request, metadata')
  /\ phase' = IF asked' = {} THEN "limit" ELSE "generate"
  /\ UNCHANGED <<plannerVars, request, answer>>

\* ScenarioGeneratorService.generate: the planner, on the criteria of what is
\* uncovered.
Generate ==
  /\ phase = "generate"
  /\ PlannerNext
  /\ phase' = IF stage' = "done" THEN "limit" ELSE "generate"
  /\ UNCHANGED <<request, metadata, asked, answer>>

\* The generated scenarios whose id no selected one has.
Fresh(selected, generated) == Those(generated, {i \in DOMAIN generated : generated[i] \notin ToSet(selected)})

\* Mutant of Limited: what was made for this request comes first.
LimitedGeneratedFirst(selected, generated, max) == FirstOf(Fresh(selected, generated) \o selected, max)

\* applyScenarioLimit on ids.  The selected ones are unique and sorted, as the
\* selector leaves them: its set of seen ids and its sort change nothing.
Limited(selected, generated, max) == FirstOf(selected \o Fresh(selected, generated), max)

SelectedIds == [i \in DOMAIN metadata |-> metadata[i].chunk]

\* The ids of generated scenarios come from the provider; the one of the
\* authenticated plan is scenario-001.  Without a catalog nothing is reported
\* as uncovered.
ApplyScenarioLimit ==
  /\ phase = "limit"
  /\ \E ids \in [DOMAIN scenarios -> FreshIds \cup request.chunks] :
       /\ auth => ToSet(ids) \cap request.chunks = {}
       /\ answer' = [scenarios |-> Limited(SelectedIds, ids, request.max),
                     generated |-> ids,
                     uncovered |-> IF HasCatalog(request) THEN asked ELSE {}]
  /\ phase' = "answered"
  /\ UNCHANGED <<plannerVars, request, metadata, asked>>

OrchestratorNext == SelectScenarios \/ Generate \/ ApplyScenarioLimit

OrchestratorSpec == OrchestratorInit /\ [][OrchestratorNext]_<<plannerVars, orchestration>>

----------------------------------------------------------------------------
(* Properties of the answer.                                               *)

Answered == phase = "answered"

\* Every required scenario is served: a scenario of the memory that was chosen
\* for it runs, or the planner was asked for it and what the planner made runs,
\* unless the limit is used up or what it made took the ids of chosen ones.
\* The chunk that matched it may have been given to another requirement.
RequirementsAreServed ==
  Answered =>
    LET runs == ToSet(answer.scenarios)
    IN \A r \in request.required :
         \/ Len(answer.scenarios) = request.max
         \/ \E i \in DOMAIN metadata : metadata[i].required = r /\ metadata[i].chunk \in runs
         \/ /\ r \in asked
            /\ HasCatalog(request) => r \in answer.uncovered
            /\ answer.generated # <<>>
            /\ \/ ToSet(answer.generated) \cap runs # {}
               \/ ToSet(answer.generated) \subseteq ToSet(SelectedIds)

BestScore(c) ==
  LET scores == {request.score[r][c] : r \in request.required}
  IN CHOOSE s \in scores : \A t \in scores : t <= s

\* The limits keep what serves best: a scenario of the memory that matches is
\* left out only for as many that match no worse, and a made scenario never
\* takes its place.  No scenario of the memory runs twice, also when the
\* planner made one with the same id.
BestScenariosRun ==
  Answered =>
    LET kept == answer.scenarios
        good == {c \in request.chunks : HasCatalog(request) /\ BestScore(c) >= MinMatchScore}
        room == IF request.max < MaxSelected THEN request.max ELSE MaxSelected
    IN /\ Len(kept) <= request.max
       /\ \A c \in good \ ToSet(kept) :
            Cardinality({k \in good \cap ToSet(kept) \cap ToSet(SelectedIds) : BestScore(k) >= BestScore(c)}) = room
       /\ \A i, j \in DOMAIN kept : kept[i] = kept[j] /\ i # j => kept[i] \notin ToSet(SelectedIds)

\* The suite serves the requirements as well as the memory and the limits allow.
ServedByTheBest == RequirementsAreServed /\ BestScenariosRun
=============================================================================
