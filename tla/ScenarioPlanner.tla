-------------------------- MODULE ScenarioPlanner --------------------------
(***************************************************************************)
(* ScenarioPlannerService                                                  *)
(* (application/services/scenario-planner.service.ts): from the scenarios  *)
(* a decision provider answers with, or those made up from the acceptance  *)
(* criteria, to the scenarios of the run.  One action per stage of plan().  *)
(* The classification of a task by the LLM is nondeterministic.            *)
(***************************************************************************)
EXTENDS Selections, Sequences, FiniteSets, SequencesExt

CONSTANTS
  Texts,        \* titles, and expected texts that are not those of an outcome
  Answers,      \* the scenarios a provider may answer with, each a sequence of tasks
  Criteria,     \* what compactCriteria may return: the lines of the acceptance criteria
  PublicLimit,  \* tasks in a scenario without authentication; 8 in the code
  AuthLimit     \* tasks in the authenticated scenario; 6 in the code

\* Kinds of expected outcome; "none" when the task carries none.  The first
\* three have a text of their own in expectedTextForOutcome; DISCLOSURE stands
\* for APPEARANCE_CHANGE too.
Described == {"AUTHENTICATION", "DEAUTHENTICATION", "DISCLOSURE"}
OutcomeKind == Described \cup {"OTHER"}

\* from: history, the scenario and the place in it where the task was given,
\* <<0, 0>> for the task the planner makes up.
Task == [id : Nat, title : Texts, expected : Texts \cup Described, kind : OutcomeKind \cup {"none"},
         deps : Seq(Nat), from : Nat \X Nat]

\* Nothing is assumed of the ids a provider answers with: they may be given
\* twice in a scenario, and again in another one.
ASSUME PlannerAssumption ==
  /\ Answers \subseteq Seq(Seq(Task))
  /\ \A a \in Answers : \A s \in DOMAIN a : \A i \in DOMAIN a[s] : a[s][i].from = <<s, i>>
  /\ Criteria \subseteq Seq(Texts) \ {<<>>}
  /\ PublicLimit \in Nat \ {0} /\ AuthLimit \in Nat \ {0}

VARIABLES
  auth,       \* config.auth.kind # 'none'
  criteria,   \* compactCriteria(config)
  stage,      \* the stage of plan() that comes next
  given,      \* history: the scenarios before they are sorted, outcomes resolved
  scenarios   \* what plan() has made of them

plannerVars == <<auth, criteria, stage, given, scenarios>>

FallbackAuthTask == [id |-> 1, title |-> criteria[1], expected |-> criteria[1], kind |-> "none",
                     deps |-> <<>>, from |-> <<0, 0>>]

Ids(tasks) == {tasks[i].id : i \in DOMAIN tasks}
IsLogout(task) == task.kind = "DEAUTHENTICATION"
IsLogin(task) == task.kind = "AUTHENTICATION"

----------------------------------------------------------------------------
(* Helpers on the tasks of one scenario.                                   *)

\* Mutant of RelinkDependencies: dependencies on tasks that are gone stay.
RelinkNothing(tasks) == tasks

RelinkDependencies(tasks) ==
  [i \in DOMAIN tasks |->
     [tasks[i] EXCEPT !.deps = Those(@, {d \in DOMAIN @ : @[d] \in Ids(tasks)})]]

Sequential(tasks) ==
  [i \in DOMAIN tasks |-> [tasks[i] EXCEPT !.id = i, !.deps = IF i = 1 THEN <<>> ELSE <<i - 1>>]]

NonLogins(tasks) == Those(tasks, {i \in DOMAIN tasks : ~ IsLogin(tasks[i])})
NonLogouts(tasks) == Those(tasks, {i \in DOMAIN tasks : ~ IsLogout(tasks[i])})
FirstOf(tasks, n) == SubSeq(tasks, 1, IF Len(tasks) < n THEN Len(tasks) ELSE n)

\* tasks.find(isLogoutTask), as a sequence of at most one task.
Logout(tasks) == FirstOf(Those(tasks, {i \in DOMAIN tasks : IsLogout(tasks[i])}), 1)

\* The title and the expected text, without case, accents and punctuation.
Key(task) == <<task.title, task.expected>>

Dedupe(tasks) ==
  LET first == {i \in DOMAIN tasks : \A j \in DOMAIN tasks : Key(tasks[j]) = Key(tasks[i]) => i <= j}
  IN Those(tasks, first)

\* map.get: of the tasks with an id, the last.
Named(tasks, id) == tasks[Max({i \in DOMAIN tasks : tasks[i].id = id})]

\* What is left to do: to enter an id, and to leave it after the visits to its
\* dependencies.
Enter(ids) == [i \in DOMAIN ids |-> [id |-> ids[i], does |-> "enter"]]
Leave(id) == [id |-> id, does |-> "leave"]

\* Mutant of Visit: a task is emitted before its dependencies.
VisitPreorder(tasks, walk) ==
  LET id == Head(walk.todo).id
      rest == Tail(walk.todo)
  IN IF walk.todo = <<>> THEN walk
     ELSE IF Head(walk.todo).does = "leave" THEN [walk EXCEPT !.todo = rest, !.stack = @ \ {id}]
     ELSE IF id \in walk.stack \cup Ids(walk.result) THEN [walk EXCEPT !.todo = rest]
     ELSE [todo   |-> Enter(Named(tasks, id).deps) \o <<Leave(id)>> \o rest,
           stack  |-> walk.stack \cup {id},
           result |-> Append(walk.result, Named(tasks, id))]

\* visit, one call after the other: the dependencies, depth first, then the
\* task.  A task on the stack (a cycle) is not visited again.  No id is unknown,
\* as the dependencies on tasks that are not there were dropped.
Visit(tasks, walk) ==
  LET id == Head(walk.todo).id
      rest == Tail(walk.todo)
  IN IF walk.todo = <<>> THEN walk
     ELSE IF Head(walk.todo).does = "leave"
     THEN [todo   |-> rest,
           stack  |-> walk.stack \ {id},
           result |-> Append(walk.result, Named(tasks, id))]
     ELSE IF id \in walk.stack \cup Ids(walk.result) THEN [walk EXCEPT !.todo = rest]
     ELSE [todo   |-> Enter(Named(tasks, id).deps) \o <<Leave(id)>> \o rest,
           stack  |-> walk.stack \cup {id},
           result |-> walk.result]

\* More than the calls of visit there are: no id is left twice.
Calls(tasks) == Len(tasks) * (Max({0} \cup {Len(tasks[i].deps) : i \in DOMAIN tasks}) + 2)

TopoSort(tasks) ==
  LET sanitized == RelinkDependencies(tasks)
      walk[n \in 0 .. Calls(sanitized)] ==
        IF n = 0 THEN [todo |-> Enter([i \in DOMAIN sanitized |-> sanitized[i].id]), stack |-> {}, result |-> <<>>]
        ELSE Visit(sanitized, walk[n - 1])
  IN walk[Calls(sanitized)].result

\* Without authentication the tasks to log in and out go, with it those to log in.
AuthAwareTasks(tasks) ==
  LET kept == IF auth THEN NonLogins(tasks) ELSE NonLogouts(NonLogins(tasks))
  IN IF auth /\ kept = <<>> THEN <<FallbackAuthTask>> ELSE RelinkDependencies(kept)

----------------------------------------------------------------------------
(* The stages of plan().                                                   *)

PlannerInit ==
  /\ auth \in BOOLEAN
  /\ criteria \in Criteria
  /\ stage = "build"
  /\ given = <<>>
  /\ scenarios = <<>>

\* A task for each criterion, each depending on the one before it.
Fallback(kinds) ==
  << [i \in DOMAIN criteria |-> [id |-> i, title |-> criteria[i], expected |-> criteria[i], kind |-> kinds[i],
                                 deps |-> IF i = 1 THEN <<>> ELSE <<i - 1>>, from |-> <<1, i>>]] >>

\* The provider answers, or it has no answer or throws.
BuildScenarios ==
  /\ stage = "build"
  /\ \/ scenarios' \in Answers \ {<<>>}
     \/ \E kinds \in [DOMAIN criteria -> OutcomeKind] : scenarios' = Fallback(kinds)
  /\ stage' = "normalize"
  /\ UNCHANGED <<auth, criteria, given>>

\* canonicalTask, and the outcome the LLM resolves when the task has none.
Canonical(task, kind) ==
  [task EXCEPT !.expected = IF task.kind \in Described THEN task.kind ELSE @,
               !.kind = IF task.kind = "none" THEN kind ELSE @]

\* The tasks that come without an outcome, by their places.
Unclassified == {p \in UNION {{s} \X DOMAIN scenarios[s] : s \in DOMAIN scenarios} :
                   scenarios[p[1]][p[2]].kind = "none"}

NormalizeScenarioTasks ==
  /\ stage = "normalize"
  /\ \E kinds \in [Unclassified -> OutcomeKind] :
       given' = [s \in DOMAIN scenarios |->
                   [i \in DOMAIN scenarios[s] |-> Canonical(scenarios[s][i], kinds[<<s, i>>])]]
  /\ scenarios' = [s \in DOMAIN given' |-> AuthAwareTasks(TopoSort(given'[s]))]
  /\ stage' = "auth"
  /\ UNCHANGED <<auth, criteria>>

AuthenticatedPlan(plans) ==
  LET tasks   == NonLogins(FlattenSeq(plans))
      ordered == NonLogouts(tasks) \o Logout(tasks)
  IN << Sequential(IF ordered = <<>> THEN <<FallbackAuthTask>> ELSE ordered) >>

ApplyAuthPolicy ==
  /\ stage = "auth"
  /\ scenarios' = IF auth THEN AuthenticatedPlan(scenarios) ELSE scenarios
  /\ stage' = "policy"
  /\ UNCHANGED <<auth, criteria, given>>

Limit == IF auth THEN AuthLimit ELSE PublicLimit

\* Mutant of Policed: room is kept for a logout there is not.
PolicedReservingRoom(tasks) ==
  LET unique  == Dedupe(tasks)
      ordered == FirstOf(NonLogouts(unique), Limit - 1) \o Logout(unique)
  IN IF ordered = <<>> THEN <<FallbackAuthTask>>
     ELSE IF auth THEN Sequential(ordered) ELSE RelinkDependencies(ordered)

\* One scenario under enforcePlanPolicy: the body is cut so that the logout fits.
Policed(tasks) ==
  LET unique  == Dedupe(tasks)
      logout  == Logout(unique)
      ordered == FirstOf(NonLogouts(unique), Limit - Len(logout)) \o logout
  IN IF ordered = <<>> THEN <<FallbackAuthTask>>
     ELSE IF auth THEN Sequential(ordered) ELSE RelinkDependencies(ordered)

EnforcePlanPolicy ==
  /\ stage = "policy"
  /\ scenarios' = [s \in DOMAIN scenarios |-> Policed(scenarios[s])]
  /\ stage' = "done"
  /\ UNCHANGED <<auth, criteria, given>>

PlannerNext == BuildScenarios \/ NormalizeScenarioTasks \/ ApplyAuthPolicy \/ EnforcePlanPolicy

PlannerSpec == PlannerInit /\ [][PlannerNext]_plannerVars

----------------------------------------------------------------------------
(* Properties of the plan.                                                 *)

\* Types, and ids that tell the tasks of a scenario apart once it is sorted.
PlannerTypeOK ==
  /\ auth \in BOOLEAN
  /\ criteria \in Criteria
  /\ stage \in {"build", "normalize", "auth", "policy", "done"}
  /\ given \in Seq(Seq(Task))
  /\ scenarios \in Seq(Seq(Task))
  /\ stage \notin {"build", "normalize"} =>
       \A s \in DOMAIN scenarios : \A i, j \in DOMAIN scenarios[s] :
         scenarios[s][i].id = scenarios[s][j].id => i = j

Planned == stage = "done"

\* Among these tasks the one with id x needs the one with id y: every set that
\* holds what x depends on, and what its members depend on, holds y.
Needs(tasks, x, y) ==
  \A C \in SUBSET Ids(tasks) :
    (\A id \in C \cup {x} : ToSet(Named(tasks, id).deps) \cap Ids(tasks) \subseteq C) => y \in C

\* Equal tasks were given or classified with the same kind of outcome, and none
\* that logs out reads like the one the planner makes up; dedupe does not look
\* at the kind.
EqualTasksAgree ==
  LET tasks == {FallbackAuthTask} \cup UNION {ToSet(given[s]) : s \in DOMAIN given}
  IN \A t, u \in tasks : Key(t) = Key(u) => (IsLogout(t) <=> IsLogout(u))

\* A plan logs out only under authentication, at most once, and does nothing
\* after it; a logout that was asked for is not cut off by the limit (unless it
\* reads like a task that is no logout, or its id is given again).
LogoutComesLast ==
  Planned => \A s \in DOMAIN scenarios :
    /\ \A i \in DOMAIN scenarios[s] : IsLogout(scenarios[s][i]) => auth /\ i = Len(scenarios[s])
    /\ auth /\ EqualTasksAgree
         /\ (\E g \in DOMAIN given : \E id \in Ids(given[g]) : IsLogout(Named(given[g], id)))
         => IsLogout(Last(scenarios[s]))

\* Every dependency of a planned task names a task of its scenario, and an
\* earlier one unless the answer of the provider has a cycle through both: the
\* reactive runner takes a dependency that comes later for a blocked one.
DependenciesComeFirst ==
  Planned => \A s \in DOMAIN scenarios : \A i \in DOMAIN scenarios[s] :
    \A d \in ToSet(scenarios[s][i].deps) :
      \E j \in DOMAIN scenarios[s] :
        /\ scenarios[s][j].id = d
        /\ \/ j < i
           \/ ~ auth /\ Needs(given[s], scenarios[s][i].id, d) /\ Needs(given[s], d, scenarios[s][i].id)

\* The tasks the k-th one depends on that a plan may have: neither a login nor a
\* logout, and not in a cycle with it.
Prerequisites(tasks, k) ==
  {Named(tasks, d) : d \in {e \in ToSet(tasks[k].deps) \cap Ids(tasks) :
                             /\ ~ Needs(tasks, e, tasks[k].id)
                             /\ ~ IsLogin(Named(tasks, e)) /\ ~ IsLogout(Named(tasks, e))}}

\* What a planned task needs according to the provider is planned before it, as
\* itself or as an equal task: neither merging scenarios nor cutting them keeps
\* a task without its prerequisites.
PrerequisitesArePlanned ==
  Planned => \A s \in DOMAIN scenarios : \A i \in DOMAIN scenarios[s] :
    LET from == scenarios[s][i].from
    IN from # <<0, 0>> /\ ~ IsLogout(scenarios[s][i]) =>
         \A p \in Prerequisites(given[from[1]], from[2]) : \E j \in 1 .. i - 1 : Key(scenarios[s][j]) = Key(p)

\* The plan can be run from its first task to its last: what a task depends on,
\* in the plan or according to the provider, comes before it, and the logout
\* after all of them.
TasksComeInOrder == DependenciesComeFirst /\ PrerequisitesArePlanned /\ LogoutComesLast

\* A plan that is not empty and keeps its limit leaves a task out only if it
\* logs in or out, equals one that is planned, finds its scenario full, or has
\* an id that is given again; cycles lose nothing.
NothingElseIsLeftOut ==
  Planned =>
    /\ \A s \in DOMAIN scenarios : Len(scenarios[s]) \in 1 .. Limit
    /\ \A g \in DOMAIN given : \A id \in Ids(given[g]) :
         LET s == IF auth THEN 1 ELSE g
             t == Named(given[g], id)
         IN \/ IsLogin(t) \/ IsLogout(t)
            \/ Len(scenarios[s]) = Limit
            \/ \E i \in DOMAIN scenarios[s] : Key(scenarios[s][i]) = Key(t)
=============================================================================
