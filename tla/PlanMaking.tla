----------------------------- MODULE PlanMaking -----------------------------
(***************************************************************************)
(* How an execution plan comes out of a catalogue of scenarios, as pure    *)
(* operators: what the normalizer of LLM answers repairs, what the policy  *)
(* of the planner refuses, and the steps the factory makes of a task.      *)
(*                                                                         *)
(* A text is one member of Texts, which has a word of every kind that the  *)
(* code looks for. A locator is the strategy and the set of texts in it, a *)
(* condition is its type, its key (a semantic key, text or URL) and what   *)
(* it expects; None is a field that is missing.                            *)
(***************************************************************************)
EXTENDS Naturals, Sequences, SequencesExt, FiniteSets

None == "none"

\* "Entrar" and "login" ask for a login, "Sair" and "logout" for a logout, "Tema" and "theme"
\* for another theme, "email" is a field of a login form; "Excluir" is destructive, "x" is too
\* short to be looked for.
Texts == {"Entrar", "Sair", "Tema", "theme", "email", "Salvar", "Excluir", "x"}
LoginTexts == {"Entrar"}
LogoutTexts == {"Sair"}
ThemeTexts == {"Tema", "theme"}
FieldTexts == {"email"}

\* The texts that the check of targets against outcomes knows: it has no "tema".
KeywordsOf == [AUTHENTICATION |-> {"Entrar"}, DEAUTHENTICATION |-> {"Sair"},
               APPEARANCE_CHANGE |-> {"theme"}]

\* What a task may come to (ExpectedOutcomeKindSchema).
OutcomeKinds == {"AUTHENTICATION", "DEAUTHENTICATION", "NAVIGATION", "APPEARANCE_CHANGE", "DISCLOSURE",
                 "CONTENT_PRESENCE", "DATA_ENTRY", "NO_REGRESSION", "CLASSIFICATION_FAILED"}

Condition(type, key, expected) == [type |-> type, key |-> key, expected |-> expected]
Locator(strategy, texts) == [strategy |-> strategy, texts |-> texts]
NoLocator == Locator(None, {})
Action(type, target, to) == [type |-> type, target |-> target, to |-> to]

-----------------------------------------------------------------------------
(* The normalizer of plans.                                                *)

ConditionTypes == {"field_value_contains", "element_visible", "text_visible",
                   "text_any_visible", "url_contains", "no_console_errors", "ui_state",
                   "auth_state", "menu_state", "route_state", "attribute_state",
                   "storage_state", "network_state"}

\* The names that models use for the types of conditions.
NormalizeConditionType(type) ==
  CASE type \in {"visible", "element"} -> "element_visible"
    [] type \in {"text", "text_contains"} -> "text_visible"
    [] type = "text_any" -> "text_any_visible"
    [] type = "url" -> "url_contains"
    [] type = "route" -> "route_state"
    [] type = "auth" -> "auth_state"
    [] type = "menu_open" -> "menu_state"
    [] OTHER -> type

\* What a condition expects after the repair: an auth_state without a value is taken for
\* anonymous, and nothing that is asked of the appearance may be "changed".
RepairExpected(type, key, expected) ==
  CASE type = "auth_state" /\ expected = None -> "anonymous"
    [] type = "ui_state" /\ expected \in {None, "changed"} -> "exists"
    [] type = "route_state" /\ expected \notin {"changed", "same", "matches"} ->
         IF key = None THEN "changed" ELSE "matches"
    [] OTHER -> expected

RepairCondition(c) ==
  LET type == NormalizeConditionType(c.type)
      key == IF type = "ui_state" /\ c.key = None THEN "appearance_mode" ELSE c.key
  IN Condition(type, key, RepairExpected(type, key, c.expected))

\* PlanConditionSchema, on a condition that was repaired. A condition it refuses is dropped.
ConditionIsValid(c) ==
  /\ c.type \in ConditionTypes
  /\ c.type \in {"field_value_contains", "element_visible", "text_visible", "text_any_visible",
                 "url_contains", "menu_state", "attribute_state", "storage_state"}
       => c.key # None
  /\ c.type = "text_any_visible" => c.key # ""
  /\ c.type = "auth_state" => c.expected \in {"authenticated", "anonymous", "changed"}
  /\ c.type = "menu_state" => c.expected \in {"open", "closed", "changed"}
  /\ c.type \in {"attribute_state", "storage_state", "network_state"} => c.expected # None

RepairConditions(cs) == {c \in {RepairCondition(d) : d \in cs} : ConditionIsValid(c)}

\* A locator whose text is missing becomes the whole document; one of text_any keeps no text,
\* which the schema refuses, as it does a semantic locator without candidates.
RepairLocator(l) ==
  IF l.texts = {} /\ l.strategy \in {"text", "label", "placeholder", "role", "testid"}
  THEN Locator("document", {}) ELSE l

LocatorIsValid(l) == l.strategy \in {"text_any", "semantic"} => l.texts # {}

RepairPlanAction(a) ==
  Action(a.type,
         IF a.type \in {"waitForStable", "clickOutside", "abortScenario", "navigate"}
         THEN NoLocator ELSE RepairLocator(a.target),
         IF a.type = "navigate" /\ a.to = None THEN "base" ELSE a.to)

PlanActionIsValid(a) ==
  /\ a.type \in {"click", "fill", "select", "navigate", "waitForStable", "assertVisible", "press",
                 "clickOutside"}
  /\ a.type \in {"click", "fill", "select", "assertVisible"} => a.target.strategy # None
  /\ LocatorIsValid(a.target)

RepairStep(s) == [s EXCEPT !.action = RepairPlanAction(@), !.posts = RepairConditions(@)]

StepIsValid(s) == PlanActionIsValid(s.action) /\ s.posts # {}

RepairPlan(steps) == [i \in DOMAIN steps |-> RepairStep(steps[i])]
\* ExecutionPlanSchema, on the steps of a plan.
PlanIsValid(steps) == steps # <<>> /\ \A i \in DOMAIN steps : StepIsValid(steps[i])

-----------------------------------------------------------------------------
(* The policy that a plan of the LLM has to satisfy.                       *)

TasksOf(scenarios) == UNION {ToSet(scenarios[i].tasks) : i \in DOMAIN scenarios}
ScenarioIds(scenarios) == {scenarios[i].id : i \in DOMAIN scenarios}
TaskIds(scenarios) == {t.id : t \in TasksOf(scenarios)}

\* The task of a step: of the first scenario with its id, the first task with its id, if any.
FindTask(s, scenarios) ==
  LET i == SelectInSeq(scenarios, LAMBDA x : x.id = s.scenario)
      j == IF i = 0 THEN 0 ELSE SelectInSeq(scenarios[i].tasks, LAMBDA t : t.id = s.task)
  IN IF j = 0 THEN {} ELSE {scenarios[i].tasks[j]}

IsEmergency(s) == s.scenario = "emergency" /\ s.task = "emergency"

\* navigate to the login page, fill a field of a login form, click a login button.
StepAttemptsRuntimeLogin(s) ==
  \/ s.action.type = "navigate" /\ s.action.to = "login"
  \/ s.action.type = "fill" /\ s.action.target.texts \cap FieldTexts # {}
  \/ s.action.type = "click" /\ s.action.target.texts \cap LoginTexts # {}

IsThemeAction(s, scenarios) ==
  \E t \in FindTask(s, scenarios) :
     \/ t.outcome = "APPEARANCE_CHANGE"
     \/ s.action.type \in {"click", "fill"} /\ s.action.target.texts \cap ThemeTexts # {}
     \/ t.expected \in ThemeTexts

IsLogoutClick(s, scenarios) ==
  /\ s.action.type = "click"
  /\ \E t \in FindTask(s, scenarios) :
        \/ t.outcome = "DEAUTHENTICATION"
        \/ s.action.target.texts \cap LogoutTexts # {}
        \/ t.expected \in LogoutTexts

HasStateChangePostcondition(s) ==
  \E c \in s.posts : c.type \in {"ui_state", "attribute_state", "storage_state"}
                        /\ c.expected = "changed"

HasVerifiedStatePostcondition(s) ==
  \E c \in s.posts : c.type \in {"auth_state", "ui_state", "attribute_state", "storage_state",
                                 "menu_state", "element_visible", "text_visible",
                                 "text_any_visible", "field_value_contains"}

HasChangedRuntimePostcondition(s) ==
  \E c \in s.posts : c.type \in {"ui_state", "attribute_state", "storage_state", "menu_state",
                                 "auth_state", "route_state"} /\ c.expected = "changed"

IsLogoutProofCondition(c) ==
  \/ c.type = "auth_state" /\ c.expected = "anonymous"
  \/ c.type = "route_state" /\ c.expected = "matches" /\ c.key = "/login"
  \/ c.type \in {"url_contains", "text_visible"} /\ c.key # ""
  \/ c.type = "text_any_visible"

HasInvalidAppearanceState(s) ==
  \E c \in s.posts : /\ c.type = "ui_state" /\ c.key = "appearance_mode"
                     /\ c.expected \notin {"changed", "unchanged", "exists", "not_exists", "dark",
                                           "light"}

KnowsItsTask(s, scenarios) ==
  s.task \in TaskIds(scenarios) /\ s.scenario \in ScenarioIds(scenarios)

\* A generic word in the target of a task with another outcome.
ContradictsOutcome(s, scenarios) ==
  /\ s.action.type \in {"click", "fill"}
  /\ \E t \in FindTask(s, scenarios), kind \in DOMAIN KeywordsOf :
        /\ t.outcome \notin {None, kind}
        /\ s.action.target.texts \cap KeywordsOf[kind] # {}

\* Some step with which the policy finds fault.
IssueOf(s, config, scenarios) ==
  \/ TaskIds(scenarios) # {} /\ ~IsEmergency(s) /\ ~KnowsItsTask(s, scenarios)
  \/ config.auth # "none" /\ StepAttemptsRuntimeLogin(s)
  \/ HasInvalidAppearanceState(s)
  \/ s.action.type = "click" /\ ~HasVerifiedStatePostcondition(s)
  \/ IsThemeAction(s, scenarios) /\ ~HasStateChangePostcondition(s)
  \/ IsLogoutClick(s, scenarios) /\ ~\E c \in s.posts : IsLogoutProofCondition(c)
  \/ s.action.type \in {"waitForStable", "assertVisible"} /\ HasChangedRuntimePostcondition(s)
  \/ ContradictsOutcome(s, scenarios)
  \/ IsEmergency(s) /\ s.action.type = "navigate" /\ s.action.to = "elsewhere"

\* Mutant of ValidateSemanticPlan: the loop returns at the first step without an issue.
ValidateFirstStep(steps, config, scenarios) ==
  \E i \in DOMAIN steps : ~IssueOf(steps[i], config, scenarios)

ValidateSemanticPlan(steps, config, scenarios) ==
  \A i \in DOMAIN steps : ~IssueOf(steps[i], config, scenarios)


-----------------------------------------------------------------------------
(* The factory: exactly one step for each task.                            *)

MakeStep(scenario, task, action, posts) ==
  [scenario |-> scenario, task |-> task.id, action |-> action, posts |-> posts,
   isFallback |-> FALSE]

\* The step of a task that nothing can be done about: wait, and look for errors.
MakeSafeCheckStep(scenario, task) ==
  [MakeStep(scenario, task, Action("waitForStable", NoLocator, None),
            {Condition("no_console_errors", None, None)}) EXCEPT !.isFallback = TRUE]

\* The action policy on a text.
IsDestructive(text) == text = "Excluir"
ValidateDestructiveText(text, config) == ~IsDestructive(text) \/ config.destructive = "ALLOW"

\* The labels of a task that may be looked for, in order; none when any of them is too short.
SemanticTarget(task, config) ==
  IF \E i \in DOMAIN task.labels : task.labels[i] = "x" THEN <<>>
  ELSE SelectSeq(task.labels, LAMBDA text : ValidateDestructiveText(text, config))

\* A NAVIGATION goes to its target, or to the base URL when it has none, unless something is
\* wrong with it: a path that climbs, no URL, another scheme than http, another host, a path
\* that is not below that of the base URL. The last two are not asked of the base URL itself.
NavigationFaults(task, config) ==
  IF task.goesTo.given THEN task.goesTo.faults
  ELSE config.baseFaults \cap {"traversal", "noUrl", "scheme"}

MakeNavigationStep(scenario, task, config) ==
  LET to == IF task.goesTo.given THEN "target" ELSE "base"
  IN IF NavigationFaults(task, config) # {} THEN MakeSafeCheckStep(scenario, task)
     ELSE MakeStep(scenario, task, Action("navigate", NoLocator, to),
                   {Condition("route_state", to, "matches")})

LogoutStep(scenario, task, labels) ==
  MakeStep(scenario, task, Action("click", Locator("semantic", {labels[1]}), None),
           {Condition("auth_state", None, "anonymous")})

ThemeStep(scenario, task, labels) ==
  MakeStep(scenario, task,
           Action("click", Locator("semantic", {labels[i] : i \in DOMAIN labels \cap 1..3}), None),
           {Condition("ui_state", "appearance_mode", "exists")})

DisclosureStep(scenario, task, labels) ==
  MakeStep(scenario, task, Action("click", Locator("text_any", {labels[1]}), None),
           {Condition("text_any_visible", labels[1], None)})

DataEntryStep(scenario, task, labels) ==
  MakeStep(scenario, task, Action("fill", Locator("semantic", ToSet(labels)), None),
           {Condition("field_value_contains", labels[1], None)})

AuthenticationStep(scenario, task) ==
  MakeStep(scenario, task, Action("waitForStable", NoLocator, None),
           {Condition("auth_state", None, "authenticated")})

\* Kinds whose step needs a target on the page.
TargetKinds == {"DISCLOSURE", "DATA_ENTRY", "DEAUTHENTICATION", "APPEARANCE_CHANGE"}

ContractStep(scenario, task, config, kind) ==
  LET labels == SemanticTarget(task, config)
  IN IF \/ config.auth = "none" /\ kind \in {"AUTHENTICATION", "DEAUTHENTICATION"}
        \/ kind \in {"CLASSIFICATION_FAILED", "NO_REGRESSION", "CONTENT_PRESENCE"}
        \/ kind \in TargetKinds /\ labels = <<>>
     THEN MakeSafeCheckStep(scenario, task)
     ELSE CASE kind = "AUTHENTICATION" -> AuthenticationStep(scenario, task)
            [] kind = "DEAUTHENTICATION" -> LogoutStep(scenario, task, labels)
            [] kind = "APPEARANCE_CHANGE" -> ThemeStep(scenario, task, labels)
            [] kind = "DISCLOSURE" -> DisclosureStep(scenario, task, labels)
            [] kind = "DATA_ENTRY" -> DataEntryStep(scenario, task, labels)
            [] kind = "NAVIGATION" -> MakeNavigationStep(scenario, task, config)

-----------------------------------------------------------------------------
(* A decision of the reactive mode, repaired before it is parsed. An id of *)
(* an element is a number here; a raw id may be well formed, a number in   *)
(* another form, or nothing of the kind.                                   *)

\* Actions that need an element, and those that may have one.
NeedsElement == {"click", "fill", "select", "assertText"}
RequiresElement == NeedsElement \union {"drag", "uploadFile", "richTextFill", "extract"}

\* Mutant of NormalizeElementId: a well-formed id is not looked up.
TrustsIds(raw, elements) ==
  IF raw.form = "id" \/ (raw.form = "number" /\ raw.n \in elements) THEN raw.n ELSE 0

\* 0 stands for no id.
NormalizeElementId(raw, elements) == IF raw.form # "junk" /\ raw.n \in elements THEN raw.n ELSE 0

\* The first element of the page replaces an id that is not known. An action that is still not
\* valid becomes a wait.
RepairAction(raw, elements, first) ==
  LET id == NormalizeElementId(raw.id, elements)
      target == IF raw.type \in NeedsElement /\ id = 0 THEN first ELSE id
  IN IF raw.type \in RequiresElement /\ target = 0
     THEN [type |-> "waitForStable", target |-> 0]
     ELSE [type |-> raw.type, target |-> target]

=============================================================================
