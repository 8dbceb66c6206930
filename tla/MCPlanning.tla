----------------------------- MODULE MCPlanning -----------------------------
(* Planning on small catalogues, with the answers that the policy and the repair tell apart.  *)
EXTENDS Planning

Task(id, outcome, label, expected) ==
  [id |-> id, outcome |-> outcome, labels |-> <<label>>, expected |-> expected,
   goesTo |-> [given |-> FALSE, faults |-> {}]]
GoesTo(task, faults) == [task EXCEPT !.goesTo = [given |-> TRUE, faults |-> faults]]
Scenario(id, tasks) == [id |-> id, tasks |-> tasks]

MCCatalogues ==
  {<<>>,
   <<Scenario("S1", <<Task("T1", "DEAUTHENTICATION", "Sair", "Sair"),
                      Task("T2", None, "Salvar", "Salvar")>>)>>,
   <<Scenario("S1", <<Task("T1", "NAVIGATION", "Salvar", "Salvar")>>)>>,
   <<Scenario("S1", <<GoesTo(Task("T1", "NAVIGATION", "Salvar", "Salvar"), {"host"})>>),
     Scenario("S2", <<Task("T1", "APPEARANCE_CHANGE", "Tema", "Tema")>>)>>,
   <<Scenario("S2", <<Task("T1", "DATA_ENTRY", "email", "Salvar"),
                      Task("T2", "DISCLOSURE", "Excluir", "Salvar"),
                      Task("T3", "AUTHENTICATION", "x", "Salvar")>>)>>}

Config0 == [auth |-> "form", strategy |-> "llm_with_factory_fallback", provider |-> "groq",
            key |-> TRUE, destructive |-> "BLOCK", baseFaults |-> {}]

Configs ==
  {[Config0 EXCEPT !.auth = a, !.strategy = st] :
     a \in {"none", "form"}, st \in {"factory_first", "llm_with_factory_fallback"}}
  \union {[Config0 EXCEPT !.provider = "openai"], [Config0 EXCEPT !.provider = "fake"],
          [Config0 EXCEPT !.key = FALSE, !.destructive = "ALLOW", !.baseFaults = {"scheme"}],
          [Config0 EXCEPT !.key = FALSE, !.strategy = "factory_first"]}

MCRequests ==
  [kind : {"plan"}, demand : {"D"}, config : Configs, scenarios : MCCatalogues,
   elements : {{}}, first : {0}]
  \union [kind : {"decide"}, demand : {"D"}, config : Configs, scenarios : {<<>>},
          elements : {{1, 2}}, first : {1}]
  \union [kind : {"decide"}, demand : {"D"}, config : Configs, scenarios : {<<>>},
          elements : {{}}, first : {0}]

Step(task, action, posts) ==
  [scenario |-> "S1", task |-> task, action |-> action, posts |-> posts, isFallback |-> FALSE]

Clicks == {Action("click", Locator("text", {t}), None) : t \in {"Sair", "Entrar", "theme"}}
Others == {Action("navigate", NoLocator, None), Action("navigate", NoLocator, "login"),
           Action("fill", Locator("role", {}), None), Action("click", NoLocator, None),
           Action("waitForStable", NoLocator, None)}
Posts == {{}, {Condition("auth", None, None)}, {Condition("ui_state", None, "changed")},
          {Condition("ui_state", None, "blue")},
          {Condition("route", "/login", None)}, {Condition("route", None, None)},
          {Condition("storage_state", "theme", "changed")}, {Condition("text", None, None)}}

MCPlanAnswers ==
  {<<Step(task, action, posts)>> : task \in {"T1", "T9"}, action \in Clicks \union Others,
                                   posts \in Posts}
  \union {<<Step("T1", Action("navigate", NoLocator, None), {Condition("url", "/", None)}),
            Step("T1", action, posts)>> : action \in Clicks, posts \in Posts}

MCOutcomeAnswers == {"DEAUTHENTICATION", "NO_REGRESSION", "DATA_ENTRY"}

MCDecisionAnswers ==
  {[type |-> type, id |-> id] : type \in {"click", "press", "drag"},
     id \in {[form |-> "id", n |-> 2], [form |-> "id", n |-> 9], [form |-> "number", n |-> 1],
             [form |-> "junk", n |-> 0]}}
=============================================================================
