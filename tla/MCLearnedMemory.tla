-------------------------- MODULE MCLearnedMemory --------------------------
(* What is learned and what is made of it when the next pull request comes:  *)
(* four machines that share no state, of which a behaviour runs one.         *)
(* Learning: two jobs and three executions: one with locators and gaps, one  *)
(* with two warnings of one step whose ids agree and one that is the same    *)
(* twice, one with a title that is escaped.                                  *)
(* Reading: diffs of up to two of four files and three lines.                *)
(* Correlating: diffs with routes, schemas, tests and manifests, demands     *)
(* with a blank, a repeated and an unrelated criterion, a criterion that     *)
(* names a route, and searches with chunks that do and do not touch them.    *)
(* Configuring: two pull requests, on branches whose file names are alike;   *)
(* an analysis may tell a form with all of its selectors, one with some, an  *)
(* identity provider, or nothing about the login; a session is given with    *)
(* one of three ways to set up the LLM.                                      *)
EXTENDS LearnedMemory, Correlation, AutoConfig

Event(kind, step, text) == [kind |-> kind, step |-> step, text |-> text, useful |-> TRUE]

MCExecutions ==
    { << Event("outcome", "s1", "dashed"), Event("not_found", "s1", "plain"),
         [Event("locator", "s1", "plain") EXCEPT !.useful = FALSE], Event("eval", "s1", "plain") >>,
      << Event("warning", "s1", "plain"), Event("warning", "s1", "other"),
         Event("warning", "s2", "secret"), Event("locator", "s1", "plain") >>,
      << Event("locator", "s2", "plain"), Event("locator", "s2", "plain"), Event("no_memory", "q", "plain") >> }
MCHead30 == [plain |-> "h1", other |-> "h1", dashed |-> "h2", secret |-> "h3"]
MCConfigs == {[source |-> "file", writeBack |-> "db"], [source |-> "hybrid", writeBack |-> "off"]}
MCLinkedGaps == {<<"no_memory", "q">>}

Path(words, patterns, segments, schema, stem, noise) ==
    [words |-> words, patterns |-> patterns, segments |-> segments, schema |-> schema,
     stem |-> stem, noise |-> noise]
MCPaths ==
    << Path({"package"}, {}, <<>>, "", "package", "manifest"),
       Path({"src", "routes", "users", "new"}, {"route"}, <<"users", "new", "index">>, "", "", "no"),
       Path({"src", "routes", "users", "spec"}, {"route", "test"}, <<"users">>, "", "", "no"),
       Path({"src", "schemas", "user", "schema"}, {"schema"}, <<>>, "user", "", "no") >>
Text(route, words) == {Word(w) : w \in words} \cup (IF route = <<>> THEN {} ELSE RouteWord(route))
Criterion(name, words) == [name |-> name, words |-> words]
MCDemands ==
    LET c1 == Criterion("c1", Text(<<>>, {"users", "create", "account", "form"}))
        c2 == Criterion("c2", Text(<<"users", "new">>, {"open"}))
        c3 == Criterion("c3", Text(<<>>, {"user", "schema", "validates", "email", "given"}))
        c4 == Criterion("c4", Text(<<>>, {"invoice", "export"}))
        blank == Criterion(Blank, {})
    IN  { <<c1, blank, c2, c1, c3>>, <<c4, c2, c1>>, <<c3, c4>>, <<blank>> }
Chunk(id, type, relevance, title, content) ==
    [id |-> id, type |-> type, relevance |-> relevance, title |-> title, content |-> content]
MCSearches ==
    LET k1 == Chunk("k1", "route", 30, Text(<<>>, {"users"}), Text(<<"users", "new">>, {"form", "invoice"}))
        k2 == Chunk("k2", "flow", 40, Text(<<>>, {"invoice"}), Text(<<>>, {"email"}))
        k3 == Chunk("k3", "semantic_locator", 60, Text(<<>>, {"invoice"}), Text(<<>>, {"button"}))
        k4 == Chunk("k4", "scenario", 20, Text(<<>>, {"export"}), Text(<<>>, {"create"}))
    IN  { <<>>, <<k2, k1>>, <<k3, k4>> }

File(p, status, added, removed) ==
    [path |-> p, status |-> status,
     lines |-> [i \in 1 .. added + removed |->
                    [side |-> IF i <= added THEN "added" ELSE "removed", number |-> i]]]
MCDiffs ==
    { <<>>, << File(1, "modified", 1, 1) >>, << File(3, "removed", 0, 2) >>,
      << File(4, "modified", 1, 0) >> }
    \cup { << File(2, s, a, n), File(4, "modified", 1, 2) >> : s \in {"modified", "removed"},
                                                              a \in {0, 1}, n \in {0, 2} }
    \cup { << File(1, "modified", 1, 1), File(2, "added", 1, 0) >>,
           << File(2, "removed", 0, 2), File(3, "removed", 0, 2) >> }
MCHistories == { <<HistoryHeader, "failed", "failed", "blocked">> }

MCFileOf == ("a/b" :> "a-b") @@ ("a-b" :> "a-b")

Change(branch, routes, paths, url, complete) ==
    [branch |-> branch, routes |-> routes, paths |-> paths, url |-> url, complete |-> complete]
MCChanges ==
    {Change("a/b", {"/cart"}, {}, "valid", TRUE), Change("a-b", {}, {"auth"}, "valid", TRUE),
     Change("a/b", {"/help"}, {}, "none", FALSE)}

Body(auth, protected, fact) ==
    [auth |-> auth, protected |-> protected, facts |-> {fact}, noise |-> {fact}]
Login(kind, selectors, module, success) ==
    [kind |-> kind, selectors |-> selectors, module |-> module, success |-> success]
MCBodies ==
    {Body(Login("unknown", {"submit"}, {}, "none"), {}, "f1"),
     Body(Login("formLogin", {"username", "password"}, {}, "none"), {"/cart"}, "f2"),
     Body(Login("formLogin", FormSelectors, {}, "empty"), {"/cart"}, "f2"),
     Body(Login("ssoRedirect", {"loginButton", "idpUsername"}, {"auth"}, "given"), {}, "f1")}

MCEnrichments == {[routes |-> {}, noise |-> {"n1"}, scenarios |-> 99]}

MCLlms ==
    {[provider |-> "fake", fallback |-> "none", model |-> "groq"],
     [provider |-> "groq", fallback |-> "none", model |-> "groq"],
     [provider |-> "groq", fallback |-> "openrouter", model |-> "openrouter"]}

Symmetric == Permutations(Jobs) \cup Permutations(Builds)

VARIABLE machine

mcVars == <<vars, prDiffVars, correlationVars, acVars, machine>>

MCInit ==
    /\ machine \in {"learning", "reading", "correlating", "configuring"}
    /\ Init /\ PrDiffInit /\ CorrelationInit /\ AutoConfigInit
    /\ machine # "correlating" => diff = <<>>
    /\ machine # "learning" => config.source = "file"
    /\ storageState => llm.model = "openrouter"
    /\ machine # "configuring" => ~inDatabase /\ ~storageState /\ llm.provider = "fake"
                                    /\ \A k \in Keys : stored[k] = NothingKnown

MCNext ==
    /\ UNCHANGED machine
    /\ \/ machine = "learning" /\ Next /\ UNCHANGED <<prDiffVars, correlationVars, acVars>>
       \/ machine = "reading" /\ ReadDiff /\ UNCHANGED <<vars, correlationVars, acVars>>
       \/ machine = "correlating" /\ CorrelationNext /\ UNCHANGED <<vars, prDiffVars, acVars>>
       \/ machine = "configuring" /\ AutoConfigNext
            /\ UNCHANGED <<vars, prDiffVars, correlationVars>>

MCSpec == MCInit /\ [][MCNext]_mcVars
=============================================================================
