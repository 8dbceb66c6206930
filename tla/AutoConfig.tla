----------------------------- MODULE AutoConfig -----------------------------
(***************************************************************************)
(* `pipeline auto-config': the config of a run made from the preview URL,  *)
(* the change of a pull request and what the project's memory knows of the *)
(* application.  The knowledge is kept for each repository and base branch *)
(* and reused for thirty days; after that, or when there is none, the LLM  *)
(* analyses the project and the answer is merged with what was known.  The *)
(* pipelines of several pull requests share the memory and may overlap.    *)
(*                                                                         *)
(* The repository is one.  Modules, rules, flows, notes and the other      *)
(* lists that are only unioned are facts; of the enrichment the routes,    *)
(* the noise and the number of scenarios are kept.  A provider that is     *)
(* asked for a model it does not serve refuses.                            *)
(***************************************************************************)
EXTENDS Integers, FiniteSets, FiniteSetsExt, Functions

CONSTANTS
    Builds,       \* runs of auto-config
    Changes,      \* what a pull request may be: branch, routes, paths, url, complete
    FileOf,       \* base branch -> name of its file of knowledge
    Bodies,       \* what the analysis may answer
    Enrichments,  \* what the enrichment may answer
    Llms,         \* how the LLM is set up: provider, fallback, and model by the environment
    NoFallback,   \* llm.fallbackProvider is not set
    MaxMemoryFaults,  \* bound: loads and saves of the memory that fail
    MaxAges       \* bound: times thirty days pass

ASSUME AutoConfigAssumption ==
    /\ MaxMemoryFaults \in Nat /\ MaxAges \in Nat
    /\ \A c \in Changes : c.branch \in DOMAIN FileOf

VARIABLES
    llm,           \* how the LLM is set up
    inDatabase,    \* DATABASE_URL is set
    storageState,  \* QA_AGENT_STORAGE_STATE is set
    stored,        \* key -> knowledge as stored
    buildAt,       \* build -> where it is
    change,        \* build -> its pull request
    existing,      \* build -> knowledge it loaded
    knowledge,     \* build -> knowledge it goes by
    made,          \* build -> the config it makes
    ages, memoryFaults,
    told,          \* history: key -> answers that analyses gave
    analyses,      \* history: key -> analyses since thirty days last passed
    disturbed      \* history: keys a fault or two analyses at once have touched

setup == <<llm, inDatabase, storageState>>
build == <<buildAt, change, existing, knowledge, made>>
acCounters == <<ages, memoryFaults>>
acHistory == <<told, analyses, disturbed>>
acVars == <<setup, stored, build, acCounters, acHistory>>

Go(j, where) == buildAt' = [buildAt EXCEPT ![j] = where]

-----------------------------------------------------------------------------
(* Knowledge.                                                              *)

Unknown == [kind |-> "unknown", selectors |-> {}, module |-> {}, success |-> "none"]
NothingKnown == [known |-> FALSE, stale |-> FALSE, auth |-> Unknown, protected |-> {},
                 facts |-> {}, noise |-> {}]

\* The file of a branch is named by its slug, a row of the table by the branch itself.
Key(j) == IF inDatabase THEN change[j].branch ELSE FileOf[change[j].branch]
Keys == DOMAIN FileOf \cup Range(FileOf)

Answered(body) == [known |-> TRUE, stale |-> FALSE, auth |-> body.auth,
                   protected |-> body.protected, facts |-> body.facts, noise |-> body.noise]
\* An answer that does not follow the schema, and no answer at all.
Unusable == [NothingKnown EXCEPT !.known = TRUE, !.facts = {"defaults applied"}]
Silent == [NothingKnown EXCEPT !.known = TRUE]

\* Mutant of Merge: the answer replaces what was known.
MergeFresh(old, fresh) == fresh

Merge(old, fresh) ==
    [fresh EXCEPT !.auth = IF @.kind = "unknown" THEN old.auth ELSE @,
                  !.protected = @ \cup old.protected,
                  !.facts = @ \cup old.facts,
                  !.noise = @ \cup old.noise]

-----------------------------------------------------------------------------
(* The LLM.  The model is chosen by the environment, the provider by the   *)
(* config file that lies in the directory, if there is one; a model is     *)
(* named by the provider that serves it.                                   *)

\* The fake provider answers with a text that holds no JSON.
Outcomes(provider) ==
    IF provider = "fake" THEN {"garbled"}
    ELSE {"rate limited", "refused"} \cup IF provider = llm.model THEN {"answered"} ELSE {}

\* The fallback is asked only when the first provider says 429, and with the
\* model of the first.
Complete ==
    LET first == Outcomes(llm.provider)
    IN IF "rate limited" \in first /\ llm.fallback # NoFallback
       THEN (first \ {"rate limited"}) \cup Outcomes(llm.fallback)
       ELSE first

-----------------------------------------------------------------------------
(* The config.                                                             *)

TouchesProtected(c, k) == k.protected \cap c.routes # {} \/ k.auth.module \cap c.paths # {}

FormSelectors == {"username", "password", "submit"}
IdpSelectors == {"idpUsername", "idpPassword", "idpSubmit"}
NoAuth == [kind |-> "none", selectors |-> {}, success |-> "none"]

\* Mutant of Auth: the selectors need not be complete.
AuthIncomplete(c, k) ==
    CASE storageState -> [NoAuth EXCEPT !.kind = "storageState"]
      [] ~storageState /\ k.auth.kind \in {"formLogin", "ssoRedirect"} /\ TouchesProtected(c, k) ->
           [kind |-> k.auth.kind, selectors |-> k.auth.selectors, success |-> k.auth.success]
      [] OTHER -> NoAuth

\* A login is done only when the change touches what it protects and the
\* selectors it needs are known; the form of an identity provider is filled
\* only when all of its selectors are.
Auth(c, k) ==
    LET knows(needed) == needed \subseteq k.auth.selectors
        login(selectors) ==
            [kind |-> k.auth.kind, selectors |-> selectors, success |-> k.auth.success]
    IN CASE storageState -> [NoAuth EXCEPT !.kind = "storageState"]
         [] ~storageState /\ ~TouchesProtected(c, k) -> NoAuth
         [] ~storageState /\ TouchesProtected(c, k) /\ k.auth.kind = "formLogin"
              /\ knows(FormSelectors) -> login(FormSelectors)
         [] ~storageState /\ TouchesProtected(c, k) /\ k.auth.kind = "ssoRedirect"
              /\ knows({"loginButton"}) ->
                login({"loginButton"} \cup IF knows(IdpSelectors) THEN IdpSelectors ELSE {})
         [] OTHER -> NoAuth

NoConfig == [auth |-> NoAuth, routes |-> {}, noise |-> {}, scenarios |-> 0]
Plain(c, k) == [auth |-> Auth(c, k), routes |-> {}, noise |-> k.noise, scenarios |-> 0]

Enriched(c, e) == [c EXCEPT !.routes = e.routes, !.noise = @ \cup e.noise,
                            !.scenarios = IF e.scenarios = 0 THEN 0
                                          ELSE Min({20, Max({1, e.scenarios})})]

\* baseUrl must be a URL, and successWhen must name a text or a part of the URL.
IsRunConfig(c, url) == url = "valid" /\ c.auth.success # "empty"

-----------------------------------------------------------------------------
\* Nothing was analysed before, or long ago and in vain.
AutoConfigInit ==
    /\ llm \in Llms /\ inDatabase \in BOOLEAN /\ storageState \in BOOLEAN
    /\ \E old \in {NothingKnown, [Silent EXCEPT !.stale = TRUE]} : stored = [k \in Keys |-> old]
    /\ buildAt = [j \in Builds |-> "idle"]
    /\ change = [j \in Builds |-> CHOOSE c \in Changes : TRUE]
    /\ existing = [j \in Builds |-> NothingKnown]
    /\ knowledge = [j \in Builds |-> NothingKnown]
    /\ made = [j \in Builds |-> NoConfig]
    /\ ages = 0 /\ memoryFaults = 0
    /\ told = [k \in Keys |-> {}]
    /\ analyses = [k \in Keys |-> 0]
    /\ disturbed = {}

\* The preview URL is given and the artifacts of prepare can be read.
ReadInputs(j) ==
    /\ buildAt[j] = "idle"
    /\ \E c \in Changes :
         /\ change' = [change EXCEPT ![j] = c]
         /\ Go(j, IF c.complete THEN "load" ELSE "failed")
    /\ UNCHANGED <<setup, stored, existing, knowledge, made, acCounters, acHistory>>

Analysing(k) == {j \in Builds : buildAt[j] \in {"analyse", "save"} /\ Key(j) = k}

\* What is stored is reused until thirty days have passed.
Resolve(j, found) ==
    /\ existing' = [existing EXCEPT ![j] = found]
    /\ knowledge' = [knowledge EXCEPT ![j] = found]
    /\ Go(j, IF found.known /\ ~found.stale THEN "configure" ELSE "analyse")

Load(j) ==
    /\ buildAt[j] = "load"
    /\ Resolve(j, stored[Key(j)])
    /\ disturbed' = disturbed \cup IF Analysing(Key(j)) # {} THEN {Key(j)} ELSE {}
    /\ UNCHANGED <<setup, stored, change, made, acCounters, told, analyses>>

\* A memory that cannot be read counts as empty.
LoadFails(j) ==
    /\ buildAt[j] = "load"
    /\ memoryFaults < MaxMemoryFaults
    /\ memoryFaults' = memoryFaults + 1
    /\ Resolve(j, NothingKnown)
    /\ disturbed' = disturbed \cup {Key(j)}
    /\ UNCHANGED <<setup, stored, change, made, ages, told, analyses>>

\* No failure of the LLM stops the build, and the date is of today either way.
Analyse(j) ==
    /\ buildAt[j] = "analyse"
    /\ \E fresh \in {Answered(body) : body \in IF "answered" \in Complete THEN Bodies ELSE {}}
                    \cup {Silent} \cup IF "answered" \in Complete THEN {Unusable} ELSE {} :
         /\ knowledge' = [knowledge EXCEPT ![j] =
                            IF existing[j].known THEN Merge(existing[j], fresh) ELSE fresh]
         /\ told' = [told EXCEPT ![Key(j)] = @ \cup {fresh}]
    /\ analyses' = [analyses EXCEPT ![Key(j)] = @ + 1]
    /\ Go(j, "save")
    /\ UNCHANGED <<setup, stored, change, existing, made, acCounters, disturbed>>

Save(j) ==
    /\ buildAt[j] = "save"
    /\ stored' = [stored EXCEPT ![Key(j)] = knowledge[j]]
    /\ Go(j, "configure")
    /\ UNCHANGED <<setup, change, existing, knowledge, made, acCounters, acHistory>>

SaveFails(j) ==
    /\ buildAt[j] = "save"
    /\ memoryFaults < MaxMemoryFaults
    /\ memoryFaults' = memoryFaults + 1
    /\ disturbed' = disturbed \cup {Key(j)}
    /\ Go(j, "configure")
    /\ UNCHANGED <<setup, stored, change, existing, knowledge, made, ages, told, analyses>>

Configure(j) ==
    /\ buildAt[j] = "configure"
    /\ made' = [made EXCEPT ![j] = Plain(change[j], knowledge[j])]
    /\ Go(j, "enrich")
    /\ UNCHANGED <<setup, stored, change, existing, knowledge, acCounters, acHistory>>

\* Without a usable answer the config stays as it is.
Enrich(j) ==
    /\ buildAt[j] = "enrich"
    /\ \/ /\ "answered" \in Complete
          /\ \E e \in Enrichments : made' = [made EXCEPT ![j] = Enriched(@, e)]
       \/ UNCHANGED made
    /\ Go(j, "write")
    /\ UNCHANGED <<setup, stored, change, existing, knowledge, acCounters, acHistory>>

Write(j) ==
    /\ buildAt[j] = "write"
    /\ Go(j, IF IsRunConfig(made[j], change[j].url) THEN "done" ELSE "failed")
    /\ UNCHANGED <<setup, stored, change, existing, knowledge, made, acCounters, acHistory>>

\* Knowledge thirty days later.
Aged(r) == [r EXCEPT !.stale = r.known]

\* Thirty days pass; what builds hold in memory ages as well.
Age ==
    /\ ages < MaxAges
    /\ ages' = ages + 1
    /\ stored' = [k \in Keys |-> Aged(stored[k])]
    /\ knowledge' = [j \in Builds |-> Aged(knowledge[j])]
    /\ existing' = [j \in Builds |-> Aged(existing[j])]
    /\ analyses' = [k \in Keys |-> 0]
    /\ UNCHANGED <<setup, buildAt, change, made, memoryFaults, told, disturbed>>

Build(j) ==
    \/ ReadInputs(j) \/ Load(j) \/ LoadFails(j) \/ Analyse(j) \/ Save(j) \/ SaveFails(j)
    \/ Configure(j) \/ Enrich(j) \/ Write(j)

AutoConfigNext == Age \/ \E j \in Builds : Build(j)
AutoConfigSpec == AutoConfigInit /\ [][AutoConfigNext]_acVars

-----------------------------------------------------------------------------
(* Properties                                                              *)

Saving(k) == \E j \in Builds : buildAt[j] = "save" /\ Key(j) = k
ToldAuths(k) == {m \in {a.auth : a \in told[k]} : m.kind # "unknown"}

\* The memory forgets nothing: when no load or save of it failed and no two
\* analyses overlapped, it holds every fact, noise and protected module that
\* any analysis told, and a login method as long as one was told
\* (ProjectMemoryManagerService.resolve and mergeKnowledge).
KnowledgeKept ==
    \A k \in Keys : told[k] # {} /\ k \notin disturbed /\ ~Saving(k) =>
        /\ stored[k].facts = UNION {a.facts : a \in told[k]}
        /\ stored[k].noise = UNION {a.noise : a \in told[k]}
        /\ stored[k].protected = UNION {a.protected : a \in told[k]}
        /\ IF ToldAuths(k) = {} THEN stored[k].auth.kind = "unknown" ELSE stored[k].auth \in ToldAuths(k)

\* A run logs in only by a method an analysis told, with selectors that
\* analysis told, all the form needs, and only when the change of the pull
\* request touches something an analysis said the login protects
\* (AutoConfigBuilderService.computeAuth).
LoginWasTold ==
    \A j \in Builds :
        buildAt[j] = "done" /\ made[j].auth.kind \in {"formLogin", "ssoRedirect"} =>
            /\ \E a \in ToldAuths(Key(j)) :
                 /\ a.kind = made[j].auth.kind
                 /\ made[j].auth.selectors \subseteq a.selectors
                 /\ \/ a.module \cap change[j].paths # {}
                    \/ \E b \in told[Key(j)] : b.protected \cap change[j].routes # {}
            /\ IF made[j].auth.kind = "formLogin"
               THEN made[j].auth.selectors = FormSelectors
               ELSE made[j].auth.selectors \cap IdpSelectors \in {{}, IdpSelectors}

\* The project of a branch is analysed once in thirty days, whatever the LLM
\* answers, unless the memory failed or two builds found it out of date at once.
AnalysedOnce == \A k \in Keys \ disturbed : analyses[k] <= 1

=============================================================================
