------------------------------ MODULE Elements ------------------------------
(***************************************************************************)
(* One step of a plan that clicks on or fills an element of a page that    *)
(* may change at any moment: the executors (PlanExecutorService, and the   *)
(* graph in the same way) observe the page and look the target up, open    *)
(* the menus that may hide it (ElementAvailabilityResolver), ask the LLM   *)
(* when it is not found, and give the number of an element to the harness. *)
(*                                                                         *)
(* PlaywrightHarness and LocatorResolverService each keep the elements of  *)
(* the observation they saw last; what a number means to the harness is    *)
(* for its own last observation to say.  The accessibility tree and the    *)
(* DOM are read one after the other.  What an executor does with a step    *)
(* that fails is in PlanExecutor and PlanGraph.                            *)
(***************************************************************************)
EXTENDS Locators

CONSTANTS
    Pages,            \* page -> sequence of its nodes
    Leads,            \* <<page, node clicked>> -> the page it leads to
    StartPages,       \* pages a step may start on
    Steps,            \* what a step may be: type and target
    Enabled,          \* config.runtime.elementAvailability
    MaxOpenAttempts,
    Containers,       \* allowedContainers: key and locator of the trigger
    KeywordMappings,  \* sequence of words and the keys of the containers they mean
    MaxAttempts,      \* attempts at the step
    MaxMoves          \* bound: times the page changes by itself

\* The locators a target consists of.
Plain(target) ==
    CASE target.by = "semantic" -> {target.candidates[i] : i \in DOMAIN target.candidates}
      [] target.by = "index" -> {target.target}
      [] OTHER -> {target}

ASSUME ElementsAssumption ==
    /\ MaxOpenAttempts \in Nat /\ MaxAttempts \in Nat \ {0} /\ MaxMoves \in Nat
    /\ StartPages \subseteq DOMAIN Pages /\ Enabled \in BOOLEAN
    /\ "none" \notin DOMAIN Pages
    /\ \A p \in DOMAIN Pages : Pages[p] \in Seq({Pages[p][i] : i \in DOMAIN Pages[p]})
    /\ \A x \in DOMAIN Leads : Leads[x] \in DOMAIN Pages
    /\ \A s \in Steps :
        /\ s.target.by = "semantic" => s.target.candidates \in Seq(Plain(s.target))
        /\ s.target.by = "index" => s.target.n \in Nat
        /\ \A l \in Plain(s.target) :
            /\ IsFiniteSet(l.texts) /\ \A t \in l.texts : IsFiniteSet(t)
            /\ l.by \in {"text", "label", "placeholder", "testid"} => l.texts # {}

VARIABLES
    page,        \* the page shown
    moves,       \* how often it has changed by itself
    asked,       \* the step asked for
    where,       \* where the executor is
    tries,       \* the attempt it is in
    ax,          \* what was read of the accessibility tree, and of which page
    purpose,     \* what the page is observed for: an attempt or the search
    before,      \* the observation of the executor
    current,     \* the observation of the search
    harness,     \* the last observation of the harness
    resolver,    \* the last observation of the resolver
    proactive,   \* the search comes before the target is looked up
    opened,      \* containers the search has opened
    action,      \* the action: the number, and where it comes from
    acted        \* history: what the last action reached

observations == <<before, current, harness, resolver>>
elVars == <<page, moves, asked, where, tries, ax, purpose, observations, proactive,
            opened, action, acted>>

Target == asked.target
NoObservation == [id |-> 0, at |-> "none", elements |-> <<>>, target |-> 0, trigger |-> 0]
NotRead == [at |-> "none", elements |-> <<>>]
NoAction == [number |-> 0, seen |-> NoObservation, by |-> "none"]
NotActed == [how |-> "none"]

ElementsInit ==
    /\ page \in StartPages
    /\ moves = 0
    /\ asked \in Steps
    /\ where = "ax"
    /\ tries = 1
    /\ ax = NotRead
    /\ purpose = "attempt"
    /\ before = NoObservation /\ current = NoObservation
    /\ harness = NoObservation /\ resolver = NoObservation
    /\ proactive = FALSE
    /\ opened = 0
    /\ action = NoAction
    /\ acted = NotActed

\* The page changes by itself.
Move ==
    /\ moves < MaxMoves
    /\ \E p \in DOMAIN Pages \ {page} : page' = p
    /\ moves' = moves + 1
    /\ UNCHANGED <<asked, where, tries, ax, purpose, observations, proactive, opened, action, acted>>

-----------------------------------------------------------------------------
(* Observing.  A page that is still loading is observed again, which is an *)
(* observation made later.                                                 *)

Words(l) ==
    CASE l.by = "semantic" -> UNION {UNION l.candidates[i].texts : i \in DOMAIN l.candidates}
      [] l.by = "index" -> {}
      [] OTHER -> UNION l.texts

\* The container the words of the target stand for, or else the first.
PickContainer ==
    LET match(m) == IF Words(Target) \cap m.words = {} THEN 0
                    ELSE SelectInSeq(Containers, LAMBDA c : c.key \in m.keys)
        matches == [i \in DOMAIN KeywordMappings |-> match(KeywordMappings[i])]
    IN IF FirstNonZero(matches) # 0 THEN FirstNonZero(matches)
       ELSE IF Containers = <<>> THEN 0 ELSE 1

\* An id that no observation has that is still known.
NewId == CHOOSE id \in 1 .. 4 : id \notin {before.id, current.id, harness.id, resolver.id}

\* What is seen, and of which page unless it changed in between; with it the
\* numbers of the target and of the trigger of the container, 0 if there are none.
Seen(elements) ==
    [id |-> NewId, at |-> IF ax.at = page THEN page ELSE "none", elements |-> elements,
     target |-> FindByLocator(elements, Target),
     trigger |-> IF PickContainer = 0 THEN 0
                 ELSE FindByLocator(elements, Containers[PickContainer].trigger)]

\* What an attempt has seen and decided is gone when the next one begins.
ReadAx ==
    /\ where = "ax"
    /\ \E elements \in {AxElements(Pages[page]), <<>>} :
         ax' = [at |-> page, elements |-> elements]
    /\ where' = "dom"
    /\ IF purpose = "attempt"
       THEN /\ before' = NoObservation /\ current' = NoObservation
            /\ action' = NoAction /\ acted' = NotActed
            /\ proactive' = FALSE /\ opened' = 0
       ELSE UNCHANGED <<before, current, action, acted, proactive, opened>>
    /\ UNCHANGED <<page, moves, asked, tries, purpose, harness, resolver>>

\* Mutant of ReadDom: the search does not tell the resolver what it sees.
ReadDomForgetting ==
    /\ where = "dom"
    /\ \E elements \in {DomElements(Pages[page]), <<>>} :
         LET seen == Seen(Observed(ax.elements, elements))
         IN /\ harness' = seen
            /\ resolver' = IF purpose = "attempt" THEN seen ELSE resolver
            /\ IF purpose = "attempt"
               THEN before' = seen /\ where' = "observed" /\ UNCHANGED current
               ELSE current' = seen /\ where' = "search" /\ UNCHANGED before
    /\ ax' = NotRead
    /\ UNCHANGED <<page, moves, asked, tries, purpose, proactive, opened, action, acted>>

\* Mutant of ReadDom: the harness keeps the numbers it gave before the search.
ReadDomRemembering ==
    /\ where = "dom"
    /\ \E elements \in {DomElements(Pages[page]), <<>>} :
         LET seen == Seen(Observed(ax.elements, elements))
         IN /\ harness' = IF purpose = "attempt" THEN seen
                          ELSE [seen EXCEPT !.elements = harness.elements]
            /\ resolver' = seen
            /\ IF purpose = "attempt"
               THEN before' = seen /\ where' = "observed" /\ UNCHANGED current
               ELSE current' = seen /\ where' = "search" /\ UNCHANGED before
    /\ ax' = NotRead
    /\ UNCHANGED <<page, moves, asked, tries, purpose, proactive, opened, action, acted>>

ReadDom ==
    /\ where = "dom"
    /\ \E elements \in {DomElements(Pages[page]), <<>>} :
         LET seen == Seen(Observed(ax.elements, elements))
         IN /\ harness' = seen
            /\ resolver' = seen
            /\ IF purpose = "attempt"
               THEN before' = seen /\ where' = "observed" /\ UNCHANGED current
               ELSE current' = seen /\ where' = "search" /\ UNCHANGED before
    /\ ax' = NotRead
    /\ UNCHANGED <<page, moves, asked, tries, purpose, proactive, opened, action, acted>>

ObserveThrows ==
    /\ where \in {"ax", "dom"}
    /\ where' = "thrown"
    /\ UNCHANGED <<page, moves, asked, tries, ax, purpose, observations, proactive,
                   opened, action, acted>>

-----------------------------------------------------------------------------
(* Looking the target up.                                                  *)

\* The number of the target in an observation, which must be the current one.
Resolved(seen) == IF seen.id = resolver.id THEN seen.target ELSE 0

Choose(seen, number, by) == action' = [number |-> number, seen |-> seen, by |-> by]

StartSearch(early) ==
    /\ where' = "search"
    /\ current' = before
    /\ opened' = 0
    /\ proactive' = early

\* A click is preceded by a search for its target.
BeforeResolve ==
    /\ where = "observed"
    /\ \/ asked.type = "click" /\ Enabled /\ StartSearch(TRUE)
       \/ /\ ~(asked.type = "click" /\ Enabled)
          /\ where' = "resolve"
          /\ UNCHANGED <<current, opened, proactive>>
    /\ UNCHANGED <<page, moves, asked, tries, ax, purpose, before, harness, resolver,
                   action, acted>>

Resolve ==
    /\ where = "resolve"
    /\ IF Resolved(before) # 0
       THEN /\ Choose(before, Resolved(before), "resolver")
            /\ where' = "act"
            /\ UNCHANGED <<current, opened, proactive>>
       ELSE StartSearch(FALSE) /\ UNCHANGED action
    /\ UNCHANGED <<page, moves, asked, tries, ax, purpose, before, harness, resolver,
                   acted>>

-----------------------------------------------------------------------------
(* Opening the menus that may hide the target.                             *)

Exists(seen) == seen.target # 0

\* What a click on an element of the harness reaches now, and where it leads.
Reached(number) ==
    IF number \in DOMAIN harness.elements
    THEN Reach(Pages[page], harness.elements[number].locator) ELSE Nothing

Follow(node) ==
    LET next == IF node # Nothing /\ <<page, node.uid>> \in DOMAIN Leads
                THEN Leads[<<page, node.uid>>] ELSE page
    IN page' = next

MayOpen == Enabled /\ opened < MaxOpenAttempts /\ current.trigger # 0

\* Mutant of OpenContainer: nobody counts the attempts.
OpenContainerUncounted ==
    /\ where = "search" /\ ~Exists(current) /\ MayOpen
    /\ Follow(Reached(current.trigger)) \/ UNCHANGED page
    /\ purpose' = "search"
    /\ where' = "ax"
    /\ UNCHANGED <<moves, asked, tries, ax, observations, proactive, opened, action, acted>>

\* A container is opened again when the target does not show, which may close it.
OpenContainer ==
    /\ where = "search" /\ ~Exists(current) /\ MayOpen
    /\ Follow(Reached(current.trigger)) \/ UNCHANGED page
    /\ opened' = opened + 1
    /\ purpose' = "search"
    /\ where' = "ax"
    /\ UNCHANGED <<moves, asked, tries, ax, observations, proactive, action, acted>>

Found ==
    /\ where = "search" /\ Exists(current)
    /\ before' = current
    /\ IF proactive THEN where' = "resolve" /\ UNCHANGED action
       ELSE IF Resolved(current) # 0
       THEN Choose(current, Resolved(current), "resolver") /\ where' = "act"
       ELSE where' = "unresolved" /\ UNCHANGED action
    /\ UNCHANGED <<page, moves, asked, tries, ax, purpose, current, harness, resolver,
                   proactive, opened, acted>>

\* The executor goes on with the newer observation after the search before the
\* look-up, and with the one it had after the search that follows it.
NotFound ==
    /\ where = "search" /\ ~Exists(current) /\ ~MayOpen
    /\ before' = IF proactive THEN current ELSE before
    /\ where' = IF proactive THEN "resolve" ELSE "llm"
    /\ UNCHANGED <<page, moves, asked, tries, ax, purpose, current, harness, resolver,
                   proactive, opened, action, acted>>

\* The LLM names an element of the observation it is shown, or has none.
ResolveViaLlm ==
    /\ where = "llm"
    /\ \/ where' = "failed" /\ UNCHANGED action
       \/ /\ \E number \in DOMAIN before.elements : Choose(before, number, "llm")
          /\ where' = "act"
    /\ UNCHANGED <<page, moves, asked, tries, ax, purpose, observations, proactive,
                   opened, acted>>

-----------------------------------------------------------------------------
(* Acting.                                                                 *)

Did(how, node) ==
    acted' = [how |-> how, node |-> node, at |-> page, by |-> action.by,
              element |-> action.seen.elements[action.number],
              seen |-> action.seen.at, current |-> action.seen.id = harness.id]

AfterAttempt ==
    IF tries < MaxAttempts
    THEN tries' = tries + 1 /\ purpose' = "attempt" /\ where' = "ax"
    ELSE where' = "failed" /\ UNCHANGED <<tries, purpose>>

\* What is not reached in time is an error; what is reached may not have had
\* the effect the step is after.
Click ==
    /\ where = "act" /\ asked.type = "click"
    /\ \/ /\ Reached(action.number) # Nothing
          /\ Did("number", Reached(action.number))
          /\ Follow(Reached(action.number))
          /\ (where' = "done" /\ UNCHANGED <<tries, purpose>>) \/ AfterAttempt
       \/ /\ Reached(action.number) = Nothing
          /\ AfterAttempt
          /\ UNCHANGED <<acted, page>>
    /\ UNCHANGED <<moves, asked, ax, observations, proactive, opened, action>>

\* What cannot be filled makes the largest field take the value.
Fill ==
    /\ where = "act" /\ asked.type = "fill"
    /\ \/ /\ Reached(action.number) # Nothing
          /\ Did("number", Reached(action.number))
       \/ Did("largest", LargestEditable(Pages[page]))
    /\ (where' = "done" /\ UNCHANGED <<tries, purpose>>) \/ AfterAttempt
    /\ UNCHANGED <<page, moves, asked, ax, observations, proactive, opened, action>>

Executor ==
    \/ ObserveThrows \/ ReadAx \/ ReadDom \/ BeforeResolve \/ Resolve
    \/ OpenContainer \/ NotFound \/ Found \/ ResolveViaLlm \/ Click \/ Fill

ElementsNext == Move \/ Executor

\* Nothing is assumed of the page; the executor does not stop in the middle.
ElementsSpec == ElementsInit /\ [][ElementsNext]_elVars /\ WF_elVars(Executor)

-----------------------------------------------------------------------------
(* Properties.                                                             *)

\* What is reached through a number answers to the locator of the element the
\* number was chosen for, however often the numbers were given anew in between.
\* An answer of the LLM is left out when the search before it has given them anew.
ActsOnWhatWasSeen ==
    acted.how = "number" /\ (acted.by = "llm" => acted.current) =>
        Matches(acted.node, acted.element.locator)

RolesOf(node) == {node.role, node.domRole, NormalizeRole(node.role)} \ {"none"}

\* The description of no node fits another one of the page.
Clear(nodes) ==
    \A i, j \in DOMAIN nodes : i # j =>
        LET m == nodes[i] n == nodes[j]
        IN /\ RolesOf(m) \cap RolesOf(n) # {} =>
                /\ ~(m.name \subseteq n.name)
                /\ m.tag \notin {"textarea", "contenteditable"}
           /\ m.testid # {} => m.testid # n.testid
           /\ m.label # {} => ~(m.label \subseteq n.label)
           /\ m.placeholder # {} => ~(m.placeholder \subseteq n.placeholder)

\* On a page where no description fits two nodes, and that has not changed since
\* it was read, the node that is reached is the one the element was made from.
ReachesTheElement ==
    acted.how = "number" /\ acted.current /\ acted.seen = acted.at /\ Clear(Pages[acted.at]) =>
        acted.node.uid = acted.element.node

\* What the search says is there can be looked up: the executor does not fall
\* over an observation that is not current.
FoundCanBeResolved == where # "unresolved"

\* An element has a word of the locator, or is what the locator asks for by its
\* role alone; the locator may also ask for any field or anything to click, or
\* have a text without a word, which is part of any other.
Related(e, l) ==
    \/ e.locator = l
    \/ \E t \in l.texts : t = {} \/ t \cap (e.name \cup e.text) # {}
    \/ (UNION l.texts) \cap (FillWords \cup ClickWords) # {}
    \/ l.by = "role" /\ l.texts = {} /\ e.role = l.role

\* An element that was looked up has to do with the target, one of its candidates
\* if it has some.
ChosenIsRelated ==
    action.by = "resolver" =>
        \E l \in Plain(Target) : Related(action.seen.elements[action.number], l)

\* What is acted on is what was asked for: a target is taken for an element it
\* has to do with, and that element is reached by its locator always, and as the
\* very node where the page leaves no doubt and stays as it is.
ActsOnWhatWasChosen ==
    ActsOnWhatWasSeen /\ ReachesTheElement /\ FoundCanBeResolved /\ ChosenIsRelated

\* An attempt ends, with a page that stays as it is too.
StepEnds == <>(where \in {"done", "failed", "thrown", "unresolved"})
=============================================================================
