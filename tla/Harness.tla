------------------------------ MODULE Harness ------------------------------
(***************************************************************************)
(* PlaywrightHarness (infra/playwright/playwright-harness.ts): the one     *)
(* browser, context and page that every run of the process shares.  The    *)
(* harness is a singleton of the container and neither the daemon          *)
(* (api/api.service.ts) nor the timer of a run keeps a second run from     *)
(* starting while the first still uses it, so each operation is modelled   *)
(* with its awaits as separate steps and the runs interleave.              *)
(*                                                                         *)
(* A job is one run: it opens the harness, observes and acts, and closes.  *)
(* The fields of the harness are the variables of the same name; alive,    *)
(* contexts and pages are what really exists in the world of Playwright.   *)
(* The two usability checks of ensurePage are one instant.  The login is   *)
(* in module Session, other tabs are in Tabs, locators in Elements.        *)
(* Closing a browser that runs succeeds.                                   *)
(***************************************************************************)
EXTENDS Naturals, FiniteSets

CONSTANTS
  Jobs,       \* the runs of the process
  None,       \* undefined
  MaxOps,     \* bound: calls of observe and execute in each run
  MaxFaults   \* bound: pages, contexts and browsers that go away by themselves

ASSUME HarnessAssumption == None \notin Jobs /\ MaxOps \in Nat /\ MaxFaults \in Nat

VARIABLES
  browser, context, page,  \* this.browser (the job that launched it), this.context, this.page
  configured,              \* this.config is set
  inFlight, recovering,    \* the two flags
  alive,                   \* browsers that run
  contexts, pages,         \* contexts and pages that are open
  made,                    \* number of contexts and pages made, to name the next
  pc,                      \* where each job is
  purpose,                 \* who called createContextAndPage: open or recoverPage
  held,                    \* the page or the old context a job holds over an await
  ops,                     \* number of operations each job has begun
  faults,                  \* number of faults so far
  overlapped               \* history: two jobs were active at once

fields == <<browser, context, page, configured>>
world == <<alive, contexts, pages, made>>
locals == <<pc, purpose, held, ops>>
vars == <<fields, inFlight, recovering, world, locals, faults, overlapped>>

Active(j) == pc[j] \notin {"idle", "done"}
Go(j, where) == pc' = [pc EXCEPT ![j] = where]
Hold(j, x) == held' = [held EXCEPT ![j] = x]
Connected == browser \in alive
PageOpen == page \in pages
Renewing == {"discarding", "creating", "paging", "navigating"}

\* Nothing is open, and every job is at the place.
Fresh(where) ==
  /\ browser = None /\ context = None /\ page = None /\ configured = FALSE
  /\ inFlight = FALSE /\ recovering = FALSE
  /\ alive = {} /\ contexts = {} /\ pages = {} /\ made = 0
  /\ pc = [j \in Jobs |-> where]
  /\ purpose = [j \in Jobs |-> "open"]
  /\ held = [j \in Jobs |-> None]
  /\ ops = [j \in Jobs |-> 0]
  /\ faults = 0 /\ overlapped = FALSE

Init == Fresh("idle")

---------------------------------------------------------------------------
(* open, and createContextAndPage, which recoverPage calls as well          *)

Open(j) ==
  /\ pc[j] = "idle"
  /\ Go(j, "launching")
  /\ configured' = TRUE
  /\ overlapped' = (overlapped \/ \E k \in Jobs : Active(k))
  /\ UNCHANGED <<browser, context, page, inFlight, recovering, world, purpose, held, ops, faults>>

\* The old context is dropped at once and closed over an await.
BeginContext(j) ==
  IF Connected
  THEN /\ context' = None
       /\ Hold(j, context)
       /\ Go(j, "discarding")
  ELSE /\ Go(j, "closing")
       /\ UNCHANGED <<context, held>>

LaunchFails(j) ==
  /\ pc[j] = "launching"
  /\ Go(j, "closing")
  /\ UNCHANGED <<fields, inFlight, recovering, world, purpose, held, ops, faults, overlapped>>

\* this.browser is overwritten, whatever it was.
Launched(j) ==
  /\ pc[j] = "launching"
  /\ browser' = j
  /\ alive' = alive \cup {j}
  /\ context' = None
  /\ purpose' = [purpose EXCEPT ![j] = "open"]
  /\ Hold(j, context)
  /\ Go(j, "discarding")
  /\ UNCHANGED <<page, configured, inFlight, recovering, contexts, pages, made, ops, faults, overlapped>>

\* Mutant of Throws: recovering is not reset in a finally block.
ThrowsRecovering(j) == Go(j, "closing") /\ UNCHANGED recovering

\* Mutant of Discarded: the old context is forgotten, not closed.
DiscardedOpen(j) ==
  /\ pc[j] = "discarding"
  /\ Go(j, "creating")
  /\ UNCHANGED <<fields, inFlight, recovering, world, purpose, held, ops, faults, overlapped>>

\* The error of createContextAndPage: recoverPage resets its flag and observe
\* turns the error into a fatal one; either way the run goes to its finally
\* block, which closes the harness.
Throws(j) ==
  /\ Go(j, "closing")
  /\ recovering' = (recovering /\ purpose[j] = "open")

Discarded(j) ==
  /\ pc[j] = "discarding"
  /\ contexts' = contexts \ {held[j]}
  /\ pages' = {p \in pages : p.in # held[j]}
  /\ Go(j, "creating")
  /\ UNCHANGED <<fields, inFlight, recovering, alive, made, purpose, held, ops, faults, overlapped>>

NewContext(j) ==
  /\ pc[j] = "creating"
  /\ \/ /\ Connected
        /\ context' = [of |-> browser, id |-> made]
        /\ contexts' = contexts \cup {context'}
        /\ made' = made + 1
        /\ Go(j, "paging")
        /\ UNCHANGED recovering
     \/ /\ ~Connected
        /\ Throws(j)
        /\ UNCHANGED <<context, contexts, made>>
  /\ UNCHANGED <<browser, page, configured, inFlight, alive, pages, purpose, held, ops, faults, overlapped>>

NewPage(j) ==
  /\ pc[j] = "paging"
  /\ \/ /\ context \in contexts
        /\ page' = [in |-> context, id |-> made]
        /\ pages' = pages \cup {page'}
        /\ made' = made + 1
        /\ Go(j, "navigating")
        /\ UNCHANGED recovering
     \/ /\ context \notin contexts
        /\ Throws(j)
        /\ UNCHANGED <<page, pages, made>>
  /\ UNCHANGED <<browser, context, configured, inFlight, alive, contexts, purpose, held, ops, faults, overlapped>>

Opened(j) ==
  /\ pc[j] = "navigating" /\ purpose[j] = "open"
  /\ \E where \in {"ready", "closing"} : Go(j, where)
  /\ UNCHANGED <<fields, inFlight, recovering, world, purpose, held, ops, faults, overlapped>>

---------------------------------------------------------------------------
(* observe, ensurePage and recoverPage                                      *)

Observe(j) ==
  /\ pc[j] = "ready" /\ ops[j] < MaxOps
  /\ ops' = [ops EXCEPT ![j] = @ + 1]
  /\ Go(j, "checking")
  /\ UNCHANGED <<fields, inFlight, recovering, world, purpose, held, faults, overlapped>>

\* return this.mustPage()
LookAtPage(j) ==
  IF page = None
  THEN Go(j, "closing") /\ UNCHANGED held
  ELSE Go(j, "looking") /\ Hold(j, page)

Usable(j) ==
  /\ pc[j] \in {"checking", "waiting"} /\ PageOpen
  /\ LookAtPage(j)
  /\ UNCHANGED <<fields, inFlight, recovering, world, purpose, ops, faults, overlapped>>

\* recoverPage keeps the page, or another one of the context, or makes new ones.
Recover(j) ==
  LET kept == IF PageOpen THEN {page} ELSE {p \in pages : p.in = context}
  IN /\ purpose' = [purpose EXCEPT ![j] = "recovery"]
     /\ recovering' = (kept # {} \/ Connected)
     /\ \/ /\ page' \in kept
           /\ Go(j, "reusing")
           /\ UNCHANGED <<context, held>>
        \/ /\ kept = {}
           /\ BeginContext(j)
           /\ UNCHANGED page

Unusable(j) ==
  /\ pc[j] = "checking"
  /\ \/ /\ ~(configured /\ Connected)
        /\ Go(j, "closing")
        /\ UNCHANGED <<context, page, recovering, purpose, held>>
     \/ /\ configured /\ Connected /\ recovering
        /\ Go(j, "waiting")
        /\ UNCHANGED <<context, page, recovering, purpose, held>>
     \/ /\ configured /\ Connected /\ ~recovering
        /\ Recover(j)
  /\ UNCHANGED <<browser, configured, inFlight, world, ops, faults, overlapped>>

\* waitWhileRecovering ends with the recovery or after five seconds; a second
\* recovery returns at once.
Awake(j) ==
  /\ pc[j] = "waiting"
  /\ IF recovering
     THEN LookAtPage(j) /\ UNCHANGED <<context, page, recovering, purpose>>
     ELSE Recover(j)
  /\ UNCHANGED <<browser, configured, inFlight, world, ops, faults, overlapped>>

Recovered(j) ==
  /\ pc[j] = "reusing" \/ (pc[j] = "navigating" /\ purpose[j] = "recovery")
  /\ recovering' = FALSE
  /\ LookAtPage(j)
  /\ UNCHANGED <<fields, inFlight, world, purpose, ops, faults, overlapped>>

\* Mutant of Looked: an observation that fails is tried again without a limit.
LookedAgain(j) ==
  /\ pc[j] = "looking"
  /\ \/ held[j] \in pages /\ Go(j, "ready")
     \/ Go(j, "checking")
  /\ UNCHANGED <<fields, inFlight, recovering, world, purpose, held, ops, faults, overlapped>>

\* The page is read, or the reading fails and the run gives up.
Looked(j) ==
  /\ pc[j] = "looking"
  /\ \/ held[j] \in pages /\ Go(j, "ready")
     \/ Go(j, "closing")
  /\ UNCHANGED <<fields, inFlight, recovering, world, purpose, held, ops, faults, overlapped>>

---------------------------------------------------------------------------
(* execute                                                                  *)

\* Mutant of Denied: the guard inside the try block: the refusal resets the flag.
DeniedInsideTry(j) ==
  /\ pc[j] = "ready" /\ ops[j] < MaxOps /\ inFlight
  /\ inFlight' = FALSE
  /\ ops' = [ops EXCEPT ![j] = @ + 1]
  /\ UNCHANGED <<fields, recovering, world, pc, purpose, held, faults, overlapped>>

\* The action is refused before the try block, so the flag stays another's.
Denied(j) ==
  /\ pc[j] = "ready" /\ ops[j] < MaxOps /\ inFlight
  /\ ops' = [ops EXCEPT ![j] = @ + 1]
  /\ UNCHANGED <<fields, inFlight, recovering, world, pc, purpose, held, faults, overlapped>>

Execute(j) ==
  /\ pc[j] = "ready" /\ ops[j] < MaxOps /\ ~inFlight
  /\ inFlight' = TRUE
  /\ ops' = [ops EXCEPT ![j] = @ + 1]
  /\ Go(j, "acting")
  /\ UNCHANGED <<fields, recovering, world, purpose, held, faults, overlapped>>

Executed(j) ==
  /\ pc[j] = "acting"
  /\ inFlight' = FALSE
  /\ Go(j, "ready")
  /\ UNCHANGED <<fields, recovering, world, purpose, held, ops, faults, overlapped>>

---------------------------------------------------------------------------
(* close                                                                    *)

Close(j) ==
  /\ pc[j] = "ready"
  /\ Go(j, "closing")
  /\ UNCHANGED <<fields, inFlight, recovering, world, purpose, held, ops, faults, overlapped>>

\* Mutant of CloseContext: one try block for both: an error of context.close skips browser.close.
CloseContextOrSkip(j) ==
  /\ pc[j] = "closing"
  /\ \/ /\ contexts' = contexts \ {context}
        /\ pages' = {p \in pages : p.in # context}
        /\ Go(j, "closingBrowser")
     \/ /\ context # None
        /\ Go(j, "clearing")
        /\ UNCHANGED <<contexts, pages>>
  /\ UNCHANGED <<fields, inFlight, recovering, alive, made, purpose, held, ops, faults, overlapped>>

\* An error of context.close is logged; the context may then still be there.
CloseContext(j) ==
  /\ pc[j] = "closing"
  /\ \/ /\ contexts' = contexts \ {context}
        /\ pages' = {p \in pages : p.in # context}
     \/ /\ context # None
        /\ UNCHANGED <<contexts, pages>>
  /\ Go(j, "closingBrowser")
  /\ UNCHANGED <<fields, inFlight, recovering, alive, made, purpose, held, ops, faults, overlapped>>

\* The contexts and pages of a browser go with it.
Gone(b) ==
  /\ alive' = alive \ {b}
  /\ contexts' = {c \in contexts : c.of # b}
  /\ pages' = {p \in pages : p.in.of # b}

CloseBrowser(j) ==
  /\ pc[j] = "closingBrowser"
  /\ Gone(browser)
  /\ Go(j, "clearing")
  /\ UNCHANGED <<fields, inFlight, recovering, made, purpose, held, ops, faults, overlapped>>

Clear(j) ==
  /\ pc[j] = "clearing"
  /\ browser' = None /\ context' = None /\ page' = None /\ configured' = FALSE
  /\ Go(j, "done")
  /\ Hold(j, None)
  /\ UNCHANGED <<inFlight, recovering, world, purpose, ops, faults, overlapped>>

---------------------------------------------------------------------------
(* What happens without the harness: the application or a user closes the   *)
(* page or the context, the browser dies.                                   *)

Fault ==
  /\ faults < MaxFaults
  /\ faults' = faults + 1
  /\ \/ \E p \in pages : pages' = pages \ {p} /\ UNCHANGED <<alive, contexts>>
     \/ \E c \in contexts :
          /\ contexts' = contexts \ {c}
          /\ pages' = {p \in pages : p.in # c}
          /\ UNCHANGED alive
     \/ \E b \in alive : Gone(b)
  /\ UNCHANGED <<fields, inFlight, recovering, made, locals, overlapped>>

Job(j) ==
  \/ Open(j) \/ LaunchFails(j) \/ Launched(j) \/ Discarded(j) \/ NewContext(j)
  \/ NewPage(j) \/ Opened(j)
  \/ Observe(j) \/ Usable(j) \/ Unusable(j) \/ Awake(j) \/ Recovered(j) \/ Looked(j)
  \/ Denied(j) \/ Execute(j) \/ Executed(j)
  \/ Close(j) \/ CloseContext(j) \/ CloseBrowser(j) \/ Clear(j)

Ended == (\A j \in Jobs : pc[j] = "done") /\ UNCHANGED vars

Next == (\E j \in Jobs : Job(j)) \/ Fault \/ Ended

\* Every await of the harness is bounded by a timeout of Playwright or of the
\* configuration, so a job that is under way goes on.
Spec == Init /\ [][Next]_vars /\ \A j \in Jobs : WF_vars(Job(j))

---------------------------------------------------------------------------
Context == [of : Jobs, id : Nat]
Page == [in : Context, id : Nat]

Where == {"idle", "launching", "checking", "waiting", "reusing", "looking", "ready",
          "acting", "closing", "closingBrowser", "clearing", "done"} \cup Renewing

FieldsOK ==
  /\ browser \in Jobs \cup {None}
  /\ context \in Context \cup {None}
  /\ page \in Page \cup {None}
  /\ configured \in BOOLEAN /\ inFlight \in BOOLEAN /\ recovering \in BOOLEAN

WorldOK ==
  /\ alive \subseteq Jobs
  /\ contexts \subseteq Context
  /\ pages \subseteq Page
  /\ made \in Nat /\ faults \in 0 .. MaxFaults /\ overlapped \in BOOLEAN

\* A job that looks at a page holds one.
JobsOK ==
  /\ pc \in [Jobs -> Where]
  /\ purpose \in [Jobs -> {"open", "recovery"}]
  /\ held \in [Jobs -> Context \cup Page \cup {None}]
  /\ ops \in [Jobs -> 0 .. MaxOps]
  /\ \A j \in Jobs : pc[j] = "looking" => held[j] \in Page

TypeOK == FieldsOK /\ WorldOK /\ JobsOK

\* At most one action is under way, and the flag that refuses the others is
\* set exactly as long as it is, however runs overlap.
OneActionAtATime ==
  /\ Cardinality({j \in Jobs : pc[j] = "acting"}) <= 1
  /\ inFlight <=> \E j \in Jobs : pc[j] = "acting"

\* At most one job rebuilds the page, and the flag that makes the others wait
\* is reset on every way out of it.
Recovers(j) == pc[j] = "reusing" \/ (pc[j] \in Renewing /\ purpose[j] = "recovery")
OneRecoveryAtATime ==
  /\ Cardinality({j \in Jobs : Recovers(j)}) <= 1
  /\ recovering <=> \E j \in Jobs : Recovers(j)

\* Actions exclude one another and so do recoveries.
OneAtATime == OneActionAtATime /\ OneRecoveryAtATime

\* A run that has the harness to itself replaces its page without leaving the
\* old context behind, and works in the page of its own browser.
OneContext ==
  ~overlapped => /\ Cardinality(contexts) <= 1
                 /\ \A j \in Jobs : pc[j] \in {"looking", "ready"} /\ PageOpen
                                      => page.in = context /\ context.of = j

\* Once every run has ended the harness is as it was before the first one; and
\* when the runs did not overlap no browser is left, whatever failed.
NothingLeft ==
  (\A j \in Jobs : ~Active(j)) =>
    /\ fields = <<None, None, None, FALSE>> /\ ~inFlight /\ ~recovering
    /\ ~overlapped => alive = {} /\ contexts = {} /\ pages = {}

\* No context, page or browser is left behind: not while a run replaces its
\* page, nor when the runs are over.
NothingLeftBehind == OneContext /\ NothingLeft

\* Every run gets through its operations and closes: nobody waits for ever for
\* a recovery or for an action of another.
EveryRunEnds == \A j \in Jobs : <>(pc[j] = "done")

=============================================================================
