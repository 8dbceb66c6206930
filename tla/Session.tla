------------------------------ MODULE Session ------------------------------
(***************************************************************************)
(* The login of a run, and what is left of it when the page is rebuilt:    *)
(* PlaywrightHarness.open with the four kinds of authentication,           *)
(* FormLoginService, performSsoRedirectLogin and recoverPage.              *)
(*                                                                         *)
(* One run that has the harness for itself; module Harness has the overlap *)
(* of runs, and Tabs the other tabs.  What the application and the         *)
(* identity provider answer is a choice: they may accept a login, refuse   *)
(* it on the same or on another page, or accept it after the wait for it   *)
(* is over.  The text of successWhen is one that only a user sees, its URL *)
(* one of the application.                                                 *)
(***************************************************************************)
EXTENDS Naturals

CONSTANTS
  Setups,      \* configurations and applications
  MaxRetries,  \* auth.maxRetries of a form login
  MaxLosses    \* bound: pages or contexts that are lost while the run works

\* kind: config.auth.kind.  told: the conditions of successWhen.  idp: the three
\* selectors of the identity provider are given.  env: so are the credentials.
\* given: the storage state found when the run begins, "unset" without a path.
\* gate: what the application shows to an anonymous visitor.
ASSUME SetupsAssumption ==
  Setups \subseteq [kind : {"none", "storageState", "formLogin", "ssoRedirect"},
                    told : SUBSET {"url", "text"}, idp : BOOLEAN, env : BOOLEAN,
                    given : {"unset", "missing", "anonymous", "user"},
                    gate : {"redirect", "button", "open"}]
ASSUME SessionBoundsAssumption == MaxRetries \in Nat /\ MaxLosses \in Nat

VARIABLES
  setup,
  at,        \* where the run is
  place,     \* where the page is
  visitor,   \* whose session the context has
  saved,     \* the storage state as it is stored
  late,      \* a login was submitted that will be accepted yet
  attempt,   \* of FormLoginService.login
  losses,
  asked,     \* history: the identity provider was asked to log in
  renewed    \* history: the context was made anew

history == <<asked, renewed>>
sessionVars == <<setup, at, place, visitor, saved, late, attempt, losses, history>>

Kind == setup.kind

\* Where a URL of the application leads the visitor v: a page may redirect to
\* the login only after it was loaded.
Landing(v) == IF v = "anonymous" /\ setup.gate = "redirect" THEN {"app", "login"} ELSE {"app"}

\* successWhen, checked after a login was submitted.
Holds(condition) ==
  /\ place = "app"
  /\ condition = "text" => visitor = "user"
ToldHolds == \A condition \in setup.told : Holds(condition)

SessionInit ==
  /\ setup \in Setups
  /\ at = "closed" /\ place = "blank" /\ visitor = "anonymous"
  /\ saved = setup.given
  /\ late = FALSE /\ attempt = 0 /\ losses = 0
  /\ asked = FALSE /\ renewed = FALSE

---------------------------------------------------------------------------
(* open                                                                     *)

\* Launching, a navigation that failed as often as it may, a wait for an
\* element, and the saving of the session may throw; open then gives up.
OpenThrows ==
  /\ at \in {"closed", "base", "asking", "loginPage", "idpForm", "idpCheck", "settling"}
  /\ at' = "failed"
  /\ UNCHANGED <<setup, place, visitor, saved, late, attempt, losses, history>>

\* createContextAndPage: only a storage state that is given is used.
OpenContext ==
  /\ at = "closed"
  /\ IF Kind = "storageState"
     THEN saved \in {"anonymous", "user"} /\ visitor' = saved
     ELSE visitor' = "anonymous"
  /\ at' = IF Kind = "formLogin" THEN "form" ELSE "base"
  /\ UNCHANGED <<setup, place, saved, late, attempt, losses, history>>

\* this.navigateWithRetry(config.baseUrl)
ToBase ==
  /\ at = "base"
  /\ place' \in Landing(visitor)
  /\ at' = IF Kind = "ssoRedirect" THEN "asking" ELSE "ready"
  /\ UNCHANGED <<setup, visitor, saved, late, attempt, losses, history>>

---------------------------------------------------------------------------
(* FormLoginService                                                         *)

NoCredentials ==
  /\ at = "form" /\ ~setup.env
  /\ at' = "failed"
  /\ UNCHANGED <<setup, place, visitor, saved, late, attempt, losses, history>>

\* An application that knows the visitor may show its own page instead.
ToForm ==
  /\ at = "form" /\ setup.env
  /\ place' \in IF visitor = "user" THEN {"login", "app"} ELSE {"login"}
  /\ at' = "typing"
  /\ UNCHANGED <<setup, visitor, saved, late, attempt, losses, history>>

Accepted == visitor' = "user" /\ place' = "app" /\ late' = FALSE
Refused == place' \in {"login", "refused", "app"} /\ UNCHANGED <<visitor, late>>
Delayed == late' = TRUE /\ UNCHANGED <<visitor, place>>

Submit ==
  /\ at = "typing" /\ place = "login"
  /\ at' = "checking"
  /\ Accepted \/ Refused \/ Delayed
  /\ UNCHANGED <<setup, saved, attempt, losses, history>>

\* An attempt fails when the page does not load, a field is not there, an
\* error is shown, the condition does not come true or the page is still the
\* one of the login.
AttemptThrows ==
  /\ \/ at = "form" /\ setup.env
     \/ at \in {"typing", "checking"}
  /\ IF attempt < MaxRetries
     THEN attempt' = attempt + 1 /\ at' = "form"
     ELSE at' = "failed" /\ UNCHANGED attempt
  /\ UNCHANGED <<setup, place, visitor, saved, late, losses, history>>

LoggedIn ==
  /\ at = "checking"
  /\ place # "login" /\ ToldHolds
  /\ at' = "base"
  /\ UNCHANGED <<setup, place, visitor, saved, late, attempt, losses, history>>

---------------------------------------------------------------------------
(* The redirect to an identity provider                                     *)

\* needsSsoLogin: isVisible does not wait for the button.
NeedsSsoLogin ==
  IF place = "login" THEN {TRUE}
  ELSE IF place = "app" /\ visitor = "anonymous" /\ setup.gate = "button" THEN BOOLEAN
  ELSE {FALSE}

\* Without a path for the storage state open throws before it asks.
Ask ==
  /\ at = "asking" /\ saved # "unset"
  /\ \E needed \in NeedsSsoLogin : at' = IF needed THEN "loginPage" ELSE "ready"
  /\ UNCHANGED <<setup, place, visitor, saved, late, attempt, losses, history>>

\* The login URL is opened and its button clicked; that the provider does not
\* appear in time is ignored.
ToProvider ==
  /\ at = "loginPage"
  /\ place' \in {"idp", "login"}
  /\ asked' = TRUE
  /\ at' = IF setup.idp THEN "idpForm" ELSE "settling"
  /\ UNCHANGED <<setup, visitor, saved, late, attempt, losses, renewed>>

\* waitForAuthenticatedApp may end without an answer, or on a page of the
\* application that does not know the visitor yet.
IdpSubmit ==
  /\ at = "idpForm" /\ setup.env /\ place = "idp"
  /\ \/ Accepted
     \/ place' \in {"idp", "idpRefused"} /\ UNCHANGED <<visitor, late>>
     \/ place' \in {"idp", "idpRefused", "app"} /\ late' = TRUE /\ UNCHANGED visitor
  /\ at' = "idpCheck"
  /\ UNCHANGED <<setup, saved, attempt, losses, history>>

\* That the provider tells of a failure is only logged.
IdpChecked ==
  /\ at = "idpCheck"
  /\ place # "idp" /\ ToldHolds
  /\ at' = "settling"
  /\ UNCHANGED <<setup, place, visitor, saved, late, attempt, losses, history>>

\* Without selectors somebody else logs in, if anybody.
PersonLogsIn ==
  /\ at \in {"settling", "settled"} /\ ~setup.idp /\ place = "idp"
  /\ Accepted
  /\ UNCHANGED <<setup, at, saved, attempt, losses, history>>

\* The session is saved while the application is waited for.
SaveSession ==
  /\ at = "settling"
  /\ saved' = visitor
  /\ at' = "settled"
  /\ UNCHANGED <<setup, place, visitor, late, attempt, losses, history>>

AskAgain ==
  /\ at = "settled"
  /\ \E needed \in NeedsSsoLogin : at' = IF needed THEN "failed" ELSE "ready"
  /\ UNCHANGED <<setup, place, visitor, saved, late, attempt, losses, history>>

\* The login that was submitted is accepted at last.
Settle ==
  /\ late
  /\ Accepted
  /\ UNCHANGED <<setup, at, saved, attempt, losses, history>>

---------------------------------------------------------------------------
(* recoverPage                                                              *)

\* Mutant of Restored: a new context is clean, as the one of open is.
RestoredAsOpened == IF Kind = "storageState" THEN saved ELSE "anonymous"

\* resolveStorageStateForContext without a choice of the caller.
Restored ==
  IF Kind = "storageState" \/ (Kind = "ssoRedirect" /\ saved \in {"anonymous", "user"})
  THEN saved ELSE "anonymous"

\* The page is kept or another tab is taken; errors of the navigation to the
\* base URL are swallowed.
KeepContext ==
  /\ at = "ready" /\ losses < MaxLosses
  /\ losses' = losses + 1
  /\ place' \in Landing(visitor) \cup {place, "blank"}
  /\ UNCHANGED <<setup, at, visitor, saved, late, attempt, history>>

\* No login is made again.
RenewContext ==
  /\ at = "ready" /\ losses < MaxLosses
  /\ losses' = losses + 1
  /\ renewed' = TRUE
  /\ late' = FALSE
  /\ visitor' = Restored
  /\ place' \in Landing(visitor') \cup {"blank"}
  /\ UNCHANGED <<setup, at, saved, attempt, asked>>

SessionNext ==
  \/ OpenThrows \/ OpenContext \/ ToBase
  \/ NoCredentials \/ ToForm \/ Submit \/ AttemptThrows \/ LoggedIn
  \/ Ask \/ ToProvider \/ IdpSubmit \/ IdpChecked \/ PersonLogsIn \/ SaveSession \/ AskAgain
  \/ Settle \/ KeepContext \/ RenewContext

SessionSpec == SessionInit /\ [][SessionNext]_sessionVars

---------------------------------------------------------------------------
SessionTypeOK ==
  /\ setup \in Setups
  /\ at \in {"closed", "form", "typing", "checking", "base", "asking", "loginPage", "idpForm",
             "idpCheck", "settling", "settled", "ready", "failed"}
  /\ place \in {"blank", "app", "login", "refused", "idp", "idpRefused"}
  /\ visitor \in {"anonymous", "user"}
  /\ saved \in {"unset", "missing", "anonymous", "user"}
  /\ late \in BOOLEAN /\ asked \in BOOLEAN /\ renewed \in BOOLEAN
  /\ attempt \in 0 .. MaxRetries /\ losses \in 0 .. MaxLosses

\* Logins of which the harness has a proof: a storage state of a user was
\* given, a form login was followed by a text that only users see, or so was
\* one at the identity provider.
Proven ==
  \/ Kind = "storageState" /\ setup.given = "user"
  \/ Kind = "formLogin" /\ "text" \in setup.told /\ ~renewed
  \/ Kind = "ssoRedirect" /\ "text" \in setup.told /\ setup.idp /\ asked

\* A run whose login was proven works as that user, after however many
\* attempts, refusals and late answers, and however often its page or its
\* context was lost and made anew.  A form login does not outlive its context:
\* nothing keeps its session (PlaywrightHarness.open, recoverPage).
LoginLasts == at = "ready" /\ Proven => visitor = "user"

=============================================================================
