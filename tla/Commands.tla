------------------------------ MODULE Commands ------------------------------
(***************************************************************************)
(* The commands of the agent, given on the command line to a process of    *)
(* their own (cli/cli.command.ts) or as jobs to the daemon, whose process  *)
(* they share (api/api.service.ts).  Two of them are modelled with their   *)
(* awaits as steps: `onboard', which finds out whether the agent can work  *)
(* on an application, and `capture-auth', which lets a person log in.  The *)
(* others are one step with an outcome; other modules are about them.      *)
(*                                                                         *)
(* A process has one harness, with one browser, one page and one buffer of *)
(* network signals.  The interleavings inside the harness are those of     *)
(* module Harness; here each of its operations is one step, the step in    *)
(* which it is over.  The application answers every request with 200 or    *)
(* 500, and a page may show nothing.                                       *)
(***************************************************************************)
EXTENDS Naturals, Sequences, SequencesExt, ExitCodes

CONSTANTS
    Jobs,        \* commands given
    Requests,    \* what they may be: caller, command, valid, login, routes
    StartsWith,  \* pairs of URLs: the first starts with the second
    Resources,   \* URL -> sequences of URLs its page may load, all answered with 200
    BaseUrl, LoginUrl,
    NoJob,       \* undefined
    BufferSize,  \* signals the buffer keeps, 500 in the code
    MaxFaults    \* bound: files that cannot be written

\* A URL starts with itself. The daemon is a process beside those of the command line.
ASSUME CommandsAssumption ==
    /\ NoJob \notin Jobs /\ "daemon" \notin Jobs
    /\ BufferSize \in Nat \ {0} /\ MaxFaults \in Nat
    /\ {BaseUrl, LoginUrl} \subseteq DOMAIN Resources
    /\ \A u \in DOMAIN Resources :
         <<u, u>> \in StartsWith /\ \A more \in Resources[u] : more \in Seq(ToSet(more))
    /\ Requests # {}
    /\ \A r \in Requests :
         /\ r.command \in {"onboard", "capture-auth", "run", "pipeline", "read", "unknown"}
         /\ r.routes \in Seq(DOMAIN Resources)

VARIABLES
    at,          \* job -> where it is
    request,     \* job -> what was asked for
    browserOf,   \* process -> this.browser of its harness, by who launched it
    pageOf,      \* process -> this.page of its harness, by who opened it
    signals,     \* process -> network signals of its harness
    alive,       \* jobs whose browser runs
    found,       \* job -> what the onboarding has found
    routes,      \* job -> routes still to check
    readiness,   \* readiness.json
    lines,       \* run-history.jsonl
    reply,       \* job -> exit code and, for a job of the daemon, its status
    faults,
    answered,    \* history: job -> URL -> how the application has answered the job
    met          \* history: pairs of jobs that ran at once

harness == <<browserOf, pageOf, signals, alive>>
written == <<readiness, lines>>
past == <<answered, met>>
cmVars == <<at, request, harness, found, routes, written, reply, faults, past>>

Process(j) == IF request[j].caller = "api" THEN "daemon" ELSE j
Processes == Jobs \cup {"daemon"}
Ended(j) == at[j] = "ended"
Active(j) == at[j] \notin {"idle", "ended"}
Go(j, where) == at' = [at EXCEPT ![j] = where]

-----------------------------------------------------------------------------
(* Exit codes.                                                             *)

ClassifyError(error) ==
    CASE error = "config" -> "CONFIG_ERROR"
      [] error \in {"preflight blocked", "correlation blocked"} -> "PREFLIGHT_BLOCKED"
      [] error = "timeout" -> "TIMEOUT"
      [] OTHER -> "HARNESS_FATAL"

Errors == {"config", "preflight blocked", "correlation blocked", "timeout", "fatal"}

\* What a command of one step may come to.
Outcomes(command) ==
    CASE command = "run" -> {"passed", "bug", "not passed"} \cup Errors
      [] command = "pipeline" -> ExitCodes \cup Errors
      [] command = "read" -> {"passed", "fatal"}
      [] OTHER -> {}

\* Mutant of Exit: a command that comes to an end without an error is OK.
ExitUnlessError(command, outcome) == IF outcome \in Errors THEN ClassifyError(outcome) ELSE "OK"

Exit(command, outcome) ==
    CASE outcome \in {"passed", "READY"} -> "OK"
      [] outcome = "ONBOARDING_BLOCKED" /\ command = "onboard" -> "ONBOARDING_BLOCKED"
      [] outcome \in ExitCodes /\ command = "pipeline" -> outcome
      [] outcome \in {"bug", "not passed"} -> "BUGS_FOUND"
      [] outcome \in Errors /\ command = "onboard" -> "BUGS_FOUND"
      [] outcome \in Errors /\ command = "read" -> "HARNESS_FATAL"
      [] outcome \in Errors /\ command \notin {"onboard", "read"} -> ClassifyError(outcome)

\* The methods of CliService catch every error and return an exit code, of
\* which the daemon keeps nothing: what returns is a success.
Reply(j, outcome) ==
    reply' = [reply EXCEPT ![j] =
                IF request[j].caller = "api" THEN [status |-> "success", exit |-> "OK"]
                ELSE [status |-> "none", exit |-> Exit(request[j].command, outcome)]]

End(j, outcome) == Go(j, "ended") /\ Reply(j, outcome)

-----------------------------------------------------------------------------
NothingFound == [opened |-> FALSE, smoke |-> TRUE, blocked |-> FALSE, plan |-> "none"]
Unwritten == [value |-> "none", by |-> NoJob]

CommandsInit ==
    /\ at = [j \in Jobs |-> "idle"]
    /\ request = [j \in Jobs |-> CHOOSE r \in Requests : TRUE]
    /\ browserOf = [p \in Processes |-> NoJob]
    /\ pageOf = [p \in Processes |-> NoJob]
    /\ signals = [p \in Processes |-> <<>>]
    /\ alive = {}
    /\ found = [j \in Jobs |-> NothingFound]
    /\ routes = [j \in Jobs |-> <<>>]
    /\ readiness = Unwritten
    /\ lines = <<>>
    /\ reply = [j \in Jobs |-> [status |-> "running", exit |-> "none"]]
    /\ faults = 0
    /\ answered = [j \in Jobs |-> [u \in DOMAIN Resources |-> {}]]
    /\ met = {}

\* Nothing keeps a job of the daemon from starting while another runs.
Start(j) ==
    /\ at[j] = "idle"
    /\ \E r \in Requests :
         /\ request' = [request EXCEPT ![j] = r]
         /\ routes' = [routes EXCEPT ![j] = r.routes]
         /\ Go(j, CASE r.command \in {"onboard", "capture-auth"} -> "load"
                    [] OTHER -> r.command)
    /\ met' = met \cup {{j, k} : k \in {i \in Jobs : Active(i)}}
    /\ UNCHANGED <<harness, found, written, reply, faults, answered>>

\* run; pipeline for it and its steps, preflight and validate-config; read for
\* inspect and report.
OneStep(j) ==
    /\ at[j] \in {"run", "pipeline", "read"}
    /\ \E outcome \in Outcomes(at[j]) : End(j, outcome)
    /\ UNCHANGED <<request, harness, found, routes, written, faults, past>>

\* Only a command the daemon does not know makes an error of the job.
UnknownCommand(j) ==
    /\ at[j] = "unknown"
    /\ Go(j, "ended")
    /\ reply' = [reply EXCEPT ![j] = [status |-> "error", exit |-> "BUGS_FOUND"]]
    /\ UNCHANGED <<request, harness, found, routes, written, faults, past>>

LoadConfig(j) ==
    /\ at[j] = "load"
    /\ \/ /\ request[j].valid
          /\ Go(j, IF request[j].command = "onboard" THEN "launch" ELSE "show")
          /\ UNCHANGED reply
       \/ /\ ~request[j].valid
          /\ End(j, "config")
    /\ UNCHANGED <<request, harness, found, routes, written, faults, past>>

-----------------------------------------------------------------------------
(* capture-auth: a browser of its own, which is closed at the very end.    *)

\* No page, or none of the ways to click the button of the identity provider
\* works: the browser stays.
LoginThrows(j) == request[j].login = "sso" /\ End(j, "fatal")

ShowLogin(j) ==
    /\ at[j] = "show"
    /\ alive' = alive \cup {j}
    /\ \/ Go(j, "person") /\ UNCHANGED reply
       \/ LoginThrows(j)
       \/ request[j].login = "sso" /\ Go(j, "url") /\ UNCHANGED reply
    /\ UNCHANGED <<request, browserOf, pageOf, signals, found, routes, written, faults, past>>

\* One ENTER on the terminal is read by every command of the process that waits.
PressEnter(p) ==
    LET waiting == {j \in Jobs : at[j] \in {"person", "finish"} /\ Process(j) = p}
        after(j) == IF at[j] = "person" /\ request[j].login = "sso" THEN "url" ELSE "capture"
    IN /\ waiting # {}
       /\ at' = [j \in Jobs |-> IF j \in waiting THEN after(j) ELSE at[j]]
       /\ UNCHANGED <<request, harness, found, routes, written, reply, faults, past>>

\* When the URL of success does not come in time, the person is asked again.
AwaitUrl(j) ==
    /\ at[j] = "url"
    /\ Go(j, "capture") \/ Go(j, "finish")
    /\ UNCHANGED <<request, harness, found, routes, written, reply, faults, past>>

Capture(j) ==
    /\ at[j] = "capture"
    /\ alive' = alive \ {j}
    /\ End(j, "passed")
    /\ UNCHANGED <<request, browserOf, pageOf, signals, found, routes, written, faults, past>>

-----------------------------------------------------------------------------
(* onboard: opening the application                                        *)

OpenFails(j) == Go(j, "report") /\ UNCHANGED found

Launch(j) ==
    /\ at[j] = "launch"
    /\ \/ /\ browserOf' = [browserOf EXCEPT ![Process(j)] = j]
          /\ alive' = alive \cup {j}
          /\ Go(j, "context") /\ UNCHANGED found
       \/ OpenFails(j) /\ UNCHANGED <<browserOf, alive>>
    /\ UNCHANGED <<request, pageOf, signals, routes, written, reply, faults, past>>

Usable(p) == browserOf[p] \in alive

\* Mutant of Context: the buffer is not emptied.
ContextDirty(j) ==
    /\ at[j] = "context"
    /\ \/ /\ Usable(Process(j))
          /\ pageOf' = [pageOf EXCEPT ![Process(j)] = j]
          /\ Go(j, IF request[j].login = "form" THEN "login" ELSE "goto")
          /\ UNCHANGED <<signals, found>>
       \/ ~Usable(Process(j)) /\ OpenFails(j) /\ UNCHANGED <<pageOf, signals>>
    /\ UNCHANGED <<request, browserOf, alive, routes, written, reply, faults, past>>

\* A context made anew closes the one there was, whoever used it.
Context(j) ==
    /\ at[j] = "context"
    /\ \/ /\ Usable(Process(j))
          /\ pageOf' = [pageOf EXCEPT ![Process(j)] = j]
          /\ signals' = [signals EXCEPT ![Process(j)] = <<>>]
          /\ Go(j, IF request[j].login = "form" THEN "login" ELSE "goto")
          /\ UNCHANGED found
       \/ ~Usable(Process(j)) /\ OpenFails(j) /\ UNCHANGED <<pageOf, signals>>
    /\ UNCHANGED <<request, browserOf, alive, routes, written, reply, faults, past>>

Newest(log) == IF Len(log) > BufferSize
               THEN SubSeq(log, Len(log) - BufferSize + 1, Len(log)) ELSE log

Answer(url, status) == [url |-> url, status |-> status]
Record(j, more) == signals' = [signals EXCEPT ![Process(j)] = Newest(@ \o more)]

\* The page of the process goes to url after requests that failed; the answer
\* and what the page loads are recorded in the order they come.
LoadPage(j, failed, url, status) ==
    /\ pageOf[Process(j)] # NoJob
    /\ \E more \in Resources[url] :
         Record(j, failed \o <<Answer(url, status)>>
                   \o [i \in DOMAIN more |-> Answer(more[i], 200)])
    /\ answered' = [answered EXCEPT ![j][url] = @ \cup {status}]

Login(j) ==
    /\ at[j] = "login"
    /\ \/ /\ \E status \in {200, 500} : LoadPage(j, <<>>, LoginUrl, status)
          /\ (Go(j, "goto") /\ UNCHANGED found) \/ OpenFails(j)
       \/ pageOf[Process(j)] = NoJob /\ OpenFails(j) /\ UNCHANGED <<signals, answered>>
    /\ UNCHANGED <<request, browserOf, pageOf, alive, routes, written, reply, faults, met>>

\* A navigation is tried again; the request that failed stays in the log.
GoToBase(j) ==
    /\ at[j] = "goto"
    /\ \/ /\ \E status \in {200, 500}, failed \in {<<>>, <<Answer(BaseUrl, 0)>>} :
               LoadPage(j, failed, BaseUrl, status)
          /\ Go(j, "smoke")
          /\ found' = [found EXCEPT ![j].opened = TRUE]
       \/ OpenFails(j) /\ UNCHANGED <<signals, answered>>
    /\ UNCHANGED <<request, browserOf, pageOf, alive, routes, written, reply, faults, met>>

-----------------------------------------------------------------------------
(* onboard: what is checked                                                *)

\* Mutant of Accessible: the status of the answer is not looked at.
AccessibleAnyStatus(log, url, shown) ==
    /\ shown
    /\ \E i \in DOMAIN log : <<log[i].url, url>> \in StartsWith

\* The first signal whose URL starts with the one asked for decides.
Accessible(log, url, shown) ==
    /\ shown
    /\ \E i \in DOMAIN log :
         /\ <<log[i].url, url>> \in StartsWith
         /\ \A h \in 1..i - 1 : <<log[h].url, url>> \notin StartsWith
         /\ log[i].status = 200

Next0(j) == IF routes[j] = <<>> THEN "plan" ELSE "visit"

VerifyMinimalSmoke(j) ==
    /\ at[j] = "smoke"
    /\ \E shown \in BOOLEAN :
         found' = [found EXCEPT ![j].smoke =
                     pageOf[Process(j)] # NoJob /\ Accessible(signals[Process(j)], BaseUrl, shown)]
    /\ Go(j, Next0(j))
    /\ UNCHANGED <<request, harness, routes, written, reply, faults, past>>

\* The harness returns its failure to navigate, and nobody looks at it.
VisitRoute(j) ==
    /\ at[j] = "visit"
    /\ \/ \E status \in {200, 500} : LoadPage(j, <<>>, Head(routes[j]), status)
       \/ /\ UNCHANGED answered
          /\ \/ pageOf[Process(j)] # NoJob /\ Record(j, <<Answer(Head(routes[j]), 0)>>)
             \/ UNCHANGED signals
    /\ Go(j, "check")
    /\ UNCHANGED <<request, browserOf, pageOf, alive, found, routes, written, reply, faults, met>>

CheckRoute(j) ==
    /\ at[j] = "check"
    /\ \E shown \in BOOLEAN :
         found' = [found EXCEPT ![j].blocked =
           @ \/ pageOf[Process(j)] = NoJob
             \/ ~Accessible(signals[Process(j)], Head(routes[j]), shown)]
    /\ routes' = [routes EXCEPT ![j] = Tail(@)]
    /\ Go(j, IF Len(routes[j]) = 1 THEN "plan" ELSE "visit")
    /\ UNCHANGED <<request, harness, written, reply, faults, past>>

\* The plan logs in again where it is configured, and goes to every route,
\* whose failures are warnings.
SmokeSteps(r) ==
    <<[to |-> BaseUrl, onFailure |-> "BLOCK"]>>
    \o (IF r.login = "form" THEN [i \in 1..3 |-> [to |-> NoJob, onFailure |-> "BLOCK"]] ELSE <<>>)
    \o [i \in DOMAIN r.routes |-> [to |-> r.routes[i], onFailure |-> "CONTINUE_WITH_WARNING"]]
    \o <<[to |-> NoJob, onFailure |-> "BLOCK"]>>

\* A step that blocks ends the plan; the executor throws when its page goes away.
RunSmokePlan(j) ==
    /\ at[j] = "plan"
    /\ \/ /\ pageOf[Process(j)] # NoJob
          /\ \E failing \in SUBSET DOMAIN SmokeSteps(request[j]) :
               found' = [found EXCEPT ![j].plan =
                 IF \E i \in failing : SmokeSteps(request[j])[i].onFailure = "BLOCK"
                 THEN "failed" ELSE "ok"]
       \/ found' = [found EXCEPT ![j].plan = "error"]
    /\ Go(j, "close")
    /\ UNCHANGED <<request, harness, routes, written, reply, faults, past>>

\* Mutant of CloseBrowser: it is closed only when the plan did not throw.
CloseUnlessError(j) ==
    /\ at[j] = "close"
    /\ alive' = IF found[j].plan = "error" THEN alive ELSE alive \ {browserOf[Process(j)]}
    /\ browserOf' = [browserOf EXCEPT ![Process(j)] = NoJob]
    /\ pageOf' = [pageOf EXCEPT ![Process(j)] = NoJob]
    /\ Go(j, "report")
    /\ UNCHANGED <<request, signals, found, routes, written, reply, faults, past>>

\* What is closed is the browser of the harness, whoever launched it.
CloseBrowser(j) ==
    /\ at[j] = "close"
    /\ alive' = alive \ {browserOf[Process(j)]}
    /\ browserOf' = [browserOf EXCEPT ![Process(j)] = NoJob]
    /\ pageOf' = [pageOf EXCEPT ![Process(j)] = NoJob]
    /\ Go(j, "report")
    /\ UNCHANGED <<request, signals, found, routes, written, reply, faults, past>>

-----------------------------------------------------------------------------
(* onboard: the verdict and the files                                      *)

\* Mutant of Evaluate: the routes are not asked for.
EvaluateNoRoutes(f) ==
    IF f.opened /\ f.smoke /\ f.plan = "ok" THEN "READY" ELSE "ONBOARDING_BLOCKED"

Evaluate(f) ==
    CASE ~f.opened \/ f.plan = "error" -> "ONBOARDING_BLOCKED"
      [] f.opened /\ f.plan # "error" /\ (~f.smoke \/ f.blocked) -> "ONBOARDING_BLOCKED"
      [] OTHER -> CASE f.plan = "none" -> "UNKNOWN"
                    [] f.plan = "ok" -> "READY"
                    [] OTHER -> "ONBOARDING_BLOCKED"

ToRunHistoryStatus(value) ==
    CASE value = "READY" -> "passed"
      [] value = "ONBOARDING_BLOCKED" -> "blocked"
      [] OTHER -> "failed"

\* A file that cannot be written ends the command with an error.
WriteFails(j) ==
    /\ at[j] \in {"report", "persist", "append"}
    /\ at[j] = "report" => found[j].plan \in {"ok", "failed"}
    /\ faults < MaxFaults
    /\ faults' = faults + 1
    /\ End(j, "fatal")
    /\ UNCHANGED <<request, harness, found, routes, written, past>>

\* The baseline report is written when the plan ran.
WriteReport(j) ==
    /\ at[j] = "report"
    /\ Go(j, "persist")
    /\ UNCHANGED <<request, harness, found, routes, written, reply, faults, past>>

WriteReadiness(j) ==
    /\ at[j] = "persist"
    /\ readiness' = [value |-> Evaluate(found[j]), by |-> j]
    /\ Go(j, "append")
    /\ UNCHANGED <<request, harness, found, routes, lines, reply, faults, past>>

AppendHistory(j) ==
    /\ at[j] = "append"
    /\ lines' = Append(lines, [by |-> j, status |-> ToRunHistoryStatus(Evaluate(found[j]))])
    /\ End(j, Evaluate(found[j]))
    /\ UNCHANGED <<request, harness, found, routes, readiness, faults, past>>

Onboard(j) ==
    \/ Launch(j) \/ Context(j) \/ Login(j) \/ GoToBase(j) \/ VerifyMinimalSmoke(j)
    \/ VisitRoute(j) \/ CheckRoute(j) \/ RunSmokePlan(j) \/ CloseBrowser(j)
    \/ WriteReport(j) \/ WriteReadiness(j) \/ AppendHistory(j)

Command(j) ==
    \/ OneStep(j) \/ UnknownCommand(j) \/ LoadConfig(j) \/ ShowLogin(j) \/ AwaitUrl(j)
    \/ Capture(j) \/ Onboard(j)

CommandsNext ==
    \/ \E j \in Jobs : Start(j) \/ Command(j) \/ WriteFails(j)
    \/ \E p \in Processes : PressEnter(p)

CommandsSpec == CommandsInit /\ [][CommandsNext]_cmVars

-----------------------------------------------------------------------------
(* Properties                                                              *)

\* Another job used the harness of the process while this one ran.
Disturbed(j) == \E k \in Jobs \ {j} : {j, k} \in met /\ Process(k) = Process(j)

\* What another page is or loads may be taken for the answer of url.
Mistakable(url) ==
    \/ \E p \in StartsWith : p[2] = url /\ p[1] # url
    \/ \E u \in DOMAIN Resources : \E more \in Resources[u] : \E i \in DOMAIN more :
         <<more[i], url>> \in StartsWith

\* The page of url may push its own answer out of the buffer.
Crowded(url) == \E more \in Resources[url] : Len(more) >= BufferSize

\* READY is earned by this application, now: the base URL answered this
\* onboarding with 200, unless a login page before it may be taken for it or
\* its answer is no longer there, and so did every route nothing else can be
\* taken for.  What an earlier onboarding of the process saw does not count.
ReadyIsEarned ==
    \A j \in Jobs :
        Ended(j) /\ request[j].command = "onboard" /\ Evaluate(found[j]) = "READY" =>
            \/ Disturbed(j)
            \/ /\ request[j].login = "form" \/ Crowded(BaseUrl) \/ 200 \in answered[j][BaseUrl]
               /\ \A i \in DOMAIN request[j].routes :
                    \/ Mistakable(request[j].routes[i])
                    \/ 200 \in answered[j][request[j].routes[i]]

\* A command that is over has closed its browser, except where the opening
\* failed after the launch, where a capture found nothing to click, and where
\* another job of the daemon had put its own browser in the place.
BrowsersClosed ==
    \A j \in alive : Ended(j) =>
        \/ Disturbed(j)
        \/ request[j].command = "onboard" /\ ~found[j].opened
        \/ request[j].command = "capture-auth" /\ request[j].login = "sso"

Onboards(j) == request[j].command = "onboard" /\ request[j].valid

\* When onboardings ran one after the other and every file could be written,
\* readiness.json is of the onboarding on the last line of the history and says
\* what the line says, and the command line exits 0 for that one just when it
\* is READY.
FilesAgree ==
    (/\ lines # <<>> /\ faults = 0
     /\ \A j, k \in Jobs : Onboards(j) /\ Onboards(k) /\ {j, k} \in met => j = k
     /\ \A j \in Jobs : Onboards(j) => ~Active(j))
    => LET last == Last(lines)
       IN /\ last.by = readiness.by
          /\ last.status = ToRunHistoryStatus(readiness.value)
          /\ request[last.by].caller = "cli" =>
               (reply[last.by].exit = "OK" <=> readiness.value = "READY")

\* The verdict of an onboarding is true, and the same wherever it is told.
VerdictIsTrue == ReadyIsEarned /\ FilesAgree
=============================================================================
