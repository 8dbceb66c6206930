----------------------------- MODULE MCHarness -----------------------------
(* The browser of the process and what a run does to be logged in and alone  *)
(* in it: three machines that share no state, of which a behaviour runs one. *)
(* Sharing: two runs that may overlap, with two operations each and one      *)
(* fault.                                                                    *)
(* Logging in: every setup that the schema of the config allows and every    *)
(* gate of the application; a form is tried twice, and two pages or contexts *)
(* are lost.                                                                 *)
(* Clicking: three tabs, two rounds of closing.                              *)
EXTENDS Harness, Session, Tabs

MCSetups ==
  LET Setup(kinds, given) ==
        [kind : kinds, told : SUBSET {"url", "text"}, idp : BOOLEAN, env : BOOLEAN,
         given : given, gate : {"redirect", "button", "open"}]
  IN  Setup({"none", "formLogin"}, {"unset"})
        \cup Setup({"storageState"}, {"missing", "anonymous", "user"})
        \cup Setup({"ssoRedirect"}, {"unset", "missing", "anonymous", "user"})

VARIABLE machine

mcVars == <<vars, sessionVars, tabsVars, machine>>

MCInit ==
  /\ machine \in {"sharing", "loggingIn", "clicking"}
  /\ Fresh(IF machine = "sharing" THEN "idle" ELSE "done")
  /\ SessionInit /\ TabsInit
  /\ machine # "loggingIn" => setup = CHOOSE s \in Setups : s.kind = "none"
  /\ enforced => machine = "clicking"

MCNext ==
  /\ UNCHANGED machine
  /\ \/ machine = "sharing" /\ Next /\ UNCHANGED <<sessionVars, tabsVars>>
     \/ machine = "loggingIn" /\ SessionNext /\ UNCHANGED <<vars, tabsVars>>
     \/ machine = "clicking" /\ TabsNext /\ UNCHANGED <<vars, sessionVars>>

MCJob(j) == Job(j) /\ UNCHANGED <<sessionVars, tabsVars, machine>>

MCSpec == MCInit /\ [][MCNext]_mcVars /\ \A j \in Jobs : WF_mcVars(MCJob(j))
=============================================================================
