------------------------- MODULE MCScenarioPlanner -------------------------
(* Instances of the planner, called by the orchestrator, for TLC.           *)
EXTENDS ScenarioOrchestrator

MkTask(s, i, id, title, kind, deps) ==
  [id |-> id, title |-> title, expected |-> "text", kind |-> kind, deps |-> deps, from |-> <<s, i>>]

\* Titles and kinds of three tasks: plain, equal, unclassified, with a login, a
\* logout in the middle, two logouts and nothing else.
MCShapes ==
  { <<"a", "OTHER", "b", "OTHER", "c", "OTHER">>,
    <<"a", "OTHER", "b", "DISCLOSURE", "a", "OTHER">>,
    <<"a", "none", "b", "OTHER", "b", "none">>,
    <<"text", "none", "b", "OTHER", "c", "DEAUTHENTICATION">>,
    <<"a", "OTHER", "b", "AUTHENTICATION", "c", "DEAUTHENTICATION">>,
    <<"a", "DEAUTHENTICATION", "b", "OTHER", "c", "DEAUTHENTICATION">>,
    <<"a", "AUTHENTICATION", "b", "AUTHENTICATION", "b", "AUTHENTICATION">> }

\* Dependencies among three tasks, cycles included; 4 is no task.
MCDeps == { <<>>, <<1>>, <<2>>, <<4>>, <<1, 3>>, <<3, 2>> }

MCSingle ==
  { << << MkTask(1, 1, 1, f[1], f[2], d1), MkTask(1, 2, 2, f[3], f[4], d2), MkTask(1, 3, 3, f[5], f[6], d3) >> >> :
      f \in MCShapes, d1 \in MCDeps, d2 \in MCDeps, d3 \in MCDeps }

\* A second scenario with the same ids, a repeated task and a login.
MCSecond ==
  { << MkTask(2, 1, 1, "c", "OTHER", d1), MkTask(2, 2, 2, t, k, d2) >> :
      d1 \in {<<>>, <<2>>}, d2 \in {<<>>, <<1>>}, t \in {"a", "d"},
      k \in {"OTHER", "AUTHENTICATION", "DEAUTHENTICATION"} }

MCDouble ==
  { << << MkTask(1, 1, 1, f[1], f[2], d1), MkTask(1, 2, 2, f[3], f[4], d2) >>, second >> :
      f \in MCShapes, d1 \in {<<>>, <<2>>}, d2 \in {<<>>, <<1>>}, second \in MCSecond }

\* The first id is given again.
MCTwins ==
  { << << MkTask(1, 1, 1, f[1], f[2], d1), MkTask(1, 2, 2, f[3], f[4], d2), MkTask(1, 3, 1, f[5], f[6], d3) >> >> :
      f \in MCShapes, d1 \in {<<>>, <<2>>}, d2 \in {<<>>, <<1>>}, d3 \in {<<>>, <<2>>} }

MCAnswers == {<<>>} \cup MCSingle \cup MCDouble \cup MCTwins

\* One line, which is also the title of a task, or four, two of them equal.
MCCriteria == { <<"text">>, <<"a", "b", "text", "b">> }

\* Two required scenarios and up to three chunks: nothing matches; both match
\* the same chunk best, and one of them another; more match than are kept; ties.
MCScores ==
  { << <<0, 20, 0>>, <<24, 0, 0>> >>,
    << <<60, 0, 0>>, <<40, 30, 0>> >>,
    << <<60, 0, 0>>, <<40, 0, 0>> >>,
    << <<25, 40, 60>>, <<40, 25, 25>> >>,
    << <<0, 0, 30>>, <<30, 30, 30>> >> }

MCRequests ==
  { [required |-> 1 .. 2, chunks |-> 1 .. 3, score |-> s, max |-> m] : s \in MCScores, m \in {2, 3} }
  \cup { [required |-> 1 .. 2, chunks |-> {}, score |-> << <<>>, <<>> >>, max |-> 1],
         [required |-> {}, chunks |-> 1 .. 3, score |-> <<>>, max |-> 2] }
=============================================================================
