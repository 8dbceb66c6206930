-------------------------- MODULE MCReactiveRunner --------------------------
(* An instance of ReactiveRunner for TLC: a scenario of three tasks.       *)
EXTENDS ReactiveRunner

\* An authenticated plan, linearized by the planner, the logout last.
ChainDeps == [t \in 1 .. N |-> IF t = 1 THEN {} ELSE {t - 1}]
ChainKind == [t \in 1 .. N |-> IF t = N THEN "LOGOUT" ELSE IF t = N - 1 THEN "THEME" ELSE "OTHER"]
=============================================================================
