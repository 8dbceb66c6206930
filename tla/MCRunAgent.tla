----------------------------- MODULE MCRunAgent -----------------------------
(***************************************************************************)
(* A suite for RunAgent: two scenarios, the first of two tasks.            *)
(***************************************************************************)
EXTENDS RunAgent

MCSuite == <<1, 1, 2>>
MCPlanned == 1 .. 3
MCRoutes == {"plan", "tools", "reactive", "orchestrator", "dry"}
MCPlanOnly == {"plan"}
MCOrchestratorOnly == {"orchestrator"}
=============================================================================
