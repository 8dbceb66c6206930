----------------------------- MODULE ExitCodes -----------------------------
(***************************************************************************)
(* The exit codes of the command line, how errors are turned into them and *)
(* how several are summed up in one (src/interfaces/cli/exit-codes.ts).    *)
(***************************************************************************)
EXTENDS Naturals, Sequences

ExitCodes == {"OK", "BUGS_FOUND", "CONFIG_ERROR", "HARNESS_FATAL", "TIMEOUT",
              "ONBOARDING_BLOCKED", "PREFLIGHT_BLOCKED"}

(* What an error that is neither a blocked gate nor a timeout becomes: a   *)
(* ConfigError its own code, every other error HARNESS_FATAL.              *)
ThrownCodes == {"CONFIG_ERROR", "HARNESS_FATAL"}

SeverityRank ==
  [OK |-> 0, CONFIG_ERROR |-> 1, BUGS_FOUND |-> 2, PREFLIGHT_BLOCKED |-> 3,
   ONBOARDING_BLOCKED |-> 4, TIMEOUT |-> 4, HARNESS_FATAL |-> 5]

(* The first of the most severe codes, OK when there are none.             *)
MostSevereExitCode(codes) ==
  LET worst == {i \in DOMAIN codes : \A k \in DOMAIN codes :
                  SeverityRank[codes[k]] <= SeverityRank[codes[i]]}
  IN  IF codes = <<>> THEN "OK"
      ELSE codes[CHOOSE i \in worst : \A k \in worst : i <= k]
=============================================================================
