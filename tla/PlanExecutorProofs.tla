------------------------- MODULE PlanExecutorProofs -------------------------
(***************************************************************************)
(* Theorems about PlanExecutor, for every plan, patch and replan budget,   *)
(* and about Elements, what a step of a plan acts on, for every page.      *)
(***************************************************************************)
EXTENDS PlanExecutor, PlansTheorems, Elements

\* What the loop keeps besides the types: it is over exactly when the outcome
\* is decided; inside a step there is a step; repeatUntil is evaluated right
\* after a valid record of that step was pushed.
Control ==
  /\ pc = "done" <=> outcome # "running"
  /\ pc \notin {"precheck", "done"} => stepIndex <= Len(plan)
  /\ pc = "repeat" => steps # << >> /\ LastStep = Record(TRUE)

\* The inductive invariant.
IInv == TypeOK /\ Control /\ FailureNamesItsStep

----------------------------------------------------------------------------
LEMMA StepType ==
  ASSUME TypeOK, stepIndex <= Len(plan)
  PROVE  step \in Step
BY PlanShape DEF TypeOK, step

LEMMA RecordType ==
  ASSUME TypeOK, stepIndex <= Len(plan), NEW ok \in BOOLEAN
  PROVE  Record(ok) \in QaStep
BY StepType DEF Record, QaStep, Step

LEMMA WarnType ==
  ASSUME TypeOK, stepIndex <= Len(plan),
         NEW about \in {"PRECONDITION", "POSTCONDITION", "PAGE"}, Warn(about)
  PROVE  warnings' \subseteq Warning
BY StepType DEF TypeOK, Warn, Warning, Step

\* Pushing a record makes it the last one.
LEMMA Pushed ==
  ASSUME steps \in Seq(QaStep), NEW record \in QaStep, steps' = Append(steps, record)
  PROVE  steps' \in Seq(QaStep) /\ steps' # << >> /\ LastStep' = record
<1>1. /\ Append(steps, record) \in Seq(QaStep)
      /\ Append(steps, record) # << >>
      /\ Len(Append(steps, record)) = Len(steps) + 1
      /\ Append(steps, record)[Len(steps) + 1] = record
  BY AppendProperties
<1> QED
  BY <1>1 DEF LastStep

\* A replan changes the plan, the counters and nothing the run reports.
LEMMA ReplanEffect ==
  ASSUME TypeOK, Replan
  PROVE  /\ plan' \in Plan
         /\ replans' = replans + 1 /\ replans' \in 0 .. MaxReplans
         /\ attempt' = 1
         /\ pc' = "precheck"
         /\ UNCHANGED <<stepIndex, iterations, failedStep, outcome>>
<1>1. plan' \in Plan
  BY ReplansArePlans DEF TypeOK, Replan
<1>2. replans + 1 \in 0 .. MaxReplans
  BY PlansAssumption DEF TypeOK, Replan
<1> QED
  BY <1>1, <1>2 DEF Replan

----------------------------------------------------------------------------
(* The exits of the attempt loop.                                          *)

\* The types of what the exits assign, and of the rest.
LoopOK ==
  /\ plan \in Plan
  /\ stepIndex \in Nat \ {0}
  /\ attempt \in Nat \ {0}
  /\ replans \in 0 .. MaxReplans
  /\ iterations \in [StepIds -> Nat]
  /\ pc \in {"precheck", "resolve", "policy", "postcheck", "recover", "assert", "repeat", "done"}
  /\ outcome \in {"running", "ok", "failed", "thrown"}

ReportOK ==
  /\ risky \in BOOLEAN
  /\ execOk \in BOOLEAN
  /\ postOk \in BOOLEAN
  /\ steps \in Seq(QaStep)
  /\ warnings \subseteq Warning
  /\ asserted \subseteq StepIds
  /\ failedStep \in QaStep

LEMMA Types == (TypeOK <=> LoopOK /\ ReportOK) /\ (TypeOK' <=> LoopOK' /\ ReportOK')
BY DEF TypeOK, LoopOK, ReportOK

\* Going on, with the next step, the same one or a patched plan.
LEMMA GoesOn ==
  ASSUME IInv, pc # "done", NextStep \/ Retry \/ Replan
  PROVE  LoopOK' /\ Control' /\ FailureNamesItsStep'
<1>1. CASE NextStep
  BY <1>1 DEF IInv, TypeOK, LoopOK, Control, FailureNamesItsStep, NextStep
<1>2. CASE Retry
  BY <1>2 DEF IInv, TypeOK, LoopOK, Control, FailureNamesItsStep, Retry
<1>3. CASE Replan
  <2>1. TypeOK
    BY DEF IInv
  <2>2. LoopOK'
    BY <1>3, <2>1, ReplanEffect DEF TypeOK, LoopOK
  <2>3. Control'
    BY <1>3, <2>1, ReplanEffect DEF IInv, TypeOK, Control
  <2>4. FailureNamesItsStep'
    BY <1>3, <2>1, ReplanEffect DEF IInv, Control, FailureNamesItsStep
  <2> QED
    BY <2>2, <2>3, <2>4
<1> QED
  BY <1>1, <1>2, <1>3

\* Ending with an exception or with success.
LEMMA Ends ==
  ASSUME IInv, pc # "done", NEW how \in {"ok", "thrown"}, Stop(how)
  PROVE  LoopOK' /\ Control' /\ FailureNamesItsStep'
BY DEF IInv, TypeOK, LoopOK, Control, FailureNamesItsStep, Stop

\* Failing with the last record.
LEMMA Fails ==
  ASSUME IInv, pc # "done", steps' \in Seq(QaStep), steps' # << >>,
         LastStep'.id = (IF stepIndex > Len(plan) THEN PlanAssertions ELSE step.id),
         NEW record, record = LastStep', Fail(record)
  PROVE  LoopOK' /\ Control' /\ FailureNamesItsStep' /\ failedStep' = record
<1>1. LoopOK' /\ Control'
  BY DEF IInv, TypeOK, LoopOK, Control, Fail, Stop
<1>2. FailureNamesItsStep'
  BY DEF FailureNamesItsStep, Fail, Stop, step
<1> QED
  BY <1>1, <1>2 DEF Fail

\* Failing inside a step pushes an invalid record of that step.
LEMMA StepFails ==
  ASSUME IInv, pc # "done", stepIndex <= Len(plan),
         steps' = Append(steps, Record(FALSE)), Fail(Record(FALSE))
  PROVE  /\ LoopOK' /\ Control' /\ FailureNamesItsStep'
         /\ steps' \in Seq(QaStep) /\ failedStep' \in QaStep
<1>1. TypeOK /\ Len(plan) \in Nat /\ stepIndex \in Nat
  BY PlanShape DEF IInv, TypeOK
<1>2. Record(FALSE) \in QaStep /\ Record(FALSE).id = step.id
  BY <1>1, RecordType DEF Record
<1>3. steps' \in Seq(QaStep) /\ steps' # << >> /\ LastStep' = Record(FALSE)
  BY <1>1, <1>2, Pushed DEF TypeOK
<1>4. ~(stepIndex > Len(plan))
  BY <1>1
<1>5. LastStep'.id = step.id
  BY <1>2, <1>3
<1>6. LastStep'.id = (IF stepIndex > Len(plan) THEN PlanAssertions ELSE step.id)
  BY <1>4, <1>5
<1> QED
  BY <1>2, <1>3, <1>6, Fails

\* The body of an attempt that failed pushed its record and retries, replans or
\* gives up.
LEMMA AttemptFails ==
  ASSUME IInv, pc \notin {"precheck", "done"}, AttemptFailed
  PROVE  LoopOK' /\ Control' /\ FailureNamesItsStep' /\ steps' \in Seq(QaStep) /\ failedStep' \in QaStep
<1>1. TypeOK /\ stepIndex <= Len(plan) /\ pc # "done"
  BY DEF IInv, Control
<1>2. CASE Retry \/ Replan
  <2>1. steps' \in Seq(QaStep)
    BY <1>1, RecordType, Pushed DEF AttemptFailed, TypeOK
  <2> QED
    BY <1>1, <1>2, <2>1, GoesOn DEF TypeOK, Retry, Replan
<1>3. CASE Fail(Record(FALSE))
  BY <1>1, <1>3, StepFails DEF AttemptFailed
<1> QED
  BY <1>2, <1>3 DEF AttemptFailed, ReplanOr

----------------------------------------------------------------------------
(* The inductive invariant holds initially and every action preserves it.  *)

LEMMA InitInv == Init => IInv
<1> SUFFICES ASSUME Init PROVE IInv
  OBVIOUS
<1>1. TypeOK
  <2>1. plan \in Plan /\ replans \in 0 .. MaxReplans
    BY PlansAssumption DEF Init
  <2>2. failedStep \in QaStep
    BY DEF Init, NoStep, QaStep
  <2>3. iterations \in [StepIds -> Nat]
    BY DEF Init
  <2>4. steps \in Seq(QaStep)
    BY EmptySeq DEF Init
  <2>5. LoopOK
    BY <2>1, <2>3 DEF Init, LoopOK
  <2>6. ReportOK
    BY <2>2, <2>4 DEF Init, ReportOK
  <2> QED
    BY <2>5, <2>6, Types
<1>2. Control /\ FailureNamesItsStep
  BY DEF Init, Control, FailureNamesItsStep
<1> QED
  BY <1>1, <1>2 DEF IInv

LEMMA PreconditionsPreserve ==
  ASSUME IInv, PreconditionsHold \/ PreconditionsFail
  PROVE  IInv'
<1>1. TypeOK /\ ReportOK /\ stepIndex <= Len(plan) /\ pc = "precheck" /\ Len(plan) \in Nat /\ stepIndex \in Nat
  BY Types, PlanShape DEF IInv, PreconditionsHold, PreconditionsFail, InStep, TypeOK
<1>2. CASE PreconditionsHold
  BY <1>2 DEF IInv, TypeOK, Control, FailureNamesItsStep, PreconditionsHold, InStep, result
<1>3. CASE PreconditionsFail
  <2>1. CASE step.warn /\ Warn("PRECONDITION") /\ NextStep /\ UNCHANGED <<steps, failedStep>>
    <3>1. ReportOK'
      BY <1>1, <1>3, <2>1, WarnType DEF ReportOK, PreconditionsFail
    <3> QED
      BY <1>1, <2>1, <3>1, GoesOn, Types DEF IInv
  <2>2. CASE Replan /\ UNCHANGED <<steps, warnings>>
    <3>1. ReportOK'
      BY <1>1, <1>3, <2>2, ReplanEffect DEF ReportOK, PreconditionsFail
    <3> QED
      BY <1>1, <2>2, <3>1, GoesOn, Types DEF IInv
  <2>3. CASE Fail(Record(FALSE)) /\ steps' = Append(steps, Record(FALSE)) /\ UNCHANGED warnings
    <3>1. /\ LoopOK' /\ Control' /\ FailureNamesItsStep'
          /\ steps' \in Seq(QaStep) /\ failedStep' \in QaStep
      BY <1>1, <2>3, StepFails
    <3>2. ReportOK'
      BY <1>1, <1>3, <2>3, <3>1 DEF ReportOK, PreconditionsFail
    <3> QED
      BY <3>1, <3>2, Types DEF IInv
  <2> QED
    BY <1>3, <2>1, <2>2, <2>3 DEF PreconditionsFail
<1> QED
  BY <1>2, <1>3

LEMMA ResolvePreserves ==
  ASSUME IInv, ActionResolved \/ ActionUnresolved
  PROVE  IInv'
<1>1. TypeOK /\ ReportOK /\ stepIndex <= Len(plan) /\ pc = "resolve" /\ step \in Step
  BY Types, StepType DEF IInv, ActionResolved, ActionUnresolved, InStep
<1>2. CASE ActionResolved
  <2>1. risky' \in BOOLEAN
    BY <1>1, <1>2 DEF ActionResolved, Step
  <2> QED
    BY <1>2, <2>1 DEF IInv, TypeOK, Control, FailureNamesItsStep, ActionResolved, InStep, result
<1>3. CASE ActionUnresolved
  <2>1. ReportOK'
    BY <1>1, <1>3, ReplanEffect DEF ReportOK, ActionUnresolved, ReplanOr
  <2>2. LoopOK' /\ Control' /\ FailureNamesItsStep'
    BY <1>1, <1>3, GoesOn, Ends DEF ActionUnresolved, ReplanOr
  <2> QED
    BY <2>1, <2>2, Types DEF IInv
<1> QED
  BY <1>2, <1>3

LEMMA PolicyPreserves ==
  ASSUME IInv, PolicyRefuses \/ Execute
  PROVE  IInv'
<1>1. TypeOK /\ ReportOK /\ stepIndex <= Len(plan) /\ pc = "policy"
  BY Types DEF IInv, PolicyRefuses, Execute, InStep
<1>2. CASE PolicyRefuses
  <2>1. /\ LoopOK' /\ Control' /\ FailureNamesItsStep'
        /\ steps' \in Seq(QaStep) /\ failedStep' \in QaStep
    BY <1>1, <1>2, StepFails DEF PolicyRefuses
  <2>2. ReportOK'
    BY <1>1, <1>2, <2>1 DEF ReportOK, PolicyRefuses
  <2> QED
    BY <2>1, <2>2, Types DEF IInv
<1>3. CASE Execute
  <2>1. warnings' \subseteq Warning
    BY <1>1, <1>3, WarnType DEF Execute, ReportOK
  <2>2. ReportOK'
    BY <1>1, <1>3, <2>1 DEF Execute, ReportOK
  <2>3. LoopOK'
    BY <1>1, <1>3 DEF Execute, TypeOK, LoopOK
  <2>4. Control' /\ FailureNamesItsStep'
    BY <1>1, <1>3 DEF IInv, Control, FailureNamesItsStep, Execute, LastStep, Record, step
  <2> QED
    BY <2>2, <2>3, <2>4, Types DEF IInv
<1> QED
  BY <1>2, <1>3

LEMMA PostconditionsPreserve ==
  ASSUME IInv, CheckPostconditions \/ Recover
  PROVE  IInv'
<1>1. TypeOK /\ ReportOK /\ stepIndex <= Len(plan) /\ pc \notin {"precheck", "done"}
  BY Types DEF IInv, CheckPostconditions, Recover, InStep
<1>2. CASE CheckPostconditions
  <2>1. ReportOK'
    BY <1>1, <1>2 DEF CheckPostconditions, ReportOK, result
  <2>2. LoopOK'
    BY <1>1, <1>2 DEF CheckPostconditions, TypeOK, LoopOK
  <2>3. Control' /\ FailureNamesItsStep'
    BY <1>1, <1>2 DEF IInv, Control, FailureNamesItsStep, CheckPostconditions, LastStep, Record, step, result
  <2> QED
    BY <2>1, <2>2, <2>3, Types DEF IInv
<1>3. CASE Recover
  <2>1. CASE Warn("POSTCONDITION") /\ NextStep /\ UNCHANGED <<steps, failedStep>>
    <3>1. ReportOK'
      BY <1>1, <1>3, <2>1, WarnType DEF ReportOK, Recover
    <3> QED
      BY <1>1, <2>1, <3>1, GoesOn, Types DEF IInv
  <2>2. CASE steps' = Append(steps, Record(TRUE)) /\ NextStep /\ UNCHANGED <<failedStep, warnings>>
    <3>1. steps' \in Seq(QaStep)
      BY <1>1, <2>2, RecordType, Pushed DEF ReportOK
    <3>2. ReportOK'
      BY <1>1, <1>3, <2>2, <3>1 DEF ReportOK, Recover
    <3> QED
      BY <1>1, <2>2, <3>2, GoesOn, Types DEF IInv
  <2>3. CASE AttemptFailed /\ UNCHANGED warnings
    <3>1. ReportOK'
      BY <1>1, <1>3, <2>3, AttemptFails DEF ReportOK, Recover
    <3> QED
      BY <1>1, <2>3, <3>1, AttemptFails, Types DEF IInv
  <2> QED
    BY <1>3, <2>1, <2>2, <2>3 DEF Recover
<1> QED
  BY <1>2, <1>3

LEMMA AssertionsPreserve ==
  ASSUME IInv, CheckAssertions
  PROVE  IInv'
<1>1. TypeOK /\ ReportOK /\ stepIndex <= Len(plan) /\ pc \notin {"precheck", "done"} /\ step \in Step
  BY Types, StepType DEF IInv, CheckAssertions, InStep
<1>2. CASE /\ steps' = Append(steps, Record(TRUE))
           /\ asserted' = asserted \union {step.id}
           /\ pc' = "repeat"
           /\ UNCHANGED <<plan, stepIndex, attempt, replans, iterations, failedStep, outcome>>
  <2>1. steps' \in Seq(QaStep) /\ steps' # << >> /\ LastStep' = Record(TRUE)
    BY <1>1, <1>2, RecordType, Pushed DEF ReportOK
  <2>2. asserted' \subseteq StepIds
    BY <1>1, <1>2 DEF ReportOK, Step
  <2>3. ReportOK'
    BY <1>1, <1>2, <2>1, <2>2 DEF ReportOK, CheckAssertions
  <2>4. LoopOK'
    BY <1>1, <1>2 DEF TypeOK, LoopOK
  <2>5. Record(TRUE)' = Record(TRUE)
    BY <1>2 DEF Record, step
  <2>6. Control' /\ FailureNamesItsStep'
    BY <1>1, <1>2, <2>1, <2>5 DEF IInv, Control, FailureNamesItsStep
  <2> QED
    BY <2>3, <2>4, <2>6, Types DEF IInv
<1>3. CASE AttemptFailed /\ UNCHANGED asserted
  <2>1. ReportOK'
    BY <1>1, <1>3, AttemptFails DEF ReportOK, CheckAssertions
  <2> QED
    BY <1>1, <1>3, <2>1, AttemptFails, Types DEF IInv
<1> QED
  BY <1>2, <1>3 DEF CheckAssertions

LEMMA RepeatPreserves ==
  ASSUME IInv, RepeatUntilHolds \/ RepeatUntilFails
  PROVE  IInv'
<1>1. /\ TypeOK /\ ReportOK /\ pc = "repeat" /\ step \in Step
      /\ stepIndex <= Len(plan) /\ stepIndex \in Nat /\ Len(plan) \in Nat
      /\ steps # << >> /\ LastStep = Record(TRUE)
  BY Types, StepType, PlanShape DEF IInv, Control, TypeOK, RepeatUntilHolds, RepeatUntilFails, InStep
<1>2. CASE RepeatUntilHolds
  <2>1. ReportOK'
    BY <1>1, <1>2 DEF ReportOK, RepeatUntilHolds, result
  <2> QED
    BY <1>1, <1>2, <2>1, GoesOn, Types DEF IInv, RepeatUntilHolds
<1>3. CASE RepeatUntilFails /\ Fail(LastStep)
  <2>1. steps' = steps /\ LastStep' = LastStep
    BY <1>3 DEF RepeatUntilFails, LastStep
  <2>2. LastStep'.id = step.id
    BY <1>1, <2>1 DEF Record
  <2>3. LastStep'.id = (IF stepIndex > Len(plan) THEN PlanAssertions ELSE step.id)
    BY <1>1, <2>2
  <2>4. LoopOK' /\ Control' /\ FailureNamesItsStep' /\ failedStep' = LastStep
    BY <1>1, <1>3, <2>1, <2>3, Fails DEF ReportOK
  <2>5. LastStep \in QaStep
    BY <1>1, RecordType
  <2>6. ReportOK'
    BY <1>1, <1>3, <2>4, <2>5 DEF ReportOK, RepeatUntilFails
  <2> QED
    BY <2>4, <2>6, Types DEF IInv
<1>4. ASSUME RepeatUntilFails,
             iterations' = [iterations EXCEPT ![step.id] = iterations[step.id] + 1],
             attempt' = 1, pc' = "precheck",
             UNCHANGED <<plan, stepIndex, replans, failedStep, outcome>>
      PROVE  IInv'
  <2>1. ReportOK'
    BY <1>1, <1>4 DEF ReportOK, RepeatUntilFails
  <2>2. iterations' \in [StepIds -> Nat]
    BY <1>1, <1>4 DEF TypeOK, Step
  <2>3. LoopOK'
    BY <1>1, <1>4, <2>2 DEF TypeOK, LoopOK
  <2>4. Control' /\ FailureNamesItsStep'
    BY <1>1, <1>4 DEF IInv, Control, FailureNamesItsStep
  <2> QED
    BY <2>1, <2>3, <2>4, Types DEF IInv
<1> QED
  BY <1>2, <1>3, <1>4 DEF RepeatUntilFails, LastStep

LEMMA EndPreserves ==
  ASSUME IInv, FinalAssertions \/ Throw
  PROVE  IInv'
<1>1. TypeOK /\ ReportOK /\ pc # "done"
  BY Types DEF IInv, FinalAssertions, Throw
<1>2. CASE FinalAssertions /\ Stop("ok") /\ UNCHANGED <<steps, failedStep>>
  <2>1. ReportOK'
    BY <1>1, <1>2 DEF ReportOK, FinalAssertions
  <2> QED
    BY <1>1, <1>2, <2>1, Ends, Types DEF IInv
<1>3. ASSUME FinalAssertions, NEW record, record = [id |-> PlanAssertions, ok |-> FALSE],
             Fail(record), steps' = Append(steps, record)
      PROVE  IInv'
  <2>1. record \in QaStep /\ record.id = PlanAssertions
    BY <1>3 DEF QaStep
  <2>2. steps' \in Seq(QaStep) /\ steps' # << >> /\ LastStep' = record
    BY <1>1, <1>3, <2>1, Pushed DEF ReportOK
  <2>3. LastStep'.id = (IF stepIndex > Len(plan) THEN PlanAssertions ELSE step.id)
    BY <1>3, <2>1, <2>2 DEF FinalAssertions
  <2>4. LoopOK' /\ Control' /\ FailureNamesItsStep' /\ failedStep' = record
    BY <1>1, <1>3, <2>2, <2>3, Fails
  <2>5. ReportOK'
    BY <1>1, <1>3, <2>1, <2>2, <2>4 DEF ReportOK, FinalAssertions
  <2> QED
    BY <2>4, <2>5, Types DEF IInv
<1>4. CASE Throw
  <2>1. ReportOK'
    BY <1>1, <1>4 DEF ReportOK, Throw, result
  <2> QED
    BY <1>1, <1>4, <2>1, Ends, Types DEF IInv, Throw
<1> QED
  BY <1>2, <1>3, <1>4 DEF FinalAssertions

LEMMA StepInv == IInv /\ [Next]_vars => IInv'
<1> SUFFICES ASSUME IInv, [Next]_vars PROVE IInv'
  OBVIOUS
<1>1. CASE UNCHANGED vars
  BY <1>1 DEF IInv, TypeOK, Control, FailureNamesItsStep, LastStep, Record, step, vars
<1>2. CASE Next
  BY <1>2, PreconditionsPreserve, ResolvePreserves, PolicyPreserves, PostconditionsPreserve,
     AssertionsPreserve, RepeatPreserves, EndPreserves DEF Next
<1> QED
  BY <1>1, <1>2

THEOREM Invariance == Spec => []IInv
BY InitInv, StepInv, PTL DEF Spec

----------------------------------------------------------------------------
\* Every reachable state is well typed, for every plan, patch and budget: in
\* particular no patch empties the plan and replans stay within the budget.
THEOREM TypeCorrect == Spec => []TypeOK
<1>1. IInv => TypeOK
  BY DEF IInv
<1> QED
  BY <1>1, Invariance, PTL

\* A failed run always names the step it stopped at, and names it by the last
\* record: runner.fail is never called with a record of another step.
THEOREM FailuresNameTheirStep == Spec => []FailureNamesItsStep
<1>1. IInv => FailureNamesItsStep
  BY DEF IInv
<1> QED
  BY <1>1, Invariance, PTL

----------------------------------------------------------------------------
(* Action properties.                                                      *)

\* Only NextStep moves on, and it leaves the plan alone.
LEMMA WhoMovesOn ==
  ASSUME IInv, [Next]_vars, stepIndex' # stepIndex
  PROVE  /\ NextStep
         /\ \/ PreconditionsFail /\ step.warn /\ Warn("PRECONDITION")
            \/ Recover /\ step.warn /\ Warn("POSTCONDITION")
            \/ Recover /\ steps' = Append(steps, Record(TRUE))
            \/ RepeatUntilHolds
BY DEF Next, vars, PreconditionsHold, PreconditionsFail, ActionResolved, ActionUnresolved, PolicyRefuses,
       Execute, CheckPostconditions, Recover, CheckAssertions, RepeatUntilHolds, RepeatUntilFails,
       FinalAssertions, Throw, AttemptFailed, Replan, ReplanOr, Retry, Fail, Stop

\* A step is left only with a warning or a valid last record, and the plan is
\* not changed by that step of the loop.
LEMMA Leaving ==
  ASSUME IInv, [Next]_vars, stepIndex' # stepIndex
  PROVE  /\ stepIndex' = stepIndex + 1
         /\ plan' = plan
         /\ ExcusedIn(warnings', step.id) \/ (steps' # << >> /\ LastStep' = Record(TRUE))
<1>1. stepIndex' = stepIndex + 1 /\ plan' = plan
  BY WhoMovesOn DEF NextStep
<1>2. ASSUME NEW about \in {"PRECONDITION", "POSTCONDITION"}, Warn(about)
      PROVE  ExcusedIn(warnings', step.id)
  <2> DEFINE w == [id |-> step.id, about |-> about]
  <2>1. w \in warnings' /\ w.id = step.id /\ w.about # "PAGE"
    BY <1>2 DEF Warn
  <2> QED
    BY <2>1 DEF ExcusedIn
<1>3. ASSUME Recover, steps' = Append(steps, Record(TRUE))
      PROVE  steps' # << >> /\ LastStep' = Record(TRUE)
  BY <1>3, RecordType, Pushed DEF IInv, TypeOK, Recover, InStep
<1>4. ASSUME RepeatUntilHolds
      PROVE  steps' # << >> /\ LastStep' = Record(TRUE)
  BY <1>4 DEF IInv, Control, RepeatUntilHolds, InStep, result, LastStep
<1> QED
  BY <1>1, <1>2, <1>3, <1>4, WhoMovesOn

THEOREM OnlySettledStepsAreLeft == Spec => LeavesOnlySettledSteps
<1>1. IInv /\ [Next]_vars =>
        (stepIndex' # stepIndex =>
           /\ stepIndex' = stepIndex + 1
           /\ plan' = plan
           /\ ExcusedIn(warnings', step.id) \/ (steps' # << >> /\ LastStep' = Record(TRUE)))
  BY Leaving
<1> QED
  BY <1>1, Invariance, PTL DEF Spec, LeavesOnlySettledSteps

\* The attempt counter never passes the bound of the step at hand.
AttemptInv == pc # "done" /\ stepIndex <= Len(plan) => attempt <= step.attempts

LEMMA AttemptStep == IInv /\ AttemptInv /\ [Next]_vars => AttemptInv'
<1> SUFFICES ASSUME IInv, AttemptInv, [Next]_vars, pc' # "done", stepIndex' <= Len(plan')
             PROVE  attempt' <= step'.attempts
  BY DEF AttemptInv
<1>1. step'.attempts \in Nat \ {0}
  <2>1. TypeOK'
    BY StepInv DEF IInv
  <2>2. /\ plan' \in Plan /\ stepIndex' \in Nat \ {0}
    BY <2>1 DEF TypeOK
  <2>3. plan'[stepIndex'] \in Step
    BY <2>2, PlanShape
  <2> QED
    BY <2>3 DEF step, Step
<1>2. CASE attempt' = 1
  BY <1>1, <1>2
<1>3. CASE UNCHANGED <<attempt, plan, stepIndex, pc>>
  BY <1>3 DEF AttemptInv, step
<1>4. CASE UNCHANGED <<attempt, plan, stepIndex>> /\ pc # "done"
  BY <1>4 DEF AttemptInv, step
<1>5. CASE Retry
  <2>1. attempt < step.attempts /\ attempt' = attempt + 1 /\ step' = step
    BY <1>5 DEF Retry, step
  <2>2. attempt \in Nat /\ step.attempts \in Nat
    BY <1>1, <2>1 DEF IInv, TypeOK
  <2> QED
    BY <2>1, <2>2
<1>6. \/ attempt' = 1
      \/ UNCHANGED <<attempt, plan, stepIndex, pc>>
      \/ UNCHANGED <<attempt, plan, stepIndex>> /\ pc # "done"
      \/ Retry
  BY DEF Next, vars, PreconditionsHold, PreconditionsFail, ActionResolved, ActionUnresolved, PolicyRefuses,
         Execute, CheckPostconditions, Recover, CheckAssertions, RepeatUntilHolds, RepeatUntilFails,
         FinalAssertions, Throw, AttemptFailed, Replan, ReplanOr, NextStep, Fail, Stop, InStep
<1> QED
  BY <1>2, <1>3, <1>4, <1>5, <1>6

\* A step whose check failed is given up only when all its attempts are used.
THEOREM GivesUpLate == Spec => GivesUpAfterAllAttempts
<1>1. Init => AttemptInv
  <2> SUFFICES ASSUME Init PROVE AttemptInv
    OBVIOUS
  <2>1. TypeOK
    BY InitInv DEF IInv
  <2>2. stepIndex <= Len(plan) => step.attempts \in Nat \ {0}
    BY <2>1, StepType DEF Step
  <2> QED
    BY <2>2 DEF Init, AttemptInv
<1>2. ASSUME IInv, AttemptInv, [Next]_vars
      PROVE  (replans' > replans \/ outcome' = "failed") /\ pc \in {"recover", "assert"}
               => attempt = step.attempts
  <2> SUFFICES ASSUME replans' > replans \/ outcome' = "failed", pc \in {"recover", "assert"}
               PROVE  attempt = step.attempts
    OBVIOUS
  <2>1. stepIndex <= Len(plan) /\ TypeOK /\ outcome = "running"
    BY <1>2 DEF IInv, Control
  <2>2. attempt <= step.attempts /\ attempt \in Nat /\ step.attempts \in Nat /\ replans \in Nat
    BY <1>2, <2>1, StepType DEF AttemptInv, TypeOK, Step
  <2>3. AttemptFailed
    <3>1. CASE UNCHANGED vars \/ Throw
      BY <2>1, <2>2, <3>1 DEF vars, Throw, Stop
    <3>2. CASE Recover \/ CheckAssertions
      <4>1. ~(UNCHANGED <<replans, outcome>>)
        BY <2>1, <2>2
      <4>2. ~NextStep
        BY <4>1 DEF NextStep
      <4> QED
        BY <3>2, <4>1, <4>2, Zenon DEF Recover, CheckAssertions
    <3> QED
      BY <1>2, <3>1, <3>2 DEF Next, PreconditionsHold, PreconditionsFail, ActionResolved, ActionUnresolved,
         PolicyRefuses, Execute, CheckPostconditions, RepeatUntilHolds, RepeatUntilFails, FinalAssertions, InStep
  <2>4. ~Retry
    BY <2>1, <2>2 DEF Retry
  <2>5. attempt >= step.attempts
    BY <2>3, <2>4 DEF AttemptFailed
  <2> QED
    BY <2>2, <2>5
<1> QED
  BY <1>1, <1>2, AttemptStep, Invariance, PTL DEF Spec, GivesUpAfterAllAttempts

\* Whatever the provider and the page do, the executor leaves no step that it
\* has not settled.
THEOREM EveryStepIsSettled == Spec => SettlesEveryStep
  BY OnlySettledStepsAreLeft, GivesUpLate DEF SettlesEveryStep

----------------------------------------------------------------------------
(* Replans, and what a run that passed has covered.                        *)

\* The plan changes by a replan only, of the step at hand.
LEMMA WhoReplans ==
  ASSUME IInv, [Next]_vars, plan' # plan
  PROVE  Replan /\ pc # "done" /\ stepIndex <= Len(plan)
BY DEF Next, vars, PreconditionsHold, PreconditionsFail, ActionResolved, ActionUnresolved, PolicyRefuses,
       Execute, CheckPostconditions, Recover, CheckAssertions, RepeatUntilHolds, RepeatUntilFails,
       FinalAssertions, Throw, AttemptFailed, ReplanOr, NextStep, Retry, Fail, Stop, InStep

\* For every provider, also one that patches steps it was not asked about.
THEOREM AssertionsAreNeverWeakened == Spec => StrongestAssertionsKept
<1> DEFINE Kept == \A a \in DOMAIN plan : \E b \in DOMAIN plan' : plan'[b].asserts >= plan[a].asserts
<1>1. ASSUME IInv, [Next]_vars PROVE Kept
  <2>1. TypeOK /\ plan \in Plan
    BY <1>1 DEF IInv, TypeOK
  <2>2. CASE plan' = plan
    <3>1. \A a \in DOMAIN plan : plan[a].asserts \in Nat
      BY <2>1, PlanShape DEF Step
    <3>2. ASSUME NEW a \in DOMAIN plan
          PROVE  \E b \in DOMAIN plan' : plan'[b].asserts >= plan[a].asserts
      <4>1. a \in DOMAIN plan' /\ plan'[a].asserts >= plan[a].asserts
        BY <2>2, <3>1
      <4> QED
        BY <4>1
    <3> QED
      BY <3>2
  <2>3. CASE plan' # plan
    <3>1. plan' \in Replans(plan, step)
      BY <1>1, <2>3, WhoReplans DEF Replan
    <3> QED
      BY <2>1, <3>1, ReplanKeepsAssertions
  <2> QED
    BY <2>2, <2>3
<1> QED
  BY <1>1, Invariance, PTL DEF Spec, StrongestAssertionsKept

\* The ids of the plan stay different.
Different == UniqueIds(plan)

\* A replan keeps the steps before the one at hand.
LEMMA ReplanKeeps ==
  ASSUME PatchesTheFailedStep, IInv, Different, [Next]_vars, plan' # plan
  PROVE  /\ Different'
         /\ Before(plan', stepIndex) = Before(plan, stepIndex)
         /\ stepIndex - 1 <= Len(plan')
         /\ \A j \in 1 .. stepIndex - 1 : plan'[j] = plan[j]
<1>1. plan \in Plan /\ stepIndex \in 1 .. Len(plan)
  BY WhoReplans, PlanShape DEF IInv, TypeOK
<1>2. plan' \in Replans(plan, plan[stepIndex])
  BY WhoReplans DEF Replan, step
<1>3. UniqueIds(plan)
  BY DEF Different
<1>4. /\ UniqueIds(plan')
      /\ Before(plan', stepIndex) = Before(plan, stepIndex)
      /\ stepIndex - 1 <= Len(plan')
      /\ \A j \in 1 .. stepIndex - 1 : plan'[j] = plan[j]
  BY <1>1, <1>2, <1>3, ReplanKeepsPrefix
<1> QED
  BY <1>4 DEF Different

LEMMA DifferentStep ==
  ASSUME PatchesTheFailedStep, IInv, Different, [Next]_vars
  PROVE  Different'
<1>1. CASE plan' = plan
  BY <1>1 DEF Different, UniqueIds
<1> QED
  BY <1>1, ReplanKeeps

\* Replans neither rewrite what was executed nor weaken what is to come.
THEOREM ReplansAlwaysSafe ==
  ASSUME PatchesTheFailedStep
  PROVE  Spec => ReplansAreSafe
<1>1. Init => Different
  BY DEF Init, Different, PatchesTheFailedStep
<1>2. IInv /\ Different /\ [Next]_vars => Different'
  BY DifferentStep
<1>3. IInv /\ Different /\ [Next]_vars =>
        (plan' # plan => Before(plan', stepIndex) = Before(plan, stepIndex))
  BY ReplanKeeps
<1>4. Spec => ExecutedPrefixKept
  BY <1>1, <1>2, <1>3, Invariance, PTL DEF Spec, ExecutedPrefixKept
<1> QED
  BY <1>4, AssertionsAreNeverWeakened, PTL DEF ReplansAreSafe

\* The steps behind the loop have a valid record or an excuse, and a run that
\* passed has all steps behind it.
SettledIn(records, ws, id) ==
  (\E i \in DOMAIN records : records[i] = [id |-> id, ok |-> TRUE]) \/ ExcusedIn(ws, id)
Covered ==
  /\ \A i \in DOMAIN plan : i < stepIndex => SettledIn(steps, warnings, plan[i].id)
  /\ outcome = "ok" => stepIndex > Len(plan)

\* Records and warnings are only ever added.
LEMMA RecordsStay ==
  ASSUME IInv, [Next]_vars, NEW id, SettledIn(steps, warnings, id)
  PROVE  SettledIn(steps', warnings', id)
<1>1. warnings \subseteq warnings'
  BY DEF Next, vars, PreconditionsHold, PreconditionsFail, ActionResolved, ActionUnresolved, PolicyRefuses,
         Execute, CheckPostconditions, Recover, CheckAssertions, RepeatUntilHolds, RepeatUntilFails,
         FinalAssertions, Throw, Warn, result
<1>2. \/ steps' = steps
      \/ \E record \in QaStep : steps' = Append(steps, record)
  <2>1. stepIndex <= Len(plan) => Record(TRUE) \in QaStep /\ Record(FALSE) \in QaStep
    BY RecordType DEF IInv
  <2>2. [id |-> PlanAssertions, ok |-> FALSE] \in QaStep
    BY DEF QaStep
  <2> QED
    BY <2>1, <2>2 DEF Next, vars, PreconditionsHold, PreconditionsFail, ActionResolved, ActionUnresolved,
       PolicyRefuses, Execute, CheckPostconditions, Recover, CheckAssertions, RepeatUntilHolds,
       RepeatUntilFails, FinalAssertions, Throw, AttemptFailed, InStep, result
<1>3. steps \in Seq(QaStep)
  BY DEF IInv, TypeOK
<1>4. \A i \in DOMAIN steps : i \in DOMAIN steps' /\ steps'[i] = steps[i]
  <2>1. CASE steps' = steps
    BY <2>1
  <2>2. ASSUME NEW record \in QaStep, steps' = Append(steps, record)
        PROVE  \A i \in DOMAIN steps : i \in DOMAIN steps' /\ steps'[i] = steps[i]
    BY <1>3, <2>2, AppendProperties, LenProperties
  <2> QED
    BY <1>2, <2>1, <2>2
<1> QED
  BY <1>1, <1>4 DEF SettledIn, ExcusedIn

\* Leaving a step settles it.
LEMMA LeftSettled ==
  ASSUME IInv, [Next]_vars, stepIndex' # stepIndex
  PROVE  /\ stepIndex' = stepIndex + 1 /\ plan' = plan /\ stepIndex <= Len(plan)
         /\ SettledIn(steps', warnings', step.id)
<1>1. /\ stepIndex' = stepIndex + 1
      /\ plan' = plan
      /\ ExcusedIn(warnings', step.id) \/ (steps' # << >> /\ LastStep' = Record(TRUE))
  BY Leaving
<1>2. stepIndex <= Len(plan) /\ steps' \in Seq(QaStep)
  <2>1. TypeOK'
    BY StepInv DEF IInv
  <2> QED
    BY <2>1, WhoMovesOn DEF TypeOK, PreconditionsFail, Recover, RepeatUntilHolds, InStep
<1>3. CASE ExcusedIn(warnings', step.id)
  BY <1>1, <1>2, <1>3 DEF SettledIn
<1>4. CASE steps' # << >> /\ LastStep' = Record(TRUE)
  <2>1. Len(steps') \in DOMAIN steps'
    BY <1>2, <1>4, EmptySeq, LenProperties
  <2>2. steps'[Len(steps')] = [id |-> step.id, ok |-> TRUE]
    BY <1>4 DEF LastStep, Record
  <2> QED
    BY <1>1, <1>2, <2>1, <2>2 DEF SettledIn
<1> QED
  BY <1>1, <1>3, <1>4

LEMMA CoveredStep ==
  ASSUME PatchesTheFailedStep, IInv, Different, Covered, [Next]_vars
  PROVE  Covered'
<1>1. /\ TypeOK /\ Control /\ plan \in Plan /\ stepIndex \in Nat \ {0}
      /\ plan' \in Plan /\ stepIndex' \in Nat \ {0}
  BY StepInv DEF IInv, TypeOK
<1>2. \A i \in DOMAIN plan' : i < stepIndex' => SettledIn(steps', warnings', plan'[i].id)
  <2> SUFFICES ASSUME NEW i \in 1 .. Len(plan'), i < stepIndex'
               PROVE  SettledIn(steps', warnings', plan'[i].id)
    BY <1>1, PlanShape
  <2>1. CASE stepIndex' # stepIndex /\ i = stepIndex
    BY <2>1, LeftSettled DEF step
  <2>2. CASE stepIndex' # stepIndex /\ i # stepIndex
    <3>1. i \in DOMAIN plan /\ i < stepIndex /\ plan'[i] = plan[i]
      BY <1>1, <2>2, LeftSettled, PlanShape
    <3>2. SettledIn(steps, warnings, plan[i].id)
      BY <3>1 DEF Covered
    <3> QED
      BY <3>1, <3>2, RecordsStay
  <2>3. CASE stepIndex' = stepIndex
    <3>1. i \in DOMAIN plan /\ i < stepIndex /\ plan'[i] = plan[i]
      <4>1. CASE plan' = plan
        BY <1>1, <2>3, <4>1, PlanShape
      <4>2. CASE plan' # plan
        <5>1. stepIndex <= Len(plan) /\ i \in 1 .. stepIndex - 1
          BY <1>1, <2>3, <4>2, WhoReplans, PlanShape
        <5>2. plan'[i] = plan[i]
          BY <4>2, <5>1, ReplanKeeps
        <5> QED
          BY <1>1, <2>3, <5>1, <5>2, PlanShape
      <4> QED
        BY <4>1, <4>2
    <3>2. SettledIn(steps, warnings, plan[i].id)
      BY <3>1 DEF Covered
    <3> QED
      BY <3>1, <3>2, RecordsStay
  <2> QED
    BY <2>1, <2>2, <2>3
<1>3. outcome' = "ok" => stepIndex' > Len(plan')
  <2> SUFFICES ASSUME outcome' = "ok" PROVE stepIndex' > Len(plan')
    OBVIOUS
  <2>1. CASE outcome = "ok"
    <3>1. pc = "done" /\ stepIndex > Len(plan)
      BY <1>1, <2>1 DEF Control, Covered
    <3>2. UNCHANGED <<plan, stepIndex>>
      BY <3>1 DEF Next, vars, PreconditionsHold, PreconditionsFail, ActionResolved, ActionUnresolved,
         PolicyRefuses, Execute, CheckPostconditions, Recover, CheckAssertions, RepeatUntilHolds,
         RepeatUntilFails, FinalAssertions, Throw, InStep
    <3> QED
      BY <3>1, <3>2
  <2>2. CASE outcome # "ok"
    <3>1. stepIndex > Len(plan) /\ UNCHANGED <<plan, stepIndex>>
      BY <2>2 DEF Next, vars, PreconditionsHold, PreconditionsFail, ActionResolved, ActionUnresolved,
         PolicyRefuses, Execute, CheckPostconditions, Recover, CheckAssertions, RepeatUntilHolds,
         RepeatUntilFails, FinalAssertions, Throw, AttemptFailed, Replan, ReplanOr, NextStep, Retry, Fail, Stop
    <3> QED
      BY <3>1
  <2> QED
    BY <2>1, <2>2
<1> QED
  BY <1>2, <1>3 DEF Covered

\* A run that passed has, for each step of the plan it ended with, a valid
\* record or a warning that excuses it.
THEOREM PassedRunsCoverTheirPlan ==
  ASSUME PatchesTheFailedStep
  PROVE  Spec => []OkCoversFinalPlan
<1>1. Init => Different /\ Covered
  <2> SUFFICES ASSUME Init PROVE Different /\ Covered
    OBVIOUS
  <2>1. plan \in Plan /\ stepIndex = 1 /\ outcome = "running"
    BY PlansAssumption DEF Init
  <2>2. \A i \in DOMAIN plan : ~(i < stepIndex)
    BY <2>1, PlanShape
  <2> QED
    BY <2>1, <2>2 DEF Init, Different, PatchesTheFailedStep, Covered
<1>2. IInv /\ Different /\ [Next]_vars => Different'
  BY DifferentStep
<1>3. IInv /\ Different /\ Covered /\ [Next]_vars => Covered'
  BY CoveredStep
<1>4. IInv /\ Covered => OkCoversFinalPlan
  <2> SUFFICES ASSUME IInv, Covered, outcome = "ok", NEW i \in DOMAIN plan
               PROVE  Valid(plan[i].id) \/ Excused(plan[i].id)
    BY DEF OkCoversFinalPlan
  <2>1. plan \in Plan /\ stepIndex \in Nat /\ stepIndex > Len(plan)
    BY DEF IInv, TypeOK, Covered
  <2>2. i < stepIndex
    BY <2>1, PlanShape
  <2> QED
    BY <2>2 DEF Covered, SettledIn, Valid, Excused
<1> QED
  BY <1>1, <1>2, <1>3, <1>4, Invariance, PTL DEF Spec

----------------------------------------------------------------------------
(* The executor implements the contract of a plan run.                     *)

\* A step that keeps the plan, the position and the budget is a stutter of the
\* contract, or ends the run as the contract allows.
LEMMA RunStep == IInv /\ [Next]_vars => [Run!RunNext]_Run!runVars
<1> SUFFICES ASSUME IInv, [Next]_vars PROVE [Run!RunNext]_Run!runVars
  OBVIOUS
<1> USE DEF Run!RunNext, Run!runVars
<1>1. TypeOK /\ Len(plan) \in Nat /\ stepIndex \in Nat /\ (pc # "done" => outcome = "running")
  BY PlanShape DEF IInv, Control, TypeOK
<1>2. CASE UNCHANGED <<plan, stepIndex, replans, outcome>>
  BY <1>2
<1>3. CASE pc # "done" /\ stepIndex <= Len(plan) /\ NextStep
  BY <1>1, <1>3 DEF NextStep, Run!LeaveStep
<1>4. CASE pc # "done" /\ stepIndex <= Len(plan) /\ Replan
  <2>1. plan' \in Run!Plan
    BY <1>1, <1>4, ReplanEffect DEF Plan, Step, Run!Plan, Run!Step
  <2> QED
    BY <1>1, <1>4, <2>1 DEF Replan, Run!RewritePlan
<1>5. CASE pc # "done" /\ (Stop("failed") \/ Stop("thrown"))
  BY <1>1, <1>5 DEF Stop, Run!GiveUp
<1>6. CASE pc # "done" /\ stepIndex > Len(plan) /\ Stop("ok")
  BY <1>1, <1>6 DEF Stop, Run!Succeed
<1>7. \/ UNCHANGED <<plan, stepIndex, replans, outcome>>
      \/ pc # "done" /\ stepIndex <= Len(plan) /\ NextStep
      \/ pc # "done" /\ stepIndex <= Len(plan) /\ Replan
      \/ pc # "done" /\ (Stop("failed") \/ Stop("thrown"))
      \/ pc # "done" /\ stepIndex > Len(plan) /\ Stop("ok")
  BY DEF Next, vars, PreconditionsHold, PreconditionsFail, ActionResolved, ActionUnresolved, PolicyRefuses,
         Execute, CheckPostconditions, Recover, CheckAssertions, RepeatUntilHolds, RepeatUntilFails,
         FinalAssertions, Throw, AttemptFailed, ReplanOr, Retry, Fail, InStep
<1> QED
  BY <1>2, <1>3, <1>4, <1>5, <1>6, <1>7

\* The legacy engine leaves steps in order, rewrites the plan within the budget
\* and decides the outcome once, for every plan and every provider.
THEOREM ExecutorImplementsRun == Spec => ImplementsPlanRun
<1>1. Init => Run!RunInit
  BY DEF Init, Run!RunInit
<1> QED
  BY <1>1, RunStep, Invariance, PTL DEF Spec, ImplementsPlanRun, Run!RunSpec

---------------------------------------------------------------------------
(* The best of some elements.                                               *)

\* The highest score, then the most actionable, then the first.
IsBest(i, S, f, a) ==
  \A j \in S \ {i} :
    \/ f[i] > f[j]
    \/ /\ f[i] = f[j]
       /\ \/ a[i] > a[j]
          \/ (a[i] = a[j] /\ i < j)

LEMMA OneIsBest ==
  ASSUME NEW N \in Nat, NEW S \in SUBSET (1 .. N), S # {},
         NEW f \in [S -> Nat], NEW a \in [S -> 0 .. 3]
  PROVE  \E i \in S : IsBest(i, S, f, a)
<1> DEFINE w(i) == 4 * f[i] + a[i]
           g == [i \in 1 .. N |-> IF i \in S THEN w(i) ELSE 0]
<1>1. \A i \in S : f[i] \in Nat /\ a[i] \in 0 .. 3 /\ i \in Nat
  OBVIOUS
<1>2. \A i \in S : w(i) \in Nat
  BY <1>1
<1>3. g \in [1 .. N -> Nat]
  BY <1>2
<1>4. PICK b \in Nat : \A i \in 1 .. N : g[i] <= b
  <2> HIDE DEF g
  <2> QED BY <1>3, FinitelyManyAreBounded
<1>5. \A i \in S : w(i) <= b
  BY <1>4
<1> HIDE DEF w
<1> DEFINE T == {d \in Nat : \E i \in S : d = b - w(i)}
<1>6. \A i \in S : b - w(i) \in T
  BY <1>2, <1>5
<1>7. PICK d \in T : \A e \in T : d <= e
  <2>1. T # {} /\ T \in SUBSET Nat
    BY <1>6
  <2> HIDE DEF T
  <2> QED BY <2>1, Least
<1> DEFINE M == {i \in S : d = b - w(i)}
<1>8. PICK i \in M : \A j \in M : i <= j
  <2>1. M # {} /\ M \in SUBSET Nat
    BY <1>1
  <2> HIDE DEF M
  <2> QED BY <2>1, Least
<1>9. \A j \in S : b - w(i) <= b - w(j)
  BY <1>6, <1>7
<1>10. ASSUME NEW j \in S \ {i}
       PROVE  \/ f[i] > f[j]
              \/ /\ f[i] = f[j]
                 /\ \/ a[i] > a[j]
                    \/ (a[i] = a[j] /\ i < j)
  <2>1. w(i) \in Nat /\ w(j) \in Nat /\ w(j) <= w(i)
    BY <1>2, <1>9
  <2>2. 4 * f[j] + a[j] <= 4 * f[i] + a[i]
    BY <2>1 DEF w
  <2>3. w(j) = w(i) => i < j
    <3>1. w(j) = w(i) => j \in M
      OBVIOUS
    <3>2. i \in Nat /\ j \in Nat /\ i # j
      BY <1>1
    <3> QED BY <1>8, <3>1, <3>2
  <2>4. 4 * f[j] + a[j] = 4 * f[i] + a[i] => i < j
    BY <2>3 DEF w
  <2>5. f[i] \in Nat /\ a[i] \in 0 .. 3 /\ f[j] \in Nat /\ a[j] \in 0 .. 3
    BY <1>1
  <2> HIDE DEF M, T, g
  <2> QED BY <2>2, <2>4, <2>5
<1> QED BY <1>10 DEF IsBest

---------------------------------------------------------------------------
(* From the nodes of a page to its elements.                                *)

\* What leads to an element leads to the node it was made from, where the page
\* leaves no doubt.
Tells(e, nodes) ==
  Clear(nodes) =>
    \A j \in DOMAIN nodes : Matches(nodes[j], e.locator) => nodes[j].uid = e.node

\* What the accessibility tree and the DOM make of the node.
IsAx(e, node) == node.role \in Interesting /\ e = AxElement(node)
IsDom(e, node) == node.domRole # "none" /\ e = DomElement(node)
MadeOf(e, node) == IsAx(e, node) \/ IsDom(e, node)

LEMMA MadeOfRole ==
  ASSUME NEW e, NEW node, MadeOf(e, node)
  PROVE  e.role \in RolesOf(node) /\ e.name = node.name /\ e.node = node.uid
<1>1. CASE IsAx(e, node)
  <2>1. e.role = NormalizeRole(node.role) /\ e.name = node.name /\ e.node = node.uid
    BY <1>1 DEF IsAx, AxElement
  <2>2. NormalizeRole(node.role) # "none"
    BY <1>1 DEF IsAx, Interesting, NormalizeRole
  <2> QED BY <2>1, <2>2 DEF RolesOf
<1>2. CASE IsDom(e, node)
  BY <1>2 DEF IsDom, DomElement, RolesOf
<1> QED BY <1>1, <1>2 DEF MadeOf

\* On a clear page two elements of one kind are of one node.
LEMMA OneKindOneNode ==
  ASSUME NEW nodes, Clear(nodes), NEW i \in DOMAIN nodes, NEW j \in DOMAIN nodes,
         NEW e, NEW f, MadeOf(e, nodes[i]), MadeOf(f, nodes[j]), SameKey(e, f)
  PROVE  i = j
<1>1. e.role \in RolesOf(nodes[i]) /\ f.role \in RolesOf(nodes[j])
      /\ e.name = nodes[i].name /\ f.name = nodes[j].name
  BY MadeOfRole
<1>2. RolesOf(nodes[i]) \cap RolesOf(nodes[j]) # {} /\ nodes[i].name \subseteq nodes[j].name
  BY <1>1 DEF SameKey
<1> QED BY <1>2 DEF Clear

\* On a clear page the locator of an element fits one node only.
LEMMA LocatorFitsOne ==
  ASSUME NEW nodes, Clear(nodes), NEW i \in DOMAIN nodes, NEW j \in DOMAIN nodes,
         NEW e, MadeOf(e, nodes[i]), Matches(nodes[j], e.locator)
  PROVE  i = j
<1> SUFFICES ASSUME i # j PROVE FALSE
  OBVIOUS
<1> DEFINE m == nodes[i]
           n == nodes[j]
<1>1. /\ RolesOf(m) \cap RolesOf(n) # {} =>
            ~(m.name \subseteq n.name) /\ m.tag \notin {"textarea", "contenteditable"}
      /\ m.testid # {} => m.testid # n.testid
      /\ m.label # {} => ~(m.label \subseteq n.label)
      /\ m.placeholder # {} => ~(m.placeholder \subseteq n.placeholder)
  BY DEF Clear
<1>2. CASE IsAx(e, m)
  <2>1. e.locator = [by |-> "role", role |-> NormalizeRole(m.role), texts |-> {m.name}]
    BY <1>2 DEF IsAx, AxElement, ByRole, Locator
  <2>2. n.role = NormalizeRole(m.role) /\ m.name \subseteq n.name
    BY <2>1 DEF Matches
  <2>3. NormalizeRole(m.role) # "none"
    BY <1>2 DEF IsAx, Interesting, NormalizeRole
  <2>4. NormalizeRole(m.role) \in RolesOf(m) \cap RolesOf(n)
    BY <2>2, <2>3 DEF RolesOf
  <2> QED BY <1>1, <2>2, <2>4
<1>3. CASE IsDom(e, m)
  <2>1. e.locator = DomLocator(m) /\ m.domRole # "none"
    BY <1>3 DEF IsDom, DomElement
  <2>2. CASE m.testid # {}
    <3>1. e.locator = [by |-> "testid", role |-> "none", texts |-> {m.testid}]
      BY <2>1, <2>2 DEF DomLocator, Locator
    <3> QED BY <1>1, <2>2, <3>1 DEF Matches
  <2>3. CASE m.testid = {} /\ m.label # {}
    <3>1. e.locator = [by |-> "label", role |-> "none", texts |-> {m.label}]
      BY <2>1, <2>3 DEF DomLocator, Locator
    <3> QED BY <1>1, <2>3, <3>1 DEF Matches
  <2>4. CASE m.testid = {} /\ m.label = {} /\ m.placeholder # {}
    <3>1. e.locator = [by |-> "placeholder", role |-> "none", texts |-> {m.placeholder}]
      BY <2>1, <2>4 DEF DomLocator, Locator
    <3> QED BY <1>1, <2>4, <3>1 DEF Matches
  <2>5. CASE m.testid = {} /\ m.label = {} /\ m.placeholder = {}
    <3>1. e.locator = IF m.tag \in {"textarea", "contenteditable"}
                      THEN Locator("role", m.domRole, {}) ELSE ByRole(m.domRole, m.name)
      BY <2>1, <2>5 DEF DomLocator
    <3>2. e.locator.by = "role" /\ e.locator.role = m.domRole
          /\ e.locator.texts = (IF m.tag \in {"textarea", "contenteditable"} THEN {} ELSE {m.name})
      BY <3>1 DEF Locator, ByRole
    <3>3. n.role = m.domRole /\ \A name \in e.locator.texts : name \subseteq n.name
      BY <3>2 DEF Matches
    <3>4. m.domRole \in RolesOf(m) \cap RolesOf(n)
      BY <2>1, <3>3 DEF RolesOf
    <3> QED BY <1>1, <3>2, <3>3, <3>4
  <2> QED BY <2>2, <2>3, <2>4, <2>5
<1> QED BY <1>2, <1>3 DEF MadeOf

\* A sequence, each element of which tells.
Observation(els, nodes) ==
  /\ els \in Seq({els[i] : i \in DOMAIN els})
  /\ \A i \in DOMAIN els : Tells(els[i], nodes)

\* A sequence of elements made of nodes.
MadeOfAll(els, nodes) ==
  /\ els \in Seq({els[i] : i \in DOMAIN els})
  /\ \A i \in DOMAIN els : \E k \in DOMAIN nodes : MadeOf(els[i], nodes[k])

LEMMA AxElementsAreMade ==
  ASSUME NEW N, NEW nodes \in Seq(N)
  PROVE  MadeOfAll(AxElements(nodes), nodes)
<1> DEFINE places == {i \in DOMAIN nodes :
              nodes[i].shown /\ nodes[i].role \in Interesting /\ nodes[i].name # {}}
<1>1. PICK these : these = Those(nodes, places)
  OBVIOUS
<1>2. /\ these \in Seq(N)
      /\ \A n \in DOMAIN these : \E i \in places : these[n] = nodes[i]
  <2>1. places \in SUBSET DOMAIN nodes
    OBVIOUS
  <2> HIDE DEF places
  <2> QED BY <1>1, <2>1, ThoseAreThere
<1>3. PICK els : els = [n \in DOMAIN these |-> AxElement(these[n])]
  OBVIOUS
<1>4. AxElements(nodes) = els
  BY <1>1, <1>3 DEF AxElements
<1>5. DOMAIN these = 1 .. Len(these) /\ Len(these) \in Nat
  BY <1>2
<1>6. els \in Seq({els[i] : i \in DOMAIN els})
  BY <1>3, <1>5
<1>7. \A n \in DOMAIN els : \E k \in DOMAIN nodes : MadeOf(els[n], nodes[k])
  BY <1>2, <1>3 DEF MadeOf, IsAx
<1> QED BY <1>4, <1>6, <1>7 DEF MadeOfAll

LEMMA DomElementsAreMade ==
  ASSUME NEW N, NEW nodes \in Seq(N)
  PROVE  MadeOfAll(DomElements(nodes), nodes)
<1> DEFINE places == {i \in DOMAIN nodes :
              nodes[i].shown /\ nodes[i].domRole # "none" /\ nodes[i].name # {}}
<1>1. PICK these : these = Those(nodes, places)
  OBVIOUS
<1>2. /\ these \in Seq(N)
      /\ \A n \in DOMAIN these : \E i \in places : these[n] = nodes[i]
  <2>1. places \in SUBSET DOMAIN nodes
    OBVIOUS
  <2> HIDE DEF places
  <2> QED BY <1>1, <2>1, ThoseAreThere
<1>3. PICK els : els = [n \in DOMAIN these |-> DomElement(these[n])]
  OBVIOUS
<1>4. DomElements(nodes) = els
  BY <1>1, <1>3 DEF DomElements
<1>5. DOMAIN these = 1 .. Len(these) /\ Len(these) \in Nat
  BY <1>2
<1>6. els \in Seq({els[i] : i \in DOMAIN els})
  BY <1>3, <1>5
<1>7. \A n \in DOMAIN els : \E k \in DOMAIN nodes : MadeOf(els[n], nodes[k])
  BY <1>2, <1>3 DEF MadeOf, IsDom
<1> QED BY <1>4, <1>6, <1>7 DEF MadeOfAll

\* Of the joined elements the locator of one of the best strategy is taken.
LEMMA BestLocatorIsThere ==
  ASSUME NEW N \in Nat, NEW J \in SUBSET (1 .. N), J # {}, NEW r \in [J -> Nat]
  PROVE  \E j \in J : \A k \in J : r[j] < r[k] \/ (r[j] = r[k] /\ j <= k)
<1> DEFINE T == {r[j] : j \in J}
<1>1. PICK t \in T : \A u \in T : t <= u
  <2>1. T # {} /\ T \in SUBSET Nat
    OBVIOUS
  <2> HIDE DEF T
  <2> QED BY <2>1, Least
<1> DEFINE M == {j \in J : r[j] = t}
<1>2. PICK j \in M : \A k \in M : j <= k
  <2>1. PICK i \in J : r[i] = t
    OBVIOUS
  <2>2. i \in M /\ \A e \in M : e \in Nat
    BY <2>1
  <2> HIDE DEF M
  <2>3. M # {} /\ M \in SUBSET Nat
    BY <2>2
  <2> QED BY <2>3, Least
<1>3. ASSUME NEW k \in J PROVE r[j] < r[k] \/ (r[j] = r[k] /\ j <= k)
  <2>1. r[j] = t /\ r[k] \in Nat /\ t \in Nat /\ t <= r[k]
    BY <1>1
  <2>2. r[k] = t => j <= k
    BY <1>2
  <2> HIDE DEF M, T
  <2> QED BY <2>1, <2>2
<1> QED BY <1>3

LEMMA RankIsANumber ==
  ASSUME NEW l
  PROVE  Rank(l) \in Nat
<1> DEFINE I == {i \in 1 .. Len(Order) : Order[i] = l.by}
<1>1. Rank(l) = IF I # {} THEN Min(I) ELSE 0
  BY DEF Rank, SelectInSeq
<1>2. I \in SUBSET Nat
  OBVIOUS
<1> HIDE DEF I
<1>3. I # {} => Min(I) \in I
  BY <1>2, MinIsThere
<1>4. CASE I = {}
  BY <1>1, <1>4
<1>5. CASE I # {}
  BY <1>1, <1>2, <1>3, <1>5
<1> QED BY <1>4, <1>5

LEMMA JoiningKeepsNode ==
  ASSUME NEW e, NEW node, MadeOf(e, node), NEW l, NEW b
  PROVE  LET x == [e EXCEPT !.locator = l, !.inView = b]
         IN  x.locator = l /\ x.node = e.node
BY DEF MadeOf, IsAx, IsDom, AxElement, DomElement

LEMMA ElementsOfItself ==
  ASSUME NEW E, NEW s \in Seq(E)
  PROVE  s \in Seq({s[i] : i \in DOMAIN s})
OBVIOUS

LEMMA MergeTells ==
  ASSUME NEW nodes, NEW tree, NEW dom, MadeOfAll(tree, nodes), MadeOfAll(dom, nodes)
  PROVE  Observation(Merge(tree, dom), nodes)
<1> DEFINE all == tree \o dom
<1>1. PICK A : tree \in Seq(A) /\ dom \in Seq(A) /\ \A x \in A : \E k \in DOMAIN nodes : MadeOf(x, nodes[k])
  <2> DEFINE A == {tree[i] : i \in DOMAIN tree} \cup {dom[i] : i \in DOMAIN dom}
  <2>1. tree \in Seq(A) /\ dom \in Seq(A)
    BY DEF MadeOfAll
  <2>2. \A x \in A : \E k \in DOMAIN nodes : MadeOf(x, nodes[k])
    BY DEF MadeOfAll
  <2> HIDE DEF A
  <2> QED BY <2>1, <2>2
<1>2. all \in Seq(A) /\ Len(all) \in Nat /\ DOMAIN all = 1 .. Len(all) /\ Len(tree) \in Nat
  BY <1>1
<1>3. \A i \in DOMAIN all : \E k \in DOMAIN nodes : MadeOf(all[i], nodes[k])
  BY <1>1, <1>2
<1> DEFINE joined(i) == {i} \cup {j \in Len(tree) + 1 .. Len(all) : SameKey(all[j], all[i])}
           best(i) == CHOOSE j \in joined(i) : \A k \in joined(i) :
                        \/ Rank(all[j].locator) < Rank(all[k].locator)
                        \/ (Rank(all[j].locator) = Rank(all[k].locator) /\ j <= k)
           merged(i) == [all[i] EXCEPT !.locator = all[best(i)].locator,
                                       !.inView = \E j \in joined(i) : all[j].inView]
           firsts == {i \in DOMAIN all : \A j \in 1 .. i - 1 : ~SameKey(all[j], all[i])}
<1>4. Merge(tree, dom) = Those([i \in DOMAIN all |-> merged(i)], firsts)
  BY DEF Merge, MergeBy
<1> HIDE DEF all
<1>5. \A i \in DOMAIN all : joined(i) \in SUBSET DOMAIN all
  BY <1>2
<1>6. ASSUME NEW i \in DOMAIN all PROVE best(i) \in joined(i)
  <2>1. PICK J : J = joined(i)
    OBVIOUS
  <2>2. J \in SUBSET (1 .. Len(all)) /\ J # {}
    BY <1>2, <1>5, <2>1
  <2> DEFINE r == [j \in J |-> Rank(all[j].locator)]
  <2>3. r \in [J -> Nat]
    BY RankIsANumber
  <2>4. \E j \in J : \A k \in J : r[j] < r[k] \/ (r[j] = r[k] /\ j <= k)
    <3> HIDE DEF r, joined
    <3> QED BY <1>2, <2>2, <2>3, BestLocatorIsThere
  <2>5. \E j \in J : \A k \in J :
          \/ Rank(all[j].locator) < Rank(all[k].locator)
          \/ (Rank(all[j].locator) = Rank(all[k].locator) /\ j <= k)
    BY <2>4
  <2> HIDE DEF joined, r
  <2> QED BY <2>1, <2>5
<1>7. ASSUME NEW i \in DOMAIN all PROVE Tells(merged(i), nodes)
  <2>1. PICK k \in DOMAIN nodes : MadeOf(all[i], nodes[k])
    BY <1>3
  <2>2. PICK b : b = best(i)
    OBVIOUS
  <2>3. b \in DOMAIN all /\ (b = i \/ SameKey(all[b], all[i]))
    BY <1>5, <1>6, <2>2
  <2>4. PICK h \in DOMAIN nodes : MadeOf(all[b], nodes[h])
    BY <1>3, <2>3
  <2>5. PICK x : x = merged(i)
    OBVIOUS
  <2>6. x.locator = all[b].locator /\ x.node = all[i].node
    BY <2>1, <2>2, <2>5, JoiningKeepsNode
  <2> HIDE DEF joined, best, merged
  <2>7. ASSUME Clear(nodes), NEW j \in DOMAIN nodes, Matches(nodes[j], x.locator)
        PROVE  nodes[j].uid = x.node
    <3>1. h = j
      BY <2>4, <2>6, <2>7, LocatorFitsOne
    <3>2. b # i => h = k
      BY <2>1, <2>3, <2>4, <2>7, OneKindOneNode
    <3>3. x.node = nodes[k].uid /\ all[b].node = nodes[h].uid
      BY <2>1, <2>4, <2>6, MadeOfRole
    <3> QED BY <3>1, <3>2, <3>3, <2>6
  <2> QED BY <2>5, <2>7 DEF Tells
<1>8. PICK m : m = [i \in DOMAIN all |-> merged(i)]
  OBVIOUS
<1>9. m \in Seq({m[i] : i \in DOMAIN m}) /\ DOMAIN m = DOMAIN all
  <2> HIDE DEF merged
  <2> QED BY <1>2, <1>8
<1>10. PICK f : f = firsts
  OBVIOUS
<1>11. f \in SUBSET DOMAIN m
  BY <1>9, <1>10
<1>12. Merge(tree, dom) = Those(m, f)
  BY <1>4, <1>8, <1>10
<1>13. \A i \in DOMAIN m : Tells(m[i], nodes)
  BY <1>7, <1>8
<1> HIDE DEF merged, joined, best, firsts
<1>14. /\ Those(m, f) \in Seq({m[i] : i \in DOMAIN m})
       /\ \A n \in DOMAIN Those(m, f) : \E i \in f : Those(m, f)[n] = m[i]
  BY <1>9, <1>11, ThoseAreThere
<1>15. \A n \in DOMAIN Those(m, f) : Tells(Those(m, f)[n], nodes)
  BY <1>11, <1>13, <1>14
<1> QED BY <1>12, <1>14, <1>15, ElementsOfItself DEF Observation

LEMMA PrioritizeTells ==
  ASSUME NEW nodes, NEW els, Observation(els, nodes)
  PROVE  Observation(Prioritize(els), nodes)
<1>1. PICK E : E = {els[i] : i \in DOMAIN els}
  OBVIOUS
<1>2. els \in Seq(E) /\ \A x \in E : Tells(x, nodes)
  BY <1>1 DEF Observation
<1>3. \A places \in SUBSET DOMAIN els : Those(els, places) \in Seq(E)
  BY <1>2, ThoseAreThere
<1>4. \E a, b, c \in SUBSET DOMAIN els :
        Prioritize(els) = Those(els, a) \o Those(els, b) \o Those(els, c)
  BY DEF Prioritize
<1>5. Prioritize(els) \in Seq(E)
  BY <1>3, <1>4
<1>6. \A i \in DOMAIN Prioritize(els) : Tells(Prioritize(els)[i], nodes)
  BY <1>2, <1>5
<1> QED BY <1>5, <1>6, ElementsOfItself DEF Observation

LEMMA ObservedTells ==
  ASSUME LocatorsAssumption, NEW nodes, NEW tree, NEW dom, MadeOfAll(tree, nodes), MadeOfAll(dom, nodes)
  PROVE  Observation(Observed(tree, dom), nodes)
<1>1. PICK all : all = Prioritize(Merge(tree, dom))
  OBVIOUS
<1>2. Observation(all, nodes)
  BY <1>1, MergeTells, PrioritizeTells
<1>3. PICK E : E = {all[i] : i \in DOMAIN all}
  OBVIOUS
<1>4. all \in Seq(E) /\ \A x \in E : Tells(x, nodes)
  BY <1>2, <1>3 DEF Observation
<1>5. Observed(tree, dom) = IF Len(all) > MaxElements THEN SubSeq(all, 1, MaxElements) ELSE all
  BY <1>1 DEF Observed
<1>6. Observed(tree, dom) \in Seq(E)
  BY <1>4, <1>5 DEF LocatorsAssumption
<1>7. \A i \in DOMAIN Observed(tree, dom) : Tells(Observed(tree, dom)[i], nodes)
  BY <1>4, <1>6
<1> QED BY <1>6, <1>7, ElementsOfItself DEF Observation

---------------------------------------------------------------------------
(* From a locator to a node and to an element.                              *)

LEMMA ReachedMatches ==
  ASSUME NEW N, NEW nodes \in Seq(N), NEW l, Reach(nodes, l) # Nothing
  PROVE  \E i \in DOMAIN nodes : Reach(nodes, l) = nodes[i] /\ Matches(nodes[i], l)
<1> DEFINE I == {i \in 1 .. Len(nodes) : nodes[i].shown /\ Matches(nodes[i], l)}
           k == IF I # {} THEN Min(I) ELSE 0
<1>1. Reach(nodes, l) = IF k = 0 THEN Nothing ELSE nodes[k]
  BY DEF Reach, SelectInSeq
<1>2. I \in SUBSET (1 .. Len(nodes)) /\ Len(nodes) \in Nat /\ DOMAIN nodes = 1 .. Len(nodes)
  OBVIOUS
<1>3. \A i \in I : i \in DOMAIN nodes /\ Matches(nodes[i], l)
  OBVIOUS
<1> HIDE DEF I
<1>4. k \in I
  BY <1>1, <1>2, LeastIsChosen
<1> QED BY <1>1, <1>3, <1>4

LEMMA FirstNonZeroIsOne ==
  ASSUME NEW E, NEW s \in Seq(E), FirstNonZero(s) # 0
  PROVE  \E i \in DOMAIN s : FirstNonZero(s) = s[i] /\ s[i] # 0
<1> DEFINE I == {i \in 1 .. Len(s) : s[i] # 0}
           k == IF I # {} THEN Min(I) ELSE 0
<1>1. FirstNonZero(s) = IF k = 0 THEN 0 ELSE s[k]
  BY DEF FirstNonZero, SelectInSeq
<1>2. I \in SUBSET (1 .. Len(s)) /\ Len(s) \in Nat /\ DOMAIN s = 1 .. Len(s)
  OBVIOUS
<1>3. \A i \in I : i \in DOMAIN s /\ s[i] # 0
  OBVIOUS
<1> HIDE DEF I
<1>4. k \in I
  BY <1>1, <1>2, LeastIsChosen
<1> QED BY <1>1, <1>3, <1>4

LEMMA SameIsRelated ==
  ASSUME NEW e, NEW l, SameElement(e, l),
         l.by \in {"text", "label", "placeholder", "testid"} => l.texts # {}
  PROVE  Related(e, l)
<1>1. \A t : InTexts(e, t) => t = {} \/ t \cap (e.name \cup e.text) # {}
  BY DEF InTexts, Includes
<1>2. CASE l.by = "role" /\ l.texts = {}
  BY <1>2 DEF SameElement, Related
<1> QED BY <1>1, <1>2 DEF SameElement, Related

\* The texts of a locator are some sets of words.
TextsOK(texts) == IsFiniteSet(texts) /\ \A t \in texts : IsFiniteSet(t)

LEMMA TextAnyScoreIsANumber ==
  ASSUME NEW e, NEW texts, TextsOK(texts)
  PROVE  TextAnyScore(e, texts) \in Nat
<1> DEFINE g == [t \in texts |->
            IF e.name \cup e.text = t THEN 100 + Cardinality(t)
            ELSE IF e.name = t THEN 90 + Cardinality(t)
            ELSE IF InTexts(e, t) THEN 50 + Cardinality(t) ELSE 0]
<1>1. \A t \in texts : Cardinality(t) \in Nat
  BY FS_CardinalityType DEF TextsOK
<1>2. g \in [texts -> Nat]
  BY <1>1
<1>3. TextAnyScore(e, texts) = Max({0} \cup {g[t] : t \in texts})
  BY DEF TextAnyScore
<1> HIDE DEF g
<1>4. Max({0} \cup {g[t] : t \in texts}) \in {0} \cup {g[t] : t \in texts}
  BY <1>2, LargestValue DEF TextsOK
<1> QED BY <1>2, <1>3, <1>4

LEMMA MatchScoreIsRelated ==
  ASSUME NEW e, NEW texts, TextsOK(texts)
  PROVE  /\ MatchScore(e, texts) \in Nat
         /\ MatchScore(e, texts) >= 75 =>
              \E t \in texts : t \cap (e.name \cup e.text) # {}
<1> DEFINE w == e.name \cup e.text
           S == {u \in texts : Cardinality(u) >= 2}
           g == [t \in S |-> (100 * Cardinality(t \cap w)) \div Cardinality(t)]
<1>1. IsFiniteSet(S)
  BY FS_Subset DEF TextsOK
<1>2. \A t \in S : Cardinality(t) \in Nat /\ Cardinality(t \cap w) \in Nat
  <2> TAKE t \in S
  <2>1. IsFiniteSet(t) /\ t \cap w \in SUBSET t
    BY DEF TextsOK
  <2>2. IsFiniteSet(t \cap w)
    BY <2>1, FS_Subset
  <2> QED BY <2>1, <2>2, FS_CardinalityType
<1>3. \A a \in Nat, c \in Nat : c >= 2 => (100 * a) \div c \in Nat
  OBVIOUS
<1>4. g \in [S -> Nat]
  BY <1>2, <1>3
<1>5. MatchScore(e, texts) = Max({0} \cup {g[t] : t \in S})
  BY DEF MatchScore
<1>6. \A t \in S : t \cap w = {} => g[t] = 0
  <2> TAKE t \in S
  <2>1. \A c \in Nat : c >= 2 => 0 \div c = 0
    OBVIOUS
  <2>2. t \cap w = {} => Cardinality(t \cap w) = 0
    BY FS_EmptySet
  <2> QED BY <1>2, <2>1, <2>2
<1>7. S \subseteq texts
  OBVIOUS
<1> HIDE DEF g, S
<1>8. MatchScore(e, texts) \in {0} \cup {g[t] : t \in S}
  <2>1. Max({0} \cup {g[t] : t \in S}) \in {0} \cup {g[t] : t \in S}
    BY <1>1, <1>4, LargestValue
  <2> QED BY <1>5, <2>1
<1>9. MatchScore(e, texts) \in Nat
  BY <1>4, <1>8
<1>10. ASSUME MatchScore(e, texts) >= 75
       PROVE  \E t \in texts : t \cap w # {}
  <2>1. PICK t \in S : MatchScore(e, texts) = g[t]
    BY <1>8, <1>10
  <2>2. g[t] # 0
    BY <1>9, <1>10, <2>1
  <2> QED BY <1>6, <1>7, <2>1, <2>2
<1> QED BY <1>9, <1>10

LEMMA RankedIsRelated ==
  ASSUME NEW E, NEW els \in Seq(E), NEW l, TextsOK(l.texts), RankTextAny(els, l) # 0
  PROVE  RankTextAny(els, l) \in DOMAIN els /\ Related(els[RankTextAny(els, l)], l)
<1> DEFINE S == {i \in DOMAIN els : SameElement(els[i], l) /\ ~Excluded(els[i], l.texts)}
           f == [i \in S |-> TextAnyScore(els[i], l.texts)]
           a == [i \in S |-> ActionableScore(els[i])]
           best == CHOOSE i \in S : \A j \in S \ {i} :
                     \/ TextAnyScore(els[i], l.texts) > TextAnyScore(els[j], l.texts)
                     \/ /\ TextAnyScore(els[i], l.texts) = TextAnyScore(els[j], l.texts)
                        /\ \/ ActionableScore(els[i]) > ActionableScore(els[j])
                           \/ (ActionableScore(els[i]) = ActionableScore(els[j]) /\ i < j)
<1>1. RankTextAny(els, l) = (IF l.by # "text_any" THEN 0 ELSE IF S = {} THEN 0 ELSE best)
  BY DEF RankTextAny, Best
<1>2. S # {} /\ l.by = "text_any" /\ RankTextAny(els, l) = best
  BY <1>1
<1>3. f \in [S -> Nat]
  BY TextAnyScoreIsANumber
<1>4. a \in [S -> 0 .. 3]
  BY DEF ActionableScore
<1>5. S \in SUBSET (1 .. Len(els)) /\ Len(els) \in Nat
  OBVIOUS
<1>6. \A i \in S : /\ f[i] = TextAnyScore(els[i], l.texts) /\ a[i] = ActionableScore(els[i])
                   /\ i \in DOMAIN els /\ SameElement(els[i], l)
  OBVIOUS
<1> HIDE DEF S, f, a
<1>7. \E i \in S : IsBest(i, S, f, a)
  BY <1>2, <1>3, <1>4, <1>5, OneIsBest
<1>8. best \in S
  BY <1>6, <1>7 DEF IsBest
<1> HIDE DEF best
<1> QED BY <1>2, <1>6, <1>8, SameIsRelated

LEMMA OverlappingIsRelated ==
  ASSUME NEW E, NEW els \in Seq(E), NEW l, TextsOK(l.texts), BestTokenOverlap(els, l) # 0
  PROVE  BestTokenOverlap(els, l) \in DOMAIN els /\ Related(els[BestTokenOverlap(els, l)], l)
<1> DEFINE S == {i \in DOMAIN els : MatchScore(els[i], l.texts) >= 75}
           f == [i \in S |-> MatchScore(els[i], l.texts)]
           a == [i \in S |-> ActionableScore(els[i])]
           best == CHOOSE i \in S : \A j \in S \ {i} :
                     \/ MatchScore(els[i], l.texts) > MatchScore(els[j], l.texts)
                     \/ /\ MatchScore(els[i], l.texts) = MatchScore(els[j], l.texts)
                        /\ \/ ActionableScore(els[i]) > ActionableScore(els[j])
                           \/ (ActionableScore(els[i]) = ActionableScore(els[j]) /\ i < j)
           first == IF S = {} THEN 0 ELSE best
<1>1. BestTokenOverlap(els, l) = 0 \/ BestTokenOverlap(els, l) = first
  BY DEF BestTokenOverlap, Best
<1>2. S # {} /\ BestTokenOverlap(els, l) = best
  BY <1>1
<1>3. f \in [S -> Nat]
  BY MatchScoreIsRelated
<1>4. a \in [S -> 0 .. 3]
  BY DEF ActionableScore
<1>5. S \in SUBSET (1 .. Len(els)) /\ Len(els) \in Nat
  OBVIOUS
<1>6. \A i \in S : /\ f[i] = MatchScore(els[i], l.texts) /\ a[i] = ActionableScore(els[i])
                   /\ i \in DOMAIN els /\ MatchScore(els[i], l.texts) >= 75
  OBVIOUS
<1> HIDE DEF S, f, a
<1>7. \E i \in S : IsBest(i, S, f, a)
  BY <1>2, <1>3, <1>4, <1>5, OneIsBest
<1>8. best \in S
  BY <1>6, <1>7 DEF IsBest
<1> HIDE DEF best
<1>9. \E t \in l.texts : t \cap (els[best].name \cup els[best].text) # {}
  BY <1>6, <1>8, MatchScoreIsRelated
<1> QED BY <1>2, <1>6, <1>8, <1>9 DEF Related

\* Where it is not said that the place is one of els, the locator asks for anything.
LEMMA PlainIsRelated ==
  ASSUME NEW E, NEW els \in Seq(E), NEW l, TextsOK(l.texts),
         l.by \in {"text", "label", "placeholder", "testid"} => l.texts # {},
         FindPlain(els, l) # 0
  PROVE  Related(els[FindPlain(els, l)], l)
<1> DEFINE L == {i \in 1 .. Len(els) : els[i].locator = l}
           S == {i \in 1 .. Len(els) : SameElement(els[i], l)}
           located == IF L # {} THEN Min(L) ELSE 0
           same == IF S # {} THEN Min(S) ELSE 0
           ways == <<RankTextAny(els, l), located, same, BestTokenOverlap(els, l), SmartFallback(els, l)>>
<1>1. FindPlain(els, l) = FirstNonZero(ways)
  BY DEF FindPlain, SelectInSeq
<1>2. Len(els) \in Nat /\ L \in SUBSET (1 .. Len(els)) /\ S \in SUBSET (1 .. Len(els))
  OBVIOUS
<1>3. (\A i \in L : els[i].locator = l) /\ \A i \in S : SameElement(els[i], l)
  OBVIOUS
<1> HIDE DEF L, S
<1>4. located # 0 => Related(els[located], l)
  BY <1>2, <1>3, LeastIsChosen DEF Related
<1>5. same # 0 => Related(els[same], l)
  BY <1>2, <1>3, LeastIsChosen, SameIsRelated
<1> HIDE DEF located, same
<1>6. SmartFallback(els, l) # 0 => (UNION l.texts) \cap (FillWords \cup ClickWords) # {}
  BY DEF SmartFallback
<1>7. PICK E2 : ways \in Seq(E2)
  <2>1. ways \in Seq({RankTextAny(els, l), located, same, BestTokenOverlap(els, l), SmartFallback(els, l)})
    OBVIOUS
  <2> QED BY <2>1
<1>8. PICK i \in DOMAIN ways : FindPlain(els, l) = ways[i] /\ ways[i] # 0
  <2> HIDE DEF ways
  <2> QED BY <1>1, <1>7, FirstNonZeroIsOne
<1>9. i \in 1 .. 5
  OBVIOUS
<1>10. CASE i = 1
  BY <1>8, <1>10, RankedIsRelated
<1>11. CASE i = 2
  BY <1>4, <1>8, <1>11
<1>12. CASE i = 3
  BY <1>5, <1>8, <1>12
<1>13. CASE i = 4
  BY <1>8, <1>13, OverlappingIsRelated
<1>14. CASE i = 5
  BY <1>6, <1>8, <1>14 DEF Related
<1> QED BY <1>9, <1>10, <1>11, <1>12, <1>13, <1>14

TargetOK(target) ==
  /\ target.by = "semantic" => target.candidates \in Seq(Plain(target))
  /\ target.by = "index" => target.n \in Nat
  /\ \A l \in Plain(target) :
       /\ TextsOK(l.texts)
       /\ l.by \in {"text", "label", "placeholder", "testid"} => l.texts # {}

LEMMA FoundIsRelated ==
  ASSUME NEW E, NEW els \in Seq(E), NEW target, TargetOK(target), FindByLocator(els, target) # 0
  PROVE  \E l \in Plain(target) : Related(els[FindByLocator(els, target)], l)
<1>1. CASE target.by = "semantic"
  <2> DEFINE found == [i \in DOMAIN target.candidates |-> FindPlain(els, target.candidates[i])]
  <2>1. FindByLocator(els, target) = FirstNonZero(found)
    BY <1>1 DEF FindByLocator
  <2>2. target.candidates \in Seq(Plain(target))
    BY <1>1 DEF TargetOK
  <2>3. found \in Seq({found[i] : i \in DOMAIN found})
    BY <2>2
  <2>4. PICK i \in DOMAIN found : FindByLocator(els, target) = found[i] /\ found[i] # 0
    <3> HIDE DEF found
    <3> QED BY <2>1, <2>3, FirstNonZeroIsOne
  <2>5. target.candidates[i] \in Plain(target)
    BY <2>2
  <2>6. Related(els[FindPlain(els, target.candidates[i])], target.candidates[i])
    BY <2>4, <2>5, PlainIsRelated DEF TargetOK
  <2> QED BY <2>4, <2>5, <2>6
<1>2. CASE target.by = "index"
  <2> DEFINE found == {i \in DOMAIN els :
                         els[i].locator = target.target \/ SameElement(els[i], target.target)}
  <2>1. FindByLocator(els, target) =
          IF target.n < Cardinality(found) THEN Nth(found, target.n + 1) ELSE 0
    BY <1>2 DEF FindByLocator
  <2>2. target.target \in Plain(target) /\ target.n \in Nat
    BY <1>2 DEF TargetOK, Plain
  <2>3. found \in SUBSET (1 .. Len(els)) /\ Len(els) \in Nat
    OBVIOUS
  <2>4. \A i \in found : els[i].locator = target.target \/ SameElement(els[i], target.target)
    OBVIOUS
  <2> HIDE DEF found
  <2>5. Cardinality(found) \in Nat
    <3>1. IsFiniteSet(1 .. Len(els))
      BY <2>3, FS_Interval
    <3>2. IsFiniteSet(found)
      BY <2>3, <3>1, FS_Subset
    <3> QED BY <3>2, FS_CardinalityType
  <2>6. target.n + 1 \in 1 .. Cardinality(found) /\ FindByLocator(els, target) = Nth(found, target.n + 1)
    BY <2>1, <2>2, <2>5
  <2>7. FindByLocator(els, target) \in found
    <3>1. PICK m : m = Len(els)
      OBVIOUS
    <3>2. m \in Nat /\ found \in SUBSET (1 .. m)
      BY <2>3, <3>1
    <3>3. PICK n : n = target.n + 1
      OBVIOUS
    <3>4. n \in 1 .. Cardinality(found)
      BY <2>6, <3>3
    <3>5. Nth(found, n) \in found
      BY <3>2, <3>4, NthIsThere
    <3> QED BY <2>6, <3>3, <3>5
  <2>8. Related(els[FindByLocator(els, target)], target.target)
    BY <2>2, <2>4, <2>7, SameIsRelated DEF Related, TargetOK
  <2> QED BY <2>2, <2>8
<1>3. CASE target.by # "semantic" /\ target.by # "index"
  <2>1. target \in Plain(target) /\ FindByLocator(els, target) = FindPlain(els, target)
    BY <1>3 DEF Plain, FindByLocator
  <2> QED BY <2>1, PlainIsRelated DEF TargetOK
<1> QED BY <1>1, <1>2, <1>3

---------------------------------------------------------------------------
(* The step.                                                                *)

\* What an observation says of the target has to do with it, and its elements
\* tell of the page it is of.
ObservationOK(o, target) ==
  /\ o.target # 0 => \E l \in Plain(target) : Related(o.elements[o.target], l)
  /\ o.at \in DOMAIN Pages => \A i \in DOMAIN o.elements : Tells(o.elements[i], Pages[o.at])

Observations == {before, current, harness, action.seen}

\* What an observation has is known by its id; the tree that was read is one of a
\* page, which need no longer be the one that is shown.
SeenOK ==
  /\ \A o \in Observations, target \in {asked.target} : ObservationOK(o, target)
  /\ \A o, q \in {before, current, harness} : o.id = q.id => o = q
  /\ harness.id = 0 => harness = NoObservation
  /\ where = "dom" => \E p \in DOMAIN Pages :
       ax.at = p /\ (ax.elements = AxElements(Pages[p]) \/ ax.elements = <<>>)

StepShapes ==
  /\ page \in DOMAIN Pages /\ asked \in Steps
  /\ where \in {"ax", "dom", "observed", "search", "resolve", "llm", "act", "done", "failed", "thrown"}

\* The harness and the resolver know the same observation, and it is the one the
\* executor or the search goes by, unless the LLM is asked.
SameObservation ==
  /\ resolver = harness
  /\ where = "observed" \/ where = "resolve" => before = harness
  /\ where = "search" => current = harness
  /\ where = "act" =>
       /\ action.seen = before
       /\ action.by = "llm" \/ (action.by = "resolver" /\ before = harness)
  /\ action.by = "resolver" => action.number = action.seen.target /\ action.number # 0

\* The inductive invariant of Elements.
LookInv == StepShapes /\ SeenOK /\ SameObservation /\ ActsOnWhatWasSeen /\ ReachesTheElement

LEMMA LookInvMeans ==
  ASSUME LookInv
  PROVE  ActsOnWhatWasChosen
<1>1. FoundCanBeResolved
  BY DEF LookInv, StepShapes, FoundCanBeResolved
<1>2. ChosenIsRelated
  BY DEF LookInv, SeenOK, SameObservation, Observations, ObservationOK, ChosenIsRelated, Target
<1> QED BY <1>1, <1>2 DEF LookInv, ActsOnWhatWasChosen

LEMMA TargetsAreOK ==
  ASSUME ElementsAssumption, NEW s \in Steps
  PROVE  TargetOK(s.target)
BY DEF ElementsAssumption, TargetOK, TextsOK

LEMMA PagesAreMade ==
  ASSUME ElementsAssumption, NEW p \in DOMAIN Pages, NEW els,
         els = <<>> \/ els = AxElements(Pages[p]) \/ els = DomElements(Pages[p])
  PROVE  MadeOfAll(els, Pages[p])
<1>1. Pages[p] \in Seq({Pages[p][i] : i \in DOMAIN Pages[p]})
  BY DEF ElementsAssumption
<1>2. MadeOfAll(<<>>, Pages[p])
  BY DEF MadeOfAll
<1> QED BY <1>1, <1>2, AxElementsAreMade, DomElementsAreMade

\* Also what is made of two pages is a sequence.
LEMMA ObservedIsASequence ==
  ASSUME LocatorsAssumption, ElementsAssumption, NEW p \in DOMAIN Pages, NEW q \in DOMAIN Pages,
         NEW tree, NEW dom, MadeOfAll(tree, Pages[p]), MadeOfAll(dom, Pages[q])
  PROVE  \E E : Observed(tree, dom) \in Seq(E)
<1>1. PICK nodes : nodes = Pages[p] \o Pages[q]
  OBVIOUS
<1>2. PICK m, n : m = Pages[p] /\ n = Pages[q]
  OBVIOUS
<1>3. m \in Seq({m[i] : i \in DOMAIN m}) /\ n \in Seq({n[i] : i \in DOMAIN n})
  BY <1>2 DEF ElementsAssumption
<1>4. /\ \A i \in DOMAIN m : i \in DOMAIN nodes /\ nodes[i] = m[i]
      /\ \A i \in DOMAIN n : Len(m) + i \in DOMAIN nodes /\ nodes[Len(m) + i] = n[i]
  BY <1>1, <1>2, <1>3
<1>5. MadeOfAll(tree, nodes) /\ MadeOfAll(dom, nodes)
  BY <1>2, <1>4 DEF MadeOfAll
<1>6. Observation(Observed(tree, dom), nodes)
  BY <1>5, ObservedTells
<1> QED BY <1>6 DEF Observation

LEMMA NewIdIsNew ==
  ASSUME resolver = harness
  PROVE  NewId # before.id /\ NewId # current.id /\ NewId # harness.id /\ NewId # 0
<1>1. \E id \in 1 .. 4 : id \notin {before.id, current.id, harness.id, resolver.id}
  OBVIOUS
<1>2. NewId \in 1 .. 4 /\ NewId \notin {before.id, current.id, harness.id, resolver.id}
  BY <1>1 DEF NewId
<1> QED BY <1>2

LEMMA SeenIsOK ==
  ASSUME LocatorsAssumption, ElementsAssumption, LookInv, where = "dom",
         NEW dom, dom = <<>> \/ dom = DomElements(Pages[page]),
         NEW seen, seen = Seen(Observed(ax.elements, dom))
  PROVE  ObservationOK(seen, asked.target)
<1>1. PICK p \in DOMAIN Pages : ax.at = p /\ (ax.elements = AxElements(Pages[p]) \/ ax.elements = <<>>)
  BY DEF LookInv, SeenOK
<1>2. PICK tree : tree = ax.elements
  OBVIOUS
<1>3. page \in DOMAIN Pages /\ asked \in Steps
  BY DEF LookInv, StepShapes
<1>4. MadeOfAll(tree, Pages[p]) /\ MadeOfAll(dom, Pages[page])
  BY <1>1, <1>2, <1>3, PagesAreMade
<1>5. PICK els : els = Observed(tree, dom)
  OBVIOUS
<1>6. PICK E : els \in Seq(E)
  BY <1>3, <1>4, <1>5, ObservedIsASequence
<1>7. /\ seen.at = (IF ax.at = page THEN page ELSE "none") /\ seen.elements = els
      /\ seen.target = FindByLocator(els, asked.target)
  BY <1>2, <1>5 DEF Seen, Target
<1>8. seen.target # 0 => \E l \in Plain(asked.target) : Related(els[seen.target], l)
  <2>1. TargetOK(asked.target)
    BY <1>3, TargetsAreOK
  <2> QED BY <2>1, <1>6, <1>7, FoundIsRelated
<1>9. ASSUME seen.at \in DOMAIN Pages
      PROVE  \A i \in DOMAIN els : Tells(els[i], Pages[seen.at])
  <2>1. ax.at = page /\ seen.at = page
    BY <1>7, <1>9 DEF ElementsAssumption
  <2>2. Observation(els, Pages[page])
    BY <2>1, <1>1, <1>4, <1>5, ObservedTells
  <2> QED BY <2>1, <2>2 DEF Observation
<1> QED BY <1>7, <1>8, <1>9 DEF ObservationOK

LEMMA HitIsRight ==
  ASSUME ElementsAssumption, LookInv, where = "act", Reached(action.number) # Nothing,
         Did("number", Reached(action.number))
  PROVE  ActsOnWhatWasSeen' /\ ReachesTheElement'
<1>1. PICK node : node = Reached(action.number)
  OBVIOUS
<1>2. PICK e : e = harness.elements[action.number]
  OBVIOUS
<1>3. action.number \in DOMAIN harness.elements /\ node = Reach(Pages[page], e.locator) /\ node # Nothing
  BY <1>1, <1>2 DEF Reached
<1>4. page \in DOMAIN Pages /\ Pages[page] \in Seq({Pages[page][i] : i \in DOMAIN Pages[page]})
  BY DEF LookInv, StepShapes, ElementsAssumption
<1>5. PICK i \in DOMAIN Pages[page] : node = Pages[page][i] /\ Matches(node, e.locator)
  BY <1>3, <1>4, ReachedMatches
<1>6. /\ acted'.node = node /\ acted'.at = page /\ acted'.by = action.by
      /\ acted'.element = action.seen.elements[action.number]
      /\ acted'.seen = action.seen.at /\ (acted'.current <=> action.seen.id = harness.id)
  BY <1>1 DEF Did
<1>7. /\ action.seen = before
      /\ action.by = "llm" \/ (action.by = "resolver" /\ before = harness)
      /\ before.id = harness.id => before = harness
  BY DEF LookInv, SameObservation, SeenOK
<1>8. ASSUME acted'.current
      PROVE  acted'.element = e /\ acted'.seen = harness.at
  BY <1>2, <1>6, <1>7, <1>8
<1>9. ActsOnWhatWasSeen'
  <2>1. (acted'.by = "llm" => acted'.current) => acted'.element = e
    BY <1>2, <1>6, <1>7
  <2> QED BY <2>1, <1>5, <1>6 DEF ActsOnWhatWasSeen
<1>10. ReachesTheElement'
  <2> SUFFICES ASSUME acted'.current, acted'.seen = acted'.at, Clear(Pages[page])
               PROVE  acted'.node.uid = acted'.element.node
    BY <1>6 DEF ReachesTheElement
  <2>1. acted'.element = e /\ harness.at = page
    BY <1>6, <1>8
  <2>2. Tells(e, Pages[page])
    BY <2>1, <1>2, <1>3, <1>4 DEF LookInv, SeenOK, Observations, ObservationOK
  <2> QED BY <2>1, <2>2, <1>5, <1>6 DEF Tells
<1> QED BY <1>9, <1>10

\* Handing an observation on makes no new one.
LEMMA SeenStays ==
  ASSUME SeenOK, asked' = asked, harness' = harness,
         before' = before \/ before' = current, current' = current \/ current' = before,
         action'.seen = action.seen \/ action'.seen = before \/ action'.seen = current,
         where' # "dom" \/ (where = "dom" /\ ax' = ax)
  PROVE  SeenOK'
<1>1. \A o \in Observations', target \in {asked'.target} : ObservationOK(o, target)
  BY DEF SeenOK, Observations
<1>2. \A o, q \in {before', current', harness'} : o.id = q.id => o = q
  BY DEF SeenOK
<1>3. harness'.id = 0 => harness' = NoObservation
  BY DEF SeenOK
<1>4. where' = "dom" => \E p \in DOMAIN Pages :
        ax'.at = p /\ (ax'.elements = AxElements(Pages[p]) \/ ax'.elements = <<>>)
  BY DEF SeenOK
<1> QED BY <1>1, <1>2, <1>3, <1>4 DEF SeenOK

\* What was reached stays right when nothing else is reached.
LEMMA ReachedStays ==
  ASSUME LookInv, acted' = acted
  PROVE  ActsOnWhatWasSeen' /\ ReachesTheElement'
BY DEF LookInv, ActsOnWhatWasSeen, ReachesTheElement

LEMMA NothingReached ==
  ASSUME acted.how # "number"
  PROVE  ActsOnWhatWasSeen /\ ReachesTheElement
BY DEF ActsOnWhatWasSeen, ReachesTheElement

LEMMA NothingSeenIsOK ==
  ASSUME ElementsAssumption, NEW target
  PROVE  ObservationOK(NoObservation, target)
<1>1. NoObservation.target = 0 /\ NoObservation.at \notin DOMAIN Pages
  BY DEF NoObservation, ElementsAssumption
<1> QED BY <1>1 DEF ObservationOK

LEMMA LookInvInit ==
  ASSUME ElementsAssumption, ElementsInit
  PROVE  LookInv
<1>1. StepShapes
  BY DEF ElementsInit, StepShapes, ElementsAssumption
<1>2. SeenOK
  <2>1. before = NoObservation /\ current = NoObservation /\ harness = NoObservation
        /\ action.seen = NoObservation /\ where = "ax"
    BY DEF ElementsInit, NoAction
  <2> QED BY <2>1, NothingSeenIsOK DEF SeenOK, Observations
<1>3. SameObservation
  BY DEF ElementsInit, SameObservation, NoAction
<1>4. ActsOnWhatWasSeen /\ ReachesTheElement
  BY NothingReached DEF ElementsInit, NotActed
<1> QED BY <1>1, <1>2, <1>3, <1>4 DEF LookInv

LEMMA MoveStep ==
  ASSUME ElementsAssumption, LookInv, Move
  PROVE  LookInv'
<1>1. StepShapes'
  BY DEF LookInv, StepShapes, Move
<1>2. SeenOK'
  BY SeenStays DEF LookInv, Move, observations
<1>3. SameObservation'
  BY DEF LookInv, SameObservation, Move, observations
<1> QED BY <1>1, <1>2, <1>3, ReachedStays DEF LookInv, Move

LEMMA ObserveThrowsStep ==
  ASSUME ElementsAssumption, LookInv, ObserveThrows
  PROVE  LookInv'
<1>1. StepShapes'
  BY DEF LookInv, StepShapes, ObserveThrows
<1>2. SeenOK'
  BY SeenStays DEF LookInv, ObserveThrows, observations
<1>3. SameObservation'
  BY DEF LookInv, SameObservation, ObserveThrows, observations
<1> QED BY <1>1, <1>2, <1>3, ReachedStays DEF LookInv, ObserveThrows

LEMMA ReadAxStep ==
  ASSUME ElementsAssumption, LookInv, ReadAx
  PROVE  LookInv'
<1>1. PICK elements : (elements = AxElements(Pages[page]) \/ elements = <<>>)
                      /\ ax' = [at |-> page, elements |-> elements]
  BY DEF ReadAx
<1>2. StepShapes'
  BY DEF LookInv, StepShapes, ReadAx
<1>3. \E p \in DOMAIN Pages :
        ax'.at = p /\ (ax'.elements = AxElements(Pages[p]) \/ ax'.elements = <<>>)
  <2>1. PICK p \in DOMAIN Pages : p = page
    BY DEF LookInv, StepShapes
  <2>2. ax'.at = p /\ (ax'.elements = AxElements(Pages[p]) \/ ax'.elements = <<>>)
    BY <1>1, <2>1
  <2> QED BY <2>2
<1>4. harness' = harness /\ resolver' = resolver /\ asked' = asked /\ where' = "dom"
  BY DEF ReadAx
<1>5. CASE purpose = "attempt"
  <2>1. /\ before' = NoObservation /\ current' = NoObservation
        /\ action' = NoAction /\ acted' = NotActed
    BY <1>5 DEF ReadAx
  <2>2. action'.seen = NoObservation /\ action'.by = "none" /\ acted'.how = "none"
        /\ NoObservation.id = 0
    BY <2>1 DEF NoAction, NotActed, NoObservation
  <2>3. SeenOK'
    BY <1>3, <1>4, <2>1, <2>2, NothingSeenIsOK DEF LookInv, SeenOK, Observations
  <2>4. SameObservation'
    BY <1>4, <2>2 DEF LookInv, SameObservation
  <2>5. ActsOnWhatWasSeen' /\ ReachesTheElement'
    BY <2>2 DEF ActsOnWhatWasSeen, ReachesTheElement
  <2> QED BY <1>2, <2>3, <2>4, <2>5 DEF LookInv
<1>6. CASE purpose # "attempt"
  <2>1. UNCHANGED <<before, current, action, acted>>
    BY <1>6 DEF ReadAx
  <2>2. SeenOK'
    BY <1>3, <1>4, <2>1 DEF LookInv, SeenOK, Observations
  <2>3. SameObservation'
    BY <1>4, <2>1 DEF LookInv, SameObservation
  <2> QED BY <1>2, <2>1, <2>2, <2>3, ReachedStays DEF LookInv
<1> QED BY <1>5, <1>6

LEMMA ReadDomStep ==
  ASSUME LocatorsAssumption, ElementsAssumption, LookInv, ReadDom
  PROVE  LookInv'
<1>1. PICK dom, seen :
        /\ dom = <<>> \/ dom = DomElements(Pages[page])
        /\ seen = Seen(Observed(ax.elements, dom))
        /\ harness' = seen /\ resolver' = seen
        /\ IF purpose = "attempt"
           THEN before' = seen /\ where' = "observed" /\ UNCHANGED current
           ELSE current' = seen /\ where' = "search" /\ UNCHANGED before
  BY DEF ReadDom
<1>2. where = "dom" /\ UNCHANGED <<page, asked, action, acted>>
  BY DEF ReadDom
<1>3. ObservationOK(seen, asked.target)
  BY <1>1, <1>2, SeenIsOK
<1>4. seen.id # before.id /\ seen.id # current.id /\ seen.id # 0
  <2>1. seen.id = NewId
    BY <1>1 DEF Seen
  <2> QED BY <2>1, NewIdIsNew DEF LookInv, SameObservation
<1>5. StepShapes'
  BY <1>1, <1>2 DEF LookInv, StepShapes
<1>6. /\ before' = before \/ before' = seen
      /\ current' = current \/ current' = seen
      /\ where' = "observed" \/ where' = "search"
      /\ where' = "observed" => before' = seen
      /\ where' = "search" => current' = seen
      /\ before' = before \/ current' = current
  BY <1>1
<1>7. SeenOK'
  <2>1. \A o \in Observations', target \in {asked'.target} : ObservationOK(o, target)
    BY <1>1, <1>2, <1>3, <1>6 DEF LookInv, SeenOK, Observations
  <2>2. \A o, q \in {before', current', harness'} : o.id = q.id => o = q
    BY <1>1, <1>4, <1>6 DEF LookInv, SeenOK
  <2> QED BY <2>1, <2>2, <1>1, <1>4, <1>6 DEF SeenOK
<1>8. SameObservation'
  BY <1>1, <1>2, <1>6 DEF LookInv, SameObservation
<1> QED BY <1>2, <1>5, <1>7, <1>8, ReachedStays DEF LookInv

LEMMA BeforeResolveStep ==
  ASSUME ElementsAssumption, LookInv, BeforeResolve
  PROVE  LookInv'
<1>1. /\ UNCHANGED <<page, asked, before, harness, resolver, action, acted>>
      /\ where = "observed"
      /\ (where' = "search" /\ current' = before) \/ (where' = "resolve" /\ current' = current)
  BY DEF BeforeResolve, StartSearch
<1>2. StepShapes'
  BY <1>1 DEF LookInv, StepShapes
<1>3. SeenOK'
  BY <1>1, SeenStays DEF LookInv
<1>4. SameObservation'
  BY <1>1 DEF LookInv, SameObservation
<1> QED BY <1>1, <1>2, <1>3, <1>4, ReachedStays DEF LookInv

LEMMA ResolveStep ==
  ASSUME ElementsAssumption, LookInv, Resolve
  PROVE  LookInv'
<1>1. /\ UNCHANGED <<page, asked, before, harness, resolver, acted>>
      /\ where = "resolve"
      /\ \/ /\ action' = [number |-> before.target, seen |-> before, by |-> "resolver"]
            /\ before.target # 0 /\ where' = "act" /\ current' = current
         \/ where' = "search" /\ current' = before /\ action' = action
  BY DEF Resolve, Resolved, Choose, StartSearch
<1>2. StepShapes'
  BY <1>1 DEF LookInv, StepShapes
<1>3. SeenOK'
  BY <1>1, SeenStays DEF LookInv
<1>4. SameObservation'
  BY <1>1 DEF LookInv, SameObservation
<1> QED BY <1>1, <1>2, <1>3, <1>4, ReachedStays DEF LookInv

LEMMA FollowedPage ==
  ASSUME ElementsAssumption, page \in DOMAIN Pages, NEW node, Follow(node)
  PROVE  page' \in DOMAIN Pages
BY DEF ElementsAssumption, Follow

LEMMA OpenContainerStep ==
  ASSUME ElementsAssumption, LookInv, OpenContainer
  PROVE  LookInv'
<1>1. UNCHANGED <<asked, ax, before, current, harness, resolver, action, acted>> /\ where' = "ax"
  BY DEF OpenContainer, observations
<1>2. page' \in DOMAIN Pages
  BY FollowedPage DEF OpenContainer, LookInv, StepShapes
<1>3. StepShapes'
  BY <1>1, <1>2 DEF LookInv, StepShapes
<1>4. SeenOK'
  BY <1>1, SeenStays DEF LookInv
<1>5. SameObservation'
  BY <1>1 DEF LookInv, SameObservation
<1> QED BY <1>1, <1>3, <1>4, <1>5, ReachedStays DEF LookInv

LEMMA FoundStep ==
  ASSUME ElementsAssumption, LookInv, Found
  PROVE  LookInv'
<1>1. /\ UNCHANGED <<page, asked, current, harness, resolver, acted>>
      /\ where = "search" /\ before' = current /\ current.target # 0
      /\ current = harness /\ resolver = harness
  BY DEF Found, Exists, LookInv, SameObservation
<1>2. \/ where' = "resolve" /\ action' = action
      \/ /\ action' = [number |-> current.target, seen |-> current, by |-> "resolver"]
         /\ where' = "act"
  BY <1>1 DEF Found, Resolved, Choose
<1>3. StepShapes'
  BY <1>1, <1>2 DEF LookInv, StepShapes
<1>4. SeenOK'
  BY <1>1, <1>2, SeenStays DEF LookInv
<1>5. SameObservation'
  BY <1>1, <1>2 DEF LookInv, SameObservation
<1> QED BY <1>1, <1>3, <1>4, <1>5, ReachedStays DEF LookInv

LEMMA NotFoundStep ==
  ASSUME ElementsAssumption, LookInv, NotFound
  PROVE  LookInv'
<1>1. /\ UNCHANGED <<page, asked, current, harness, resolver, action, acted>>
      /\ where = "search"
      /\ (where' = "resolve" /\ before' = current) \/ (where' = "llm" /\ before' = before)
  BY DEF NotFound
<1>2. StepShapes'
  BY <1>1 DEF LookInv, StepShapes
<1>3. SeenOK'
  BY <1>1, SeenStays DEF LookInv
<1>4. SameObservation'
  BY <1>1 DEF LookInv, SameObservation
<1> QED BY <1>1, <1>2, <1>3, <1>4, ReachedStays DEF LookInv

LEMMA ResolveViaLlmStep ==
  ASSUME ElementsAssumption, LookInv, ResolveViaLlm
  PROVE  LookInv'
<1>1. /\ UNCHANGED <<page, asked, before, current, harness, resolver, acted>>
      /\ \/ where' = "failed" /\ action' = action
         \/ where' = "act" /\ \E n : action' = [number |-> n, seen |-> before, by |-> "llm"]
  BY DEF ResolveViaLlm, Choose, observations
<1>2. StepShapes'
  BY <1>1 DEF LookInv, StepShapes
<1>3. SeenOK'
  BY <1>1, SeenStays DEF LookInv
<1>4. SameObservation'
  BY <1>1 DEF LookInv, SameObservation
<1> QED BY <1>1, <1>2, <1>3, <1>4, ReachedStays DEF LookInv

\* After an action only what was reached is new, and the page.
LEMMA ActStep ==
  ASSUME ElementsAssumption, LookInv, page' \in DOMAIN Pages,
         UNCHANGED <<asked, ax, before, current, harness, resolver, action>>,
         where' = "done" \/ where' = "ax" \/ where' = "failed",
         ActsOnWhatWasSeen' /\ ReachesTheElement'
  PROVE  LookInv'
<1>1. StepShapes'
  BY DEF LookInv, StepShapes
<1>2. SeenOK'
  BY SeenStays DEF LookInv
<1>3. SameObservation'
  BY DEF LookInv, SameObservation
<1> QED BY <1>1, <1>2, <1>3 DEF LookInv

LEMMA ClickStep ==
  ASSUME ElementsAssumption, LookInv, Click
  PROVE  LookInv'
<1>1. /\ UNCHANGED <<asked, ax, before, current, harness, resolver, action>>
      /\ where = "act"
      /\ where' = "done" \/ where' = "ax" \/ where' = "failed"
  BY DEF Click, AfterAttempt, observations
<1>2. page' \in DOMAIN Pages
  BY FollowedPage DEF Click, LookInv, StepShapes
<1>3. ActsOnWhatWasSeen' /\ ReachesTheElement'
  BY <1>1, HitIsRight, ReachedStays DEF Click
<1> QED BY <1>1, <1>2, <1>3, ActStep

LEMMA FillStep ==
  ASSUME ElementsAssumption, LookInv, Fill
  PROVE  LookInv'
<1>1. /\ UNCHANGED <<page, asked, ax, before, current, harness, resolver, action>>
      /\ where = "act"
      /\ where' = "done" \/ where' = "ax" \/ where' = "failed"
  BY DEF Fill, AfterAttempt, observations
<1>2. page' \in DOMAIN Pages
  BY <1>1 DEF LookInv, StepShapes
<1>3. ActsOnWhatWasSeen' /\ ReachesTheElement'
  <2>1. CASE Reached(action.number) # Nothing /\ Did("number", Reached(action.number))
    BY <1>1, <2>1, HitIsRight
  <2>2. CASE Did("largest", LargestEditable(Pages[page]))
    <3>1. acted'.how # "number"
      BY <2>2 DEF Did
    <3> QED BY <3>1 DEF ActsOnWhatWasSeen, ReachesTheElement
  <2> QED BY <2>1, <2>2 DEF Fill
<1> QED BY <1>1, <1>2, <1>3, ActStep

\* A target is taken for an element it has to do with, and the element is reached
\* by its locator and, on a page that leaves no doubt, as the very node.
THEOREM ActsOnWhatWasChosenAlways == ElementsSpec => []ActsOnWhatWasChosen
<1>1. ElementsInit => LookInv
  BY LookInvInit, ElementsAssumption
<1>2. LookInv /\ [ElementsNext]_elVars => LookInv'
  <2> SUFFICES ASSUME LookInv, [ElementsNext]_elVars
               PROVE  LookInv'
    OBVIOUS
  <2>1. CASE ElementsNext
    <3>1. Executor => LookInv'
      BY ObserveThrowsStep, ReadAxStep, ReadDomStep, BeforeResolveStep, ResolveStep,
         OpenContainerStep, NotFoundStep, FoundStep, ResolveViaLlmStep, ClickStep, FillStep,
         ElementsAssumption, LocatorsAssumption DEF Executor
    <3> QED BY <2>1, <3>1, MoveStep, ElementsAssumption DEF ElementsNext
  <2>2. CASE UNCHANGED elVars
    <3>1. UNCHANGED <<page, asked, where, ax, before, current, harness, resolver, action, acted>>
      BY <2>2 DEF elVars, observations
    <3>2. StepShapes'
      BY <3>1 DEF LookInv, StepShapes
    <3>3. SeenOK'
      BY <3>1, SeenStays DEF LookInv
    <3>4. SameObservation'
      BY <3>1 DEF LookInv, SameObservation
    <3> QED BY <3>1, <3>2, <3>3, <3>4, ReachedStays DEF LookInv
  <2> QED BY <2>1, <2>2
<1> QED BY <1>1, <1>2, LookInvMeans, PTL DEF ElementsSpec
=============================================================================
