--------------------------- MODULE PlanGraphProofs ---------------------------
(***************************************************************************)
(* Theorems about PlanGraph, for every plan, patch, budget, recursion      *)
(* limit and approver; about Planning, which makes the plans, for every    *)
(* catalogue and whatever a model answers; and about Correlation, which    *)
(* plans the scenarios a demand requires, for every demand, diff and       *)
(* result of the search.                                                   *)
(***************************************************************************)
EXTENDS PlanGraph, PlansTheorems, Planning, Correlation, WellFoundedInduction

----------------------------------------------------------------------------
(* The graph engine.                                                        *)

\* What the nodes take for granted: a graph that has not ended has no outcome,
\* a node between observe and advance has a step, the last one has none.
Places ==
  /\ node = "END" <=> outcome # "running"
  /\ node \notin {"observe", "finalAssertions", "END"} => stepIndex <= Len(plan)
  /\ node = "finalAssertions" => stepIndex > Len(plan)

\* An approval that was given and not used yet: it is on its way to the guard,
\* or has let its action pass.
Unused == IF resume \/ (node = "execute" /\ risky) THEN 1 ELSE 0

\* Only the guard is resumed, and only for a destructive action.
Approved ==
  /\ resume => risky /\ node \in {"destructiveGuard", "END"}
  /\ node = "interrupted" => risky
  /\ ~AllowDestructive => destructions + Unused <= granted

\* The inductive invariant.
IInv == TypeOK /\ Places /\ Approved

----------------------------------------------------------------------------
\* The types, of the ground the run stands on and of what it tells.
GroundOK ==
  /\ plan \in Plan
  /\ stepIndex \in Nat \ {0}
  /\ attempt = 1
  /\ replans \in 0 .. MaxReplans
  /\ iterations \in [StepIds -> Nat]

NodeOK ==
  /\ node \in {"observe", "precheck", "resolveAction", "policyGuard", "destructiveGuard", "interrupted",
               "execute", "observeAfter", "postcheck", "assertions", "repeatUntil", "replan", "advance",
               "finalAssertions", "END"}
  /\ validOk \in BOOLEAN
  /\ risky \in BOOLEAN
  /\ execOk \in BOOLEAN
  /\ passed \in BOOLEAN
  /\ patchedStep \in BOOLEAN
  /\ repeatStep \in BOOLEAN
  /\ outcome \in {"running", "ok", "failed", "thrown", "recursion"}
  /\ supersteps \in 0 .. RecursionLimit
  /\ resume \in BOOLEAN
  /\ granted \in Nat
  /\ destructions \in Nat

ReportOK ==
  /\ steps \in Seq(QaStep)
  /\ warnings \subseteq StepIds
  /\ asserted \subseteq StepIds
  /\ failedStep \in QaStep

LEMMA Types == (TypeOK <=> GroundOK /\ NodeOK /\ ReportOK) /\ (TypeOK' <=> GroundOK' /\ NodeOK' /\ ReportOK')
BY DEF TypeOK, GroundOK, NodeOK, ReportOK

LEMMA StepType ==
  ASSUME GroundOK, stepIndex <= Len(plan)
  PROVE  step \in Step /\ \A ok \in BOOLEAN : Record(ok) \in QaStep
<1>1. step \in Step
  BY PlanShape DEF GroundOK, step
<1> QED
  BY <1>1 DEF Record, QaStep, Step

\* Pushing a record.
LEMMA Pushed ==
  ASSUME ReportOK, NEW record \in QaStep
  PROVE  Append(steps, record) \in Seq(QaStep)
BY AppendProperties DEF ReportOK

\* The last record is one.
LEMMA LastType ==
  ASSUME ReportOK
  PROVE  LastStep \in QaStep
<1>1. CASE steps = << >>
  BY <1>1 DEF LastStep, NoStep, QaStep
<1>2. CASE steps # << >>
  <2>1. Len(steps) \in 1 .. Len(steps)
    BY <1>2, EmptySeq, LenProperties DEF ReportOK
  <2>2. steps[Len(steps)] \in QaStep
    BY <2>1, ElementOfSeq DEF ReportOK
  <2> QED
    BY <1>2, <2>2 DEF LastStep
<1> QED
  BY <1>1, <1>2

\* A node that is visited counts, up to the limit.
LEMMA Counted ==
  ASSUME NodeOK, supersteps < RecursionLimit
  PROVE  supersteps + 1 \in 0 .. RecursionLimit
BY GraphAssumption DEF NodeOK

LEMMA InitInv == Init => IInv
<1> SUFFICES ASSUME Init PROVE IInv
  OBVIOUS
<1>1. plan \in Plan /\ Len(plan) \in Nat \ {0}
  BY PlansAssumption, PlanShape DEF Init
<1>2. GroundOK
  BY <1>1, PlansAssumption DEF Init, GroundOK
<1>3. NodeOK
  <2>1. 0 \in 0 .. RecursionLimit
    BY GraphAssumption
  <2> QED
    BY <2>1 DEF Init, NodeOK
<1>4. ReportOK
  BY DEF Init, ReportOK, NoStep, QaStep
<1>5. Places
  BY <1>1 DEF Init, Places
<1>6. Approved
  BY DEF Init, Approved, Unused
<1> QED
  BY <1>2, <1>3, <1>4, <1>5, <1>6, Types DEF IInv

----------------------------------------------------------------------------
(* What the steps keep.                                                     *)

\* Nodes that leave the plan, the place and the report alone.
LEMMA QuietStep ==
  ASSUME IInv, Precheck \/ ResolveAction \/ DestructiveGuard \/ Execute \/ ObserveAfter
  PROVE  IInv'
<1> USE DEF IInv, ground, report, flags, history
<1>1. GroundOK /\ NodeOK /\ ReportOK
  BY Types
<1>2. GroundOK' /\ ReportOK'
  BY <1>1 DEF GroundOK, ReportOK, Precheck, ResolveAction, DestructiveGuard, Execute, ObserveAfter, Visit
<1>3. step \in Step
  BY <1>1, StepType DEF Places, Precheck, ResolveAction, DestructiveGuard, Execute, ObserveAfter, Visit
<1>4. supersteps' \in 0 .. RecursionLimit
  BY <1>1, Counted DEF Precheck, ResolveAction, DestructiveGuard, Execute, ObserveAfter, Visit
<1>5. CASE Precheck
  BY <1>1, <1>2, <1>3, <1>4, <1>5, Types
  DEF Precheck, PrecheckEdge, Visit, NodeOK, Places, Approved, Unused, Step
<1>6. CASE ResolveAction
  BY <1>1, <1>2, <1>3, <1>4, <1>6, Types
  DEF ResolveAction, Visit, NodeOK, Places, Approved, Unused, Step
<1>7. CASE DestructiveGuard
  BY <1>1, <1>2, <1>4, <1>7, Types, PlansAssumption
  DEF DestructiveGuard, Visit, NodeOK, Places, Approved, Unused
<1>8. CASE Execute
  BY <1>1, <1>2, <1>4, <1>8, Types DEF Execute, Visit, NodeOK, Places, Approved, Unused
<1>9. CASE ObserveAfter
  BY <1>1, <1>2, <1>4, <1>9, Types DEF ObserveAfter, Visit, NodeOK, Places, Approved, Unused
<1> QED
  BY <1>5, <1>6, <1>7, <1>8, <1>9

\* Before and after the graph.
LEMMA OuterStep ==
  ASSUME IInv, Observe \/ AskApprover \/ Throw \/ RecursionError
  PROVE  IInv'
<1> USE DEF IInv, ground, report, flags, history
<1>1. GroundOK /\ NodeOK /\ ReportOK
  BY Types
<1>2. GroundOK' /\ ReportOK'
  BY <1>1 DEF GroundOK, ReportOK, Observe, AskApprover, Throw, RecursionError, Visit
<1>3. CASE Observe
  BY <1>1, <1>2, <1>3, Types, Counted DEF Observe, Visit, NodeOK, Places, Approved, Unused
<1>4. CASE AskApprover
  <2>1. 0 \in 0 .. RecursionLimit
    BY GraphAssumption
  <2>2. Unused = 0 /\ risky
    BY <1>4 DEF AskApprover, Approved, Unused
  <2>3. /\ UNCHANGED <<ground, validOk, risky, execOk, flags, report, destructions>>
        /\ node = "interrupted"
    BY <1>4 DEF AskApprover
  <2>4. CASE node' = "END" /\ outcome' = "failed" /\ UNCHANGED <<supersteps, resume, granted>>
    BY <1>1, <1>2, <2>2, <2>3, <2>4, Types DEF NodeOK, Places, Approved, Unused
  <2>5. CASE /\ node' = "destructiveGuard" /\ resume' = TRUE /\ supersteps' = 0
             /\ granted' = granted + 1 /\ UNCHANGED outcome
    <3>1. NodeOK'
      BY <1>1, <2>1, <2>3, <2>5 DEF NodeOK
    <3>2. Places'
      BY <2>3, <2>5 DEF Places
    <3>3. Unused' = 1
      BY <2>5 DEF Unused
    <3>4. Approved'
      BY <1>1, <2>2, <2>3, <2>5, <3>3 DEF NodeOK, Approved
    <3> QED
      BY <1>2, <3>1, <3>2, <3>4, Types
  <2> QED
    BY <1>4, <2>4, <2>5 DEF AskApprover
<1>5. CASE Throw
  BY <1>1, <1>2, <1>5, Types DEF Throw, NodeOK, Places, Approved, Unused
<1>6. CASE RecursionError
  BY <1>1, <1>2, <1>6, Types DEF RecursionError, NodeOK, Places, Approved, Unused
<1> QED
  BY <1>3, <1>4, <1>5, <1>6

\* Nodes that push records.
LEMMA RecordStep ==
  ASSUME IInv, PolicyGuard \/ Postcheck \/ Assertions
  PROVE  IInv'
<1> USE DEF IInv, ground, report, flags, history
<1>1. GroundOK /\ NodeOK /\ ReportOK
  BY Types
<1>2. step \in Step /\ \A ok \in BOOLEAN : Record(ok) \in QaStep
  BY <1>1, StepType DEF Places, PolicyGuard, Postcheck, Assertions, Visit, End
<1>3. \A ok \in BOOLEAN : Append(steps, Record(ok)) \in Seq(QaStep)
  BY <1>1, <1>2, Pushed
<1>4. supersteps' \in 0 .. RecursionLimit
  BY <1>1, Counted DEF PolicyGuard, Postcheck, Assertions, Visit, End
<1>5. GroundOK'
  BY <1>1 DEF GroundOK, PolicyGuard, Postcheck, Assertions
<1>6. CASE PolicyGuard
  <2>1. ReportOK'
    BY <1>1, <1>2, <1>3, <1>6 DEF PolicyGuard, End, ReportOK
  <2>2. NodeOK' /\ Places' /\ Approved'
    BY <1>1, <1>4, <1>6 DEF PolicyGuard, End, Visit, NodeOK, Places, Approved, Unused
  <2> QED
    BY <1>5, <2>1, <2>2, Types
<1>7. CASE Postcheck
  <2>1. ReportOK'
    BY <1>1, <1>2, <1>3, <1>7 DEF Postcheck, ReportOK, Step
  <2>2. validOk' \in BOOLEAN /\ passed' \in BOOLEAN
    BY <1>1, <1>7 DEF Postcheck, NodeOK
  <2>3. NodeOK' /\ Places' /\ Approved'
    BY <1>1, <1>4, <1>7, <2>2 DEF Postcheck, PostcheckEdge, Visit, NodeOK, Places, Approved, Unused
  <2> QED
    BY <1>5, <2>1, <2>3, Types
<1>8. CASE Assertions
  <2>1. validOk' \in BOOLEAN
    BY <1>8 DEF Assertions
  <2>2. ReportOK'
    BY <1>1, <1>2, <1>3, <1>8, <2>1 DEF Assertions, ReportOK, Step
  <2>3. NodeOK' /\ Places' /\ Approved'
    BY <1>1, <1>4, <1>8, <2>1 DEF Assertions, AssertionsEdge, Visit, NodeOK, Places, Approved, Unused
  <2> QED
    BY <1>5, <2>2, <2>3, Types
<1> QED
  BY <1>6, <1>7, <1>8

\* Nodes that move in the plan or rewrite it.
LEMMA PlanStep ==
  ASSUME IInv, RepeatUntil \/ Replan \/ Advance \/ FinalAssertions
  PROVE  IInv'
<1> USE DEF IInv, ground, report, flags, history
<1>1. GroundOK /\ NodeOK /\ ReportOK
  BY Types
<1>2. LastStep \in QaStep
  BY <1>1, LastType
<1>3. supersteps' \in 0 .. RecursionLimit
  BY <1>1, Counted DEF RepeatUntil, Replan, Advance, FinalAssertions, Visit, End
<1>4. CASE RepeatUntil
  <2>1. step \in Step
    BY <1>1, <1>4, StepType DEF Places, RepeatUntil, Visit, End
  <2>2. GroundOK'
    BY <1>1, <1>4, <2>1 DEF RepeatUntil, GroundOK, Step
  <2>3. ReportOK'
    BY <1>1, <1>2, <1>4 DEF RepeatUntil, ReportOK, End
  <2>4. NodeOK' /\ Places' /\ Approved'
    BY <1>1, <1>3, <1>4 DEF RepeatUntil, End, Visit, NodeOK, Places, Approved, Unused
  <2> QED
    BY <2>2, <2>3, <2>4, Types
<1>5. CASE Replan
  <2>1. GroundOK'
    BY <1>1, <1>5, ReplansArePlans, PlansAssumption DEF Replan, GroundOK
  <2>2. ReportOK'
    BY <1>1, <1>2, <1>5 DEF Replan, ReportOK, End
  <2>3. NodeOK' /\ Places' /\ Approved'
    BY <1>1, <1>3, <1>5 DEF Replan, End, Visit, NodeOK, Places, Approved, Unused
  <2> QED
    BY <2>1, <2>2, <2>3, Types
<1>6. CASE Advance
  <2>1. GroundOK'
    BY <1>1, <1>6 DEF Advance, GroundOK
  <2>2. Len(plan) \in Nat /\ stepIndex' \in Nat
    BY <1>1, <2>1, PlanShape DEF GroundOK
  <2>3. ReportOK'
    BY <1>1, <1>6 DEF Advance, ReportOK
  <2>4. NodeOK' /\ Places' /\ Approved'
    BY <1>1, <1>3, <1>6, <2>2 DEF Advance, AdvanceEdge, Visit, NodeOK, Places, Approved, Unused
  <2> QED
    BY <2>1, <2>3, <2>4, Types
<1>7. CASE FinalAssertions
  <2>1. [id |-> PlanAssertions, ok |-> FALSE] \in QaStep
    BY DEF QaStep
  <2>2. GroundOK' /\ ReportOK'
    BY <1>1, <1>7, <2>1, Pushed DEF FinalAssertions, GroundOK, ReportOK, End
  <2>3. NodeOK' /\ Places' /\ Approved'
    BY <1>1, <1>3, <1>7 DEF FinalAssertions, End, Visit, NodeOK, Places, Approved, Unused
  <2> QED
    BY <2>2, <2>3, Types
<1> QED
  BY <1>4, <1>5, <1>6, <1>7

LEMMA StepInv == IInv /\ [Next]_vars => IInv'
<1> SUFFICES ASSUME IInv, [Next]_vars PROVE IInv'
  OBVIOUS
<1>1. CASE Next
  BY <1>1, QuietStep, OuterStep, RecordStep, PlanStep DEF Next
<1>2. CASE UNCHANGED vars
  BY <1>2 DEF vars, ground, flags, report, history, IInv, TypeOK, Places, Approved, Unused, LastStep, step
<1> QED
  BY <1>1, <1>2

----------------------------------------------------------------------------
(* The theorems.                                                            *)

\* IInv is inductive: it is the places that give each node its step.
THEOREM GraphInvariance == Spec => []IInv
  BY InitInv, StepInv, PTL DEF Spec

\* Every variable of the graph keeps its type, for every plan and limit.
THEOREM GraphTypeCorrect == Spec => []TypeOK
<1>1. IInv => TypeOK
  BY DEF IInv
<1> QED
  BY <1>1, GraphInvariance, PTL

\* However often a destructive step is repeated, retried after a replan or
\* interrupted, each action was approved on its own.
THEOREM EachDestructionIsGranted == Spec => []DestructionsGranted
<1>1. IInv => DestructionsGranted
  BY DEF IInv, TypeOK, Approved, Unused, DestructionsGranted
<1> QED
  BY <1>1, GraphInvariance, PTL

\* The business assertions of a step are behind it when it is left, or it is one
\* that may be left with a warning.
Seen(s) == s.asserts > 0 => s.warn \/ s.id \in asserted

\* The flags are reset before a step is looked at, so that advance moves on.
Reset ==
  /\ node \notin {"observe", "END"} => ~patchedStep /\ ~repeatStep
  /\ node \in {"precheck", "resolveAction", "policyGuard", "destructiveGuard", "interrupted",
               "execute", "observeAfter", "postcheck"} => ~passed

SeenSoFar ==
  /\ UniqueIds(plan)
  /\ \A i \in DOMAIN plan : i < stepIndex => Seen(plan[i])
  /\ node = "repeatUntil" => step.id \in asserted
  /\ node = "advance" => Seen(step)
  /\ outcome = "ok" => stepIndex > Len(plan)

LEMMA ResetStep == Reset /\ [Next]_vars => Reset'
<1> SUFFICES ASSUME Reset, [Next]_vars PROVE Reset'
  OBVIOUS
<1> USE DEF Reset, flags, Visit, End
<1>1. CASE Observe
  BY <1>1 DEF Observe
<1>2. ASSUME UNCHANGED flags,
             \/ Precheck \/ ResolveAction \/ PolicyGuard \/ DestructiveGuard
             \/ AskApprover \/ Execute \/ ObserveAfter \/ Assertions
             \/ FinalAssertions \/ Throw \/ RecursionError
      PROVE  Reset'
  <2>2. CASE Precheck \/ ResolveAction \/ PolicyGuard \/ DestructiveGuard
    <3>1. node \in {"precheck", "resolveAction", "policyGuard", "destructiveGuard"}
      BY <2>2 DEF Precheck, ResolveAction, PolicyGuard, DestructiveGuard
    <3> QED
      BY <1>2, <3>1, Zenon
  <2>3. CASE AskApprover \/ Execute \/ ObserveAfter
    <3>1. node \in {"interrupted", "execute", "observeAfter"}
      BY <2>3 DEF AskApprover, Execute, ObserveAfter
    <3> QED
      BY <1>2, <3>1, Zenon
  <2>4. CASE Assertions
    <3>1. node = "assertions" /\ node' \in {"repeatUntil", "replan"}
      BY <2>4 DEF Assertions, AssertionsEdge
    <3> QED
      BY <1>2, <3>1
  <2>5. CASE FinalAssertions \/ Throw \/ RecursionError
    <3>1. node' = "END"
      BY <2>5 DEF FinalAssertions, Throw, RecursionError
    <3> QED
      BY <3>1
  <2> QED
    BY <1>2, <2>2, <2>3, <2>4, <2>5
<1>3. CASE Postcheck
  BY <1>3 DEF Postcheck, PostcheckEdge
<1>4. CASE RepeatUntil \/ Replan \/ Advance
  BY <1>4 DEF RepeatUntil, Replan, Advance, AdvanceEdge
<1>5. CASE UNCHANGED vars
  BY <1>5 DEF vars
<1>6. \/ Observe \/ Postcheck \/ RepeatUntil \/ Replan \/ Advance \/ UNCHANGED vars
      \/ /\ UNCHANGED flags
         /\ \/ Precheck \/ ResolveAction \/ PolicyGuard \/ DestructiveGuard
            \/ AskApprover \/ Execute \/ ObserveAfter \/ Assertions
            \/ FinalAssertions \/ Throw \/ RecursionError
  BY DEF Next, Precheck, ResolveAction, PolicyGuard, DestructiveGuard, AskApprover, Execute, ObserveAfter,
     Assertions, FinalAssertions, Throw, RecursionError
<1> QED
  BY <1>1, <1>2, <1>3, <1>4, <1>5, <1>6

LEMMA SeenStep ==
  ASSUME PatchesTheFailedStep, IInv, Reset, SeenSoFar, [Next]_vars
  PROVE  SeenSoFar'
<1>1. /\ plan \in Plan /\ stepIndex \in Nat \ {0} /\ Len(plan) \in Nat /\ DOMAIN plan = 1 .. Len(plan)
      /\ \A i \in DOMAIN plan : plan[i] \in Step
  BY PlanShape DEF IInv, TypeOK
<1>2. asserted \subseteq asserted'
  BY DEF Next, vars, report, Observe, Precheck, ResolveAction, PolicyGuard, DestructiveGuard, AskApprover,
         Execute, ObserveAfter, Postcheck, Assertions, RepeatUntil, Replan, Advance, FinalAssertions,
         Throw, RecursionError, End
<1>3. CASE UNCHANGED <<plan, stepIndex>>
  <2>1. /\ UniqueIds(plan')
        /\ \A i \in DOMAIN plan' : i < stepIndex' => Seen(plan[i])'
    BY <1>2, <1>3 DEF SeenSoFar, Seen, UniqueIds
  <2>2. node' = "repeatUntil" => step'.id \in asserted'
    BY <1>2, <1>3 DEF SeenSoFar, step, Next, vars, report, Observe, Precheck, PrecheckEdge, ResolveAction,
       PolicyGuard, DestructiveGuard, AskApprover, Execute, ObserveAfter, Postcheck, PostcheckEdge, Assertions,
       AssertionsEdge, RepeatUntil, Replan, Advance, AdvanceEdge, FinalAssertions, Throw, RecursionError,
       Visit, End
  <2>3. node' = "advance" => Seen(step)'
    <3>1. CASE Precheck \/ Postcheck \/ RepeatUntil
      BY <1>2, <1>3, <3>1 DEF SeenSoFar, Seen, Reset, step, Precheck, PrecheckEdge, Postcheck, PostcheckEdge,
         RepeatUntil, Visit, End
    <3>2. CASE UNCHANGED vars
      BY <3>2 DEF vars, ground, report, SeenSoFar, Seen, step
    <3> QED
      BY <3>1, <3>2 DEF Next, Observe, ResolveAction, PolicyGuard, DestructiveGuard, AskApprover, Execute,
         ObserveAfter, Assertions, AssertionsEdge, Replan, Advance, AdvanceEdge, FinalAssertions, Throw,
         RecursionError, Visit, End
  <2>4. outcome' = "ok" => stepIndex' > Len(plan')
    BY <1>3 DEF IInv, Places, SeenSoFar, Next, vars, Observe, Precheck, ResolveAction, PolicyGuard,
       DestructiveGuard, AskApprover, Execute, ObserveAfter, Postcheck, Assertions, RepeatUntil, Replan,
       Advance, FinalAssertions, Throw, RecursionError, Visit, End
  <2> QED
    BY <2>1, <2>2, <2>3, <2>4 DEF SeenSoFar
<1>4. CASE Advance
  <2>1. stepIndex' = stepIndex + 1 /\ plan' = plan /\ Seen(step) /\ UNCHANGED <<asserted, outcome>>
    BY <1>4 DEF Advance, Reset, SeenSoFar, Visit, report
  <2>2. outcome' # "ok" /\ node' \in {"observe", "finalAssertions"}
    BY <1>4, <2>1 DEF Advance, AdvanceEdge, Visit, IInv, Places
  <2>3. \A i \in DOMAIN plan : i < stepIndex + 1 => Seen(plan[i])
    BY <1>1, <2>1 DEF SeenSoFar, step
  <2> QED
    BY <2>1, <2>2, <2>3 DEF SeenSoFar, Seen
<1>5. CASE Replan /\ plan' # plan
  <2>1. /\ plan' \in Replans(plan, plan[stepIndex]) /\ node = "replan" /\ node' = "observe"
        /\ UNCHANGED <<stepIndex, asserted, outcome>>
    BY <1>5 DEF Replan, Visit, step
  <2>2. stepIndex \in 1 .. Len(plan) /\ outcome = "running"
    BY <1>1, <2>1 DEF IInv, Places
  <2>3. UniqueIds(plan') /\ \A j \in 1 .. stepIndex - 1 : plan'[j] = plan[j]
    <3>1. UniqueIds(plan)
      BY DEF SeenSoFar
    <3> QED
      BY <1>1, <2>1, <2>2, <3>1, ReplanKeepsPrefix
  <2>4. plan' \in Plan
    BY <1>1, <2>1, ReplansArePlans
  <2>5. ASSUME NEW i \in DOMAIN plan', i < stepIndex PROVE Seen(plan'[i])
    <3>1. i \in 1 .. stepIndex - 1 /\ i \in DOMAIN plan
      BY <1>1, <2>2, <2>4, <2>5, PlanShape
    <3> QED
      BY <2>2, <2>3, <3>1 DEF SeenSoFar
  <2> QED
    BY <2>1, <2>2, <2>3, <2>5 DEF SeenSoFar, Seen
<1> QED
  BY <1>3, <1>4, <1>5 DEF Next, vars, ground, Observe, Precheck, ResolveAction, PolicyGuard, DestructiveGuard,
     AskApprover, Execute, ObserveAfter, Postcheck, Assertions, RepeatUntil, Replan, FinalAssertions,
     Throw, RecursionError

\* A run of the graph that passed has checked the business assertions of every
\* step it could not have excused, also of steps that needed recovery.
THEOREM PassedRunsCheckAssertions ==
  ASSUME PatchesTheFailedStep
  PROVE  Spec => []AssertionsChecked
<1>1. Init => Reset /\ SeenSoFar
  <2> SUFFICES ASSUME Init PROVE Reset /\ SeenSoFar
    OBVIOUS
  <2>1. plan \in Plan /\ UniqueIds(plan) /\ stepIndex = 1
    BY PlansAssumption DEF Init, PatchesTheFailedStep
  <2>2. \A i \in DOMAIN plan : ~(i < stepIndex)
    BY <2>1, PlanShape
  <2> QED
    BY <2>1, <2>2 DEF Init, Reset, SeenSoFar
<1>2. IInv /\ Reset /\ SeenSoFar /\ [Next]_vars => SeenSoFar'
  BY SeenStep
<1>3. IInv /\ SeenSoFar => AssertionsChecked
  <2> SUFFICES ASSUME IInv, SeenSoFar, outcome = "ok", NEW i \in DOMAIN plan, plan[i].asserts > 0
               PROVE  plan[i].warn \/ plan[i].id \in asserted
    BY DEF AssertionsChecked
  <2>1. plan \in Plan /\ stepIndex \in Nat /\ stepIndex > Len(plan)
    BY DEF IInv, TypeOK, SeenSoFar
  <2>2. i < stepIndex
    BY <2>1, PlanShape
  <2> QED
    BY <2>2 DEF SeenSoFar, Seen
<1> QED
  BY <1>1, <1>2, <1>3, ResetStep, GraphInvariance, PTL DEF Spec

\* A node that keeps the plan, the place and the budget is a stutter of the
\* contract; the others are its steps.
LEMMA RunStep == IInv /\ [Next]_vars => [Run!RunNext]_Run!runVars
<1> SUFFICES ASSUME IInv, [Next]_vars PROVE [Run!RunNext]_Run!runVars
  OBVIOUS
<1> USE DEF Run!RunNext, Run!runVars, ground
<1>1. GroundOK /\ Len(plan) \in Nat /\ (node # "END" => outcome = "running")
  BY Types, PlanShape DEF IInv, Places, GroundOK
<1>2. CASE UNCHANGED <<plan, stepIndex, replans, outcome>>
  BY <1>2
<1>3. ASSUME UNCHANGED <<plan, stepIndex, replans>>, node # "END", outcome' \in {"failed", "thrown", "recursion"}
      PROVE  [Run!RunNext]_Run!runVars
  BY <1>1, <1>3 DEF Run!GiveUp
<1>4. CASE Advance
  <2>1. node = "advance" /\ stepIndex <= Len(plan)
    BY <1>4 DEF Advance, Visit, IInv, Places
  <2> QED
    BY <1>1, <1>4, <2>1, <1>2 DEF Advance, Run!LeaveStep, report
<1>5. CASE Replan
  <2>1. node = "replan" /\ stepIndex <= Len(plan)
    BY <1>5 DEF Replan, End, Visit, IInv, Places
  <2>2. CASE End("replan", LastStep) /\ UNCHANGED <<plan, replans, patchedStep, passed>>
    BY <1>3, <1>5, <2>1, <2>2 DEF End, Replan
  <2>3. CASE UNCHANGED <<failedStep, outcome>>
    <3>1. \/ plan' \in Plan /\ replans < MaxReplans /\ replans' = replans + 1
          \/ End("replan", LastStep) /\ UNCHANGED <<plan, replans, patchedStep, passed>>
      BY <1>1, <1>5, ReplansArePlans DEF Replan, GroundOK
    <3>2. plan' \in Plan => plan' \in Run!Plan
      BY DEF Plan, Step, Run!Plan, Run!Step
    <3> QED
      BY <1>1, <1>5, <2>1, <2>2, <2>3, <3>1, <3>2 DEF Replan, Run!RewritePlan
  <2> QED
    BY <1>5, <2>2, <2>3 DEF Replan
<1>6. CASE FinalAssertions
  <2>1. node = "finalAssertions" /\ stepIndex > Len(plan)
    BY <1>6 DEF FinalAssertions, End, Visit, IInv, Places
  <2>2. CASE outcome' = "ok"
    BY <1>1, <1>6, <2>1, <2>2 DEF FinalAssertions, Run!Succeed
  <2>3. CASE outcome' = "failed"
    BY <1>3, <1>6, <2>1, <2>3 DEF FinalAssertions
  <2> QED
    BY <1>6, <2>2, <2>3 DEF FinalAssertions, End
<1>7. CASE PolicyGuard \/ RepeatUntil \/ AskApprover \/ Throw \/ RecursionError
  <2>1. UNCHANGED <<plan, stepIndex, replans>> /\ node # "END"
    BY <1>7 DEF PolicyGuard, RepeatUntil, AskApprover, Throw, RecursionError, Visit, End
  <2>2. outcome' = outcome \/ outcome' \in {"failed", "thrown", "recursion"}
    BY <1>7 DEF PolicyGuard, RepeatUntil, AskApprover, Throw, RecursionError, End
  <2> QED
    BY <1>2, <1>3, <2>1, <2>2
<1>8. CASE \/ Observe \/ Precheck \/ ResolveAction \/ DestructiveGuard \/ Execute \/ ObserveAfter
           \/ Postcheck \/ Assertions \/ UNCHANGED vars
  BY <1>2, <1>8 DEF Observe, Precheck, ResolveAction, DestructiveGuard, Execute, ObserveAfter, Postcheck,
                    Assertions, vars
<1> QED
  BY <1>4, <1>5, <1>6, <1>7, <1>8 DEF Next

\* The graph engine, too, leaves steps in order, rewrites the plan within the
\* budget and decides the outcome once: the engines may be exchanged.
THEOREM GraphImplementsRun == Spec => ImplementsPlanRun
<1>1. Init => Run!RunInit
  BY DEF Init, Run!RunInit
<1> QED
  BY <1>1, RunStep, GraphInvariance, PTL DEF Spec, ImplementsPlanRun, Run!RunSpec

---------------------------------------------------------------------------
(* Planning: the requests to the LLM.                                       *)

\* The tasks of a request, each with its scenario.
TaskPairs(r) == UNION {{<<s.id, t>> : t \in ToSet(s.tasks)} : s \in ToSet(r.scenarios)}

LEMMA TasksArePairs ==
  ASSUME NEW r \in Requests
  PROVE  /\ Tasks(r) \in Seq(TaskPairs(r))
         /\ \A p \in TaskPairs(r) : /\ p[1] \in ScenarioIds(r.scenarios)
                                    /\ p[2].outcome \in OutcomeKinds \cup {None}
<1> DEFINE Of(scenario) == [j \in DOMAIN scenario.tasks |-> <<scenario.id, scenario.tasks[j]>>]
           seqs == [i \in DOMAIN r.scenarios |-> Of(r.scenarios[i])]
<1>0. IsCatalogue(r.scenarios)
  BY PlanningAssumption
<1>1. ASSUME NEW i \in DOMAIN r.scenarios PROVE Of(r.scenarios[i]) \in Seq(TaskPairs(r))
  <2> DEFINE s == r.scenarios[i]
  <2>1. s \in ToSet(r.scenarios) /\ s.tasks \in Seq(ToSet(s.tasks))
    BY <1>0 DEF IsCatalogue, ToSet
  <2>2. \A j \in DOMAIN s.tasks : <<s.id, s.tasks[j]>> \in TaskPairs(r)
    BY <2>1 DEF TaskPairs, ToSet
  <2> HIDE DEF s
  <2>3. DOMAIN s.tasks = 1..Len(s.tasks) /\ Len(s.tasks) \in Nat
    BY <2>1
  <2>4. Of(s) \in Seq(TaskPairs(r))
    BY <2>2, <2>3
  <2> QED BY <2>4 DEF s
<1>2. seqs \in Seq(Seq(TaskPairs(r)))
  <2>1. DOMAIN r.scenarios = 1..Len(r.scenarios) /\ Len(r.scenarios) \in Nat
    BY <1>0 DEF IsCatalogue
  <2> HIDE DEF Of
  <2> QED BY <1>1, <2>1
<1>3. Tasks(r) = FlattenSeq(seqs)
  BY DEF Tasks
<1>4. ASSUME NEW p \in TaskPairs(r)
      PROVE  p[1] \in ScenarioIds(r.scenarios) /\ p[2].outcome \in OutcomeKinds \cup {None}
  <2>0. PICK s \in ToSet(r.scenarios) : \E t \in ToSet(s.tasks) : p = <<s.id, t>>
    BY DEF TaskPairs
  <2>1. PICK t \in ToSet(s.tasks) : p = <<s.id, t>>
    BY <2>0
  <2>2. t.outcome \in OutcomeKinds \cup {None}
    BY <1>0 DEF IsCatalogue
  <2>3. s.id \in ScenarioIds(r.scenarios)
    BY DEF ScenarioIds, ToSet
  <2> QED BY <2>1, <2>2, <2>3
<1> HIDE DEF seqs
<1>5. FlattenSeq(seqs) \in Seq(TaskPairs(r))
  BY <1>2, FlattenJoins
<1> QED BY <1>3, <1>4, <1>5

\* A plan is about these scenarios, and a condition decides about each of its clicks.
Verified(s) == s.action.type = "click" => HasVerifiedStatePostcondition(s)
IsAbout(made, scenarios) ==
  TaskIds(scenarios) # {} =>
    \A s \in ToSet(made) : s.scenario \in ScenarioIds(scenarios) \/ IsEmergency(s)
Fits(made, scenarios) ==
  IsAbout(made, scenarios) /\ \A i \in DOMAIN made : Verified(made[i])

Proves(s) == s.action.type = "click" => \E c \in s.posts : IsLogoutProofCondition(c)

\* The step that the factory makes for a task.
IsFor(one, pair) ==
  /\ one.scenario = pair[1] /\ Verified(one)
  /\ pair[2].outcome = "DEAUTHENTICATION" => Proves(one)

Harmless(one) == one.isFallback /\ one.action.type = "waitForStable"

LEMMA SafeChecksAreHarmless ==
  ASSUME NEW scenario, NEW task
  PROVE  /\ Harmless(MakeSafeCheckStep(scenario, task))
         /\ IsFor(MakeSafeCheckStep(scenario, task), <<scenario, task>>)
  BY DEF Harmless, IsFor, Verified, Proves, MakeSafeCheckStep, MakeStep, Action, NoLocator, Locator

LEMMA ContractStepsFit ==
  ASSUME NEW scenario, NEW task, NEW config, NEW kind \in OutcomeKinds,
         task.outcome \in {None, kind}
  PROVE  IsFor(ContractStep(scenario, task, config, kind), <<scenario, task>>)
<1> DEFINE one == ContractStep(scenario, task, config, kind)
           labels == SemanticTarget(task, config)
           safe == MakeSafeCheckStep(scenario, task)
<1>0. IsFor(safe, <<scenario, task>>)
  BY SafeChecksAreHarmless DEF IsFor
<1> SUFFICES IsFor(one, <<scenario, task>>)
  OBVIOUS
<1> HIDE DEF one, labels, safe
<1> USE DEF IsFor, Verified, Proves, HasVerifiedStatePostcondition, IsLogoutProofCondition,
            MakeStep, Action, Condition, NoLocator, Locator
<1>1. CASE one = safe
  BY <1>0, <1>1
<1>2. CASE one # safe /\ kind = "AUTHENTICATION"
  <2>1. one = AuthenticationStep(scenario, task)
    BY <1>2 DEF ContractStep, one, labels, safe
  <2> QED BY <2>1, <1>2 DEF AuthenticationStep, None
<1>3. CASE one # safe /\ kind = "DEAUTHENTICATION"
  <2>1. one = LogoutStep(scenario, task, labels)
    BY <1>3 DEF ContractStep, one, labels, safe
  <2> QED BY <2>1, <1>3 DEF LogoutStep
<1>4. CASE one # safe /\ kind = "APPEARANCE_CHANGE"
  <2>1. one = ThemeStep(scenario, task, labels)
    BY <1>4 DEF ContractStep, one, labels, safe
  <2> QED BY <2>1, <1>4 DEF ThemeStep, None
<1>5. CASE one # safe /\ kind = "DISCLOSURE"
  <2>1. one = DisclosureStep(scenario, task, labels)
    BY <1>5 DEF ContractStep, one, labels, safe
  <2> QED BY <2>1, <1>5 DEF DisclosureStep, None
<1>6. CASE one # safe /\ kind = "DATA_ENTRY"
  <2>1. one = DataEntryStep(scenario, task, labels)
    BY <1>6 DEF ContractStep, one, labels, safe
  <2> QED BY <2>1, <1>6 DEF DataEntryStep, None
<1>7. CASE one # safe /\ kind = "NAVIGATION"
  <2>1. one = MakeNavigationStep(scenario, task, config)
    BY <1>7 DEF ContractStep, one, labels, safe
  <2> QED BY <2>1, <1>7 DEF MakeNavigationStep, None, safe
<1>8. one = safe \/ kind \in {"AUTHENTICATION", "DEAUTHENTICATION", "APPEARANCE_CHANGE",
                               "DISCLOSURE", "DATA_ENTRY", "NAVIGATION"}
  BY DEF ContractStep, OutcomeKinds, one, labels, safe
<1> QED BY <1>1, <1>2, <1>3, <1>4, <1>5, <1>6, <1>7, <1>8

\* What the factory may make of the tasks of a request.
StepsFor(r) ==
  {ContractStep(p[1], p[2], r.config, kind) : p \in TaskPairs(r), kind \in OutcomeKinds}
    \cup {MakeSafeCheckStep(p[1], p[2]) : p \in TaskPairs(r)}

\* The tasks are worked off in order, each for one step.
BuildingOK ==
  /\ todo \in Seq(TaskPairs(req)) /\ taskSteps \in Seq(StepsFor(req))
  /\ Len(taskSteps) + Len(todo) = Len(Tasks(req))
  /\ \A i \in 1..Len(todo) : todo[i] = Tasks(req)[Len(taskSteps) + i]
  /\ \A i \in 1..Len(taskSteps) : IsFor(taskSteps[i], Tasks(req)[i])
  /\ unclassified \subseteq 1..Len(taskSteps)
  /\ \A i \in unclassified : Harmless(taskSteps[i])

\* A plan that the policy has let through proves its logouts.
ProvesLogouts(made, scenarios) ==
  \A i \in DOMAIN made :
    (\E t \in FindTask(made[i], scenarios) : t.outcome = "DEAUTHENTICATION") => Proves(made[i])

\* A plan fits its request, also when it was made for another one.
ResultOK ==
  /\ pc # "done" => result = NoResult
  /\ result.kind = "plan" =>
       /\ Fits(result.plan, req.scenarios)
       /\ ~result.cached /\ result.source = "factory" => result.plan = taskSteps /\ todo = <<>>
       /\ ~result.cached /\ result.source # "factory" => ProvesLogouts(result.plan, req.scenarios)
  /\ ActsOnWhatItSaw

IsPlan(planned) == DOMAIN planned = {"kind", "plan", "source", "cached"} /\ planned.kind = "plan"

\* What is cached under a key was made for a request with that key.
CacheOK ==
  \A key \in DOMAIN cache :
    /\ IsPlan(cache[key])
    /\ \E r \in Requests : CacheKey(r) = key /\ Fits(cache[key].plan, r.scenarios)

AsksOutcome == todo # <<>> /\ Head(todo)[2].outcome = None

Serving == {"decide", "lookup", "factory", "buildPlan", "classify"}

PlanningInv ==
  /\ req \in Requests /\ pc \in Serving \cup {"idle", "done"}
  /\ pc # "idle" => BuildingOK
  /\ pc = "classify" => AsksOutcome
  /\ ResultOK /\ CacheOK

---------------------------------------------------------------------------

\* Requests with one key have the same scenarios.
LEMMA CachedPlansFit ==
  ASSUME NEW q \in Requests, NEW r \in Requests, CacheKey(q) = CacheKey(r),
         NEW made, Fits(made, r.scenarios)
  PROVE  Fits(made, q.scenarios)
<1>1. /\ IsCatalogue(q.scenarios) /\ IsCatalogue(r.scenarios)
  BY PlanningAssumption
<1>2. [i \in DOMAIN q.scenarios |-> q.scenarios[i].id]
        = [i \in DOMAIN r.scenarios |-> r.scenarios[i].id]
  BY DEF CacheKey
<1>3. ScenarioIds(q.scenarios) = ScenarioIds(r.scenarios)
  BY <1>2 DEF ScenarioIds
<1>4. ASSUME TaskIds(q.scenarios) # {} PROVE TaskIds(r.scenarios) # {}
  <2>1. DOMAIN q.scenarios # {}
    BY <1>4 DEF TaskIds, TasksOf
  <2>2. PICK i \in DOMAIN r.scenarios : TRUE
    BY <1>2, <2>1
  <2>3. r.scenarios[i] \in ToSet(r.scenarios)
    BY DEF ToSet
  <2>4. r.scenarios[i].tasks \in Seq(ToSet(r.scenarios[i].tasks)) \ {<<>>}
    BY <1>1, <2>3 DEF IsCatalogue
  <2>5. 1 \in DOMAIN r.scenarios[i].tasks
    BY <2>4
  <2>6. r.scenarios[i].tasks[1] \in TasksOf(r.scenarios)
    BY <2>5 DEF TasksOf, ToSet
  <2> QED BY <2>6 DEF TaskIds
<1> QED BY <1>3, <1>4 DEF Fits, IsAbout

\* What the policy lets through.
LEMMA PolicyHolds ==
  ASSUME NEW made, NEW config, NEW scenarios, ValidateSemanticPlan(made, config, scenarios)
  PROVE  Fits(made, scenarios) /\ ProvesLogouts(made, scenarios)
<1>1. \A i \in DOMAIN made : ~IssueOf(made[i], config, scenarios)
  BY DEF ValidateSemanticPlan
<1>2. ASSUME NEW i \in DOMAIN made
      PROVE  /\ TaskIds(scenarios) # {} =>
                  made[i].scenario \in ScenarioIds(scenarios) \/ IsEmergency(made[i])
             /\ Verified(made[i])
             /\ (\E t \in FindTask(made[i], scenarios) : t.outcome = "DEAUTHENTICATION")
                  => Proves(made[i])
  BY <1>1 DEF IssueOf, KnowsItsTask, Verified, Proves, IsLogoutClick
<1> QED BY <1>2 DEF Fits, IsAbout, ProvesLogouts, ToSet

\* So does what the factory has made of all tasks.
LEMMA FactoryPlansFit ==
  ASSUME req \in Requests, BuildingOK
  PROVE  Fits(taskSteps, req.scenarios)
<1>1. DOMAIN taskSteps = 1..Len(taskSteps)
  BY DEF BuildingOK
<1>2. ASSUME NEW i \in 1..Len(taskSteps)
      PROVE  taskSteps[i].scenario \in ScenarioIds(req.scenarios) /\ Verified(taskSteps[i])
  <2>1. i \in 1..Len(Tasks(req))
    BY TasksArePairs DEF BuildingOK
  <2>2. Tasks(req)[i] \in TaskPairs(req)
    BY <2>1, TasksArePairs
  <2> QED BY <2>2, TasksArePairs DEF BuildingOK, IsFor
<1> QED BY <1>1, <1>2 DEF Fits, IsAbout, ToSet

\* A step that leaves the books alone.
LEMMA PlanningGoesOn ==
  ASSUME PlanningInv, pc \in Serving, pc' \in Serving, pc' = "classify" => AsksOutcome,
         UNCHANGED <<cache, req, building, result>>
  PROVE  PlanningInv'
<1>1. UNCHANGED <<todo, taskSteps, unclassified>>
  BY DEF building
<1>2. pc # "idle" /\ pc # "done" /\ pc' # "idle" /\ pc' # "done"
  BY DEF Serving
<1>3. BuildingOK'
  BY <1>1, <1>2 DEF PlanningInv, BuildingOK
<1>4. result = NoResult /\ result' = NoResult
  BY <1>2 DEF PlanningInv, ResultOK
<1>5. NoResult.kind # "plan" /\ NoResult.kind # "decision"
  BY DEF NoResult, None
<1>6. ActsOnWhatItSaw' /\ ResultOK'
  BY <1>4, <1>5 DEF ResultOK, ActsOnWhatItSaw
<1>7. CacheOK'
  BY DEF PlanningInv, CacheOK
<1>8. req' \in Requests
  BY DEF PlanningInv
<1>9. pc' = "classify" => AsksOutcome'
  BY <1>1 DEF AsksOutcome
<1> QED BY <1>3, <1>6, <1>7, <1>8, <1>9 DEF PlanningInv

\* The request ends with an error or with a decision.
LEMMA PlanningEnds ==
  ASSUME PlanningInv, pc \in Serving, pc' = "done",
         UNCHANGED <<cache, req, building>>,
         result'.kind # "plan", ActsOnWhatItSaw'
  PROVE  PlanningInv'
  BY DEF PlanningInv, BuildingOK, ResultOK, CacheOK, building, Serving

\* The next step is made.
LEMMA StepAdded ==
  ASSUME PlanningInv, pc \in {"factory", "classify"}, todo # <<>>,
         NEW one \in StepsFor(req), IsFor(one, Head(todo)), AddStep(one),
         \/ unclassified' = unclassified
         \/ unclassified' = unclassified \union {Len(taskSteps) + 1} /\ Harmless(one),
         UNCHANGED <<cache, req, result>>
  PROVE  PlanningInv'
<1>1. BuildingOK /\ req \in Requests
  BY DEF PlanningInv
<1>2. BuildingOK'
  <2>1. /\ todo' = Tail(todo) /\ taskSteps' = Append(taskSteps, one)
        /\ todo' \in Seq(TaskPairs(req)) /\ taskSteps' \in Seq(StepsFor(req))
    BY <1>1 DEF AddStep, BuildingOK
  <2>2. /\ Len(todo') = Len(todo) - 1 /\ Len(taskSteps') = Len(taskSteps) + 1
        /\ Len(todo) \in Nat \ {0} /\ Len(taskSteps) \in Nat
    BY <1>1, <2>1 DEF BuildingOK
  <2>3. \A i \in 1..Len(todo') : todo'[i] = Tasks(req)[Len(taskSteps') + i]
    <3>1. ASSUME NEW i \in 1..Len(todo') PROVE todo'[i] = Tasks(req)[Len(taskSteps') + i]
      <4>1. todo'[i] = todo[i + 1] /\ i + 1 \in 1..Len(todo)
        BY <1>1, <2>1, <2>2 DEF BuildingOK
      <4>2. todo[i + 1] = Tasks(req)[Len(taskSteps) + (i + 1)]
        BY <1>1, <4>1 DEF BuildingOK
      <4> QED BY <2>2, <4>1, <4>2
    <3> QED BY <3>1
  <2>4. Head(todo) = Tasks(req)[Len(taskSteps) + 1]
    BY <1>1, <2>2 DEF BuildingOK
  <2>5. \A i \in 1..Len(taskSteps) : taskSteps'[i] = taskSteps[i]
    BY <1>1, <2>1 DEF BuildingOK
  <2>6. taskSteps'[Len(taskSteps) + 1] = one
    BY <1>1, <2>1 DEF BuildingOK
  <2>7. \A i \in 1..Len(taskSteps') : IsFor(taskSteps'[i], Tasks(req)[i])
    <3>1. ASSUME NEW i \in 1..Len(taskSteps') PROVE IsFor(taskSteps'[i], Tasks(req)[i])
      <4>1. CASE i \in 1..Len(taskSteps)
        BY <1>1, <2>5, <4>1 DEF BuildingOK
      <4>2. CASE i = Len(taskSteps) + 1
        BY <2>4, <2>6, <4>2
      <4> QED BY <2>2, <4>1, <4>2
    <3> QED BY <3>1
  <2>8. unclassified' \subseteq 1..Len(taskSteps')
    <3>1. unclassified \subseteq 1..Len(taskSteps)
      BY <1>1 DEF BuildingOK
    <3>2. unclassified' \subseteq 1..Len(taskSteps) \cup {Len(taskSteps) + 1}
      BY <3>1
    <3>3. 1..Len(taskSteps) \cup {Len(taskSteps) + 1} \subseteq 1..Len(taskSteps')
      BY <2>2
    <3> QED BY <3>2, <3>3
  <2>9. \A i \in unclassified' : Harmless(taskSteps'[i])
    <3>1. \A i \in unclassified : taskSteps'[i] = taskSteps[i] /\ Harmless(taskSteps[i])
      BY <1>1, <2>5 DEF BuildingOK
    <3> QED BY <2>6, <3>1
  <2>10. Len(taskSteps') + Len(todo') = Len(Tasks(req))
    <3>1. Len(taskSteps) + Len(todo) = Len(Tasks(req))
      BY <1>1 DEF BuildingOK
    <3> QED BY <2>2, <3>1
  <2> QED BY <2>1, <2>3, <2>7, <2>8, <2>9, <2>10 DEF BuildingOK
<1>3. pc' = "factory"
  BY DEF AddStep
<1>4. ResultOK'
  <2>1. result' = NoResult
    BY DEF PlanningInv, ResultOK
  <2> QED BY <2>1 DEF ResultOK, ActsOnWhatItSaw, NoResult, None
<1>5. CacheOK'
  BY DEF PlanningInv, CacheOK
<1> QED BY <1>1, <1>2, <1>3, <1>4, <1>5 DEF PlanningInv, Serving

\* The head of the tasks is one of the request.
LEMMA NextTask ==
  ASSUME PlanningInv, pc # "idle", todo # <<>>
  PROVE  /\ Head(todo) \in TaskPairs(req) /\ Head(todo) = <<Head(todo)[1], Head(todo)[2]>>
         /\ Head(todo)[2].outcome \in OutcomeKinds \cup {None}
<1>1. Head(todo) \in TaskPairs(req)
  BY DEF PlanningInv, BuildingOK
<1>2. Head(todo) = <<Head(todo)[1], Head(todo)[2]>>
  BY <1>1 DEF TaskPairs
<1> QED BY <1>1, <1>2, TasksArePairs DEF PlanningInv

\* A step of the contract of the next task.
LEMMA ContractStepAdded ==
  ASSUME PlanningInv, pc \in {"factory", "classify"}, todo # <<>>, NEW kind \in OutcomeKinds,
         Head(todo)[2].outcome \in {None, kind},
         AddStep(ContractStep(Head(todo)[1], Head(todo)[2], Config, kind)),
         unclassified' = unclassified, UNCHANGED <<cache, req, result>>
  PROVE  PlanningInv'
<1> DEFINE one == ContractStep(Head(todo)[1], Head(todo)[2], Config, kind)
<1>1. one \in StepsFor(req)
  BY NextTask DEF StepsFor, Config
<1>2. IsFor(one, Head(todo))
  BY NextTask, ContractStepsFit
<1> HIDE DEF one
<1>3. AddStep(one)
  BY DEF one
<1> QED BY <1>1, <1>2, <1>3, StepAdded

\* The step of a task that nobody could classify.
LEMMA UnclassifiedAdded ==
  ASSUME PlanningInv, pc = "classify", Unclassified,
         unclassified' = unclassified \union {Len(taskSteps) + 1}, UNCHANGED <<cache, req, result>>
  PROVE  PlanningInv'
<1> DEFINE one == MakeSafeCheckStep(Head(todo)[1], Head(todo)[2])
<1>0. todo # <<>>
  BY DEF PlanningInv, AsksOutcome
<1>1. one \in StepsFor(req)
  BY <1>0, NextTask DEF StepsFor
<1>2. IsFor(one, Head(todo)) /\ Harmless(one)
  BY <1>0, NextTask, SafeChecksAreHarmless
<1> HIDE DEF one
<1>3. AddStep(one)
  BY DEF one, Unclassified
<1> QED BY <1>0, <1>1, <1>2, <1>3, StepAdded

\* A plan is returned, and cached.
LEMMA PlanReturned ==
  ASSUME PlanningInv, pc \in Serving, UNCHANGED <<req, building>>,
         NEW made, NEW source, Return(PlanResult(made, source)), Fits(made, req.scenarios),
         IF source = "factory" THEN made = taskSteps /\ todo = <<>>
         ELSE ProvesLogouts(made, req.scenarios)
  PROVE  PlanningInv'
<1> DEFINE planned == PlanResult(made, source)
<1>1. /\ IsPlan(planned) /\ planned.plan = made /\ planned.source = source
  BY DEF PlanResult, IsPlan
<1>2. pc' = "done" /\ result' = planned
  BY DEF Return
<1>3. ResultOK'
  BY <1>1, <1>2 DEF ResultOK, ActsOnWhatItSaw, IsPlan, building
<1>4. CacheOK'
  <2> HIDE DEF planned
  <2>1. ASSUME NEW key \in DOMAIN cache'
        PROVE  IsPlan(cache'[key])
               /\ \E r \in Requests : CacheKey(r) = key /\ Fits(cache'[key].plan, r.scenarios)
    <3>1. CASE key = CacheKey(req)
      <4>1. cache'[key] = planned
        BY <2>1, <3>1 DEF Return, planned
      <4> QED BY <1>1, <3>1, <4>1 DEF PlanningInv
    <3>2. CASE key # CacheKey(req)
      <4>1. key \in DOMAIN cache /\ cache'[key] = cache[key]
        BY <2>1, <3>2 DEF Return
      <4> QED BY <4>1 DEF PlanningInv, CacheOK
    <3> QED BY <3>1, <3>2
  <2> QED BY <2>1 DEF CacheOK
<1>5. BuildingOK'
  BY DEF PlanningInv, BuildingOK, building, Serving
<1> QED BY <1>2, <1>3, <1>4, <1>5 DEF PlanningInv

---------------------------------------------------------------------------
(* The actions.                                                             *)

LEMMA PlanFailsKeeps ==
  ASSUME PlanningInv, PlanFails, UNCHANGED <<cache, req>>
  PROVE  PlanningInv'
<1>1. pc \in Serving /\ UNCHANGED building
  BY DEF PlanFails, Serving
<1>2. CASE pc' = "factory" /\ UNCHANGED result
  BY <1>1, <1>2, PlanningGoesOn DEF Serving
<1>3. CASE pc' = "done" /\ result' = Failure
  BY <1>1, <1>3, PlanningEnds DEF Failure, ActsOnWhatItSaw
<1> QED BY <1>2, <1>3 DEF PlanFails

LEMMA DecisionFailsKeeps ==
  ASSUME PlanningInv, DecisionFails, UNCHANGED <<cache, req>>
  PROVE  PlanningInv'
<1>1. pc \in Serving /\ UNCHANGED building
  BY DEF DecisionFails, Serving
<1>2. CASE pc' = pc /\ UNCHANGED result
  BY <1>1, <1>2, PlanningGoesOn DEF PlanningInv
<1>3. CASE pc' = "done" /\ result' = Failure
  BY <1>1, <1>3, PlanningEnds DEF Failure, ActsOnWhatItSaw
<1>4. CASE pc' = "done" /\ result' = Decision([type |-> "abortScenario", target |-> 0])
  <2>1. result'.kind # "plan" /\ ActsOnWhatItSaw'
    BY <1>4 DEF Decision, ActsOnWhatItSaw, RequiresElement, NeedsElement
  <2> QED BY <1>1, <1>4, <2>1, PlanningEnds
<1> QED BY <1>2, <1>3, <1>4 DEF DecisionFails

LEMMA FailsKeeps ==
  ASSUME PlanningInv, Fails, UNCHANGED <<cache, req>>
  PROVE  PlanningInv'
<1>1. CASE PlanFails
  BY <1>1, PlanFailsKeeps
<1>2. CASE ClassificationFails
  BY <1>2, UnclassifiedAdded DEF ClassificationFails
<1>3. CASE DecisionFails
  BY <1>3, DecisionFailsKeeps
<1> QED BY <1>1, <1>2, <1>3 DEF Fails

\* What groq makes of a decision acts on an element of the page, or on none.
LEMMA DecisionsRepaired ==
  ASSUME NEW r \in Requests, NEW raw
  PROVE  LET action == RepairAction(raw, r.elements, r.first)
         IN /\ action.target \in r.elements \cup {0}
            /\ action.type \in RequiresElement => action.target # 0
<1>1. r.first \in r.elements \cup {0}
  BY PlanningAssumption
<1>2. NormalizeElementId(raw.id, r.elements) \in r.elements \cup {0}
  BY DEF NormalizeElementId
<1> QED BY <1>1, <1>2 DEF RepairAction, RequiresElement, NeedsElement

LEMMA DecidedKeeps ==
  ASSUME PlanningInv, NEW raw, Decided(raw)
  PROVE  PlanningInv'
<1>1. pc \in Serving /\ UNCHANGED <<cache, req>> /\ req \in Requests
  BY DEF Decided, Serving, PlanningInv
<1>2. CASE Config.provider = "groq"
  <2> DEFINE action == RepairAction(raw, req.elements, req.first)
  <2>1. /\ action.target \in req.elements \cup {0}
        /\ action.type \in RequiresElement => action.target # 0
    BY <1>1, DecisionsRepaired
  <2>2. result' = Decision(action) /\ pc' = "done" /\ UNCHANGED building
    BY <1>2 DEF Decided
  <2> HIDE DEF action
  <2>3. result'.kind # "plan" /\ ActsOnWhatItSaw'
    BY <1>1, <2>1, <2>2 DEF Decision, ActsOnWhatItSaw
  <2> QED BY <1>1, <2>2, <2>3, PlanningEnds
<1>3. CASE Config.provider # "groq" /\ DecisionFails
  BY <1>1, <1>3, DecisionFailsKeeps
<1>4. CASE /\ Config.provider # "groq" /\ pc' = "done" /\ UNCHANGED building
           /\ result' = Decision([type |-> raw.type, target |-> raw.id.n])
  <2>1. result'.kind # "plan" /\ ActsOnWhatItSaw'
    BY <1>1, <1>4 DEF Decision, ActsOnWhatItSaw, Config
  <2> QED BY <1>1, <1>4, <2>1, PlanningEnds
<1> QED BY <1>2, <1>3, <1>4 DEF Decided

LEMMA FakeDecidesKeeps ==
  ASSUME PlanningInv, FakeDecides
  PROVE  PlanningInv'
<1>1. pc \in Serving /\ pc' = "done" /\ UNCHANGED <<cache, req, building>>
  BY DEF FakeDecides, Serving
<1>2. result'.kind # "plan" /\ ActsOnWhatItSaw'
  BY DEF FakeDecides, Decision, Failure, ActsOnWhatItSaw, Config
<1> QED BY <1>1, <1>2, PlanningEnds

\* A plan from a model.
LEMMA PlanAnsweredKeeps ==
  ASSUME PlanningInv, \/ \E raw \in PlanAnswers : PlanAnswered(raw)
                      \/ FakeBuildsPlan
  PROVE  PlanningInv'
<1>1. PICK made : \/ /\ ValidateSemanticPlan(made, Config, req.scenarios)
                     /\ Return(PlanResult(made, "llm")) /\ UNCHANGED building
                  \/ PlanFails /\ UNCHANGED cache
  BY DEF PlanAnswered, FakeBuildsPlan
<1>2. pc \in Serving /\ UNCHANGED req
  BY DEF PlanAnswered, FakeBuildsPlan, Serving
<1>3. CASE PlanFails /\ UNCHANGED cache
  BY <1>2, <1>3, PlanFailsKeeps
<1>4. CASE /\ ValidateSemanticPlan(made, Config, req.scenarios)
           /\ Return(PlanResult(made, "llm")) /\ UNCHANGED building
  BY <1>2, <1>4, PolicyHolds, PlanReturned
<1> QED BY <1>1, <1>3, <1>4

LEMMA FactoryDoneKeeps ==
  ASSUME PlanningInv, FactoryDone
  PROVE  PlanningInv'
<1>1. pc \in Serving /\ todo = <<>> /\ UNCHANGED <<req, building>> /\ req \in Requests /\ BuildingOK
  BY DEF FactoryDone, Serving, PlanningInv
<1>2. CASE pc' = "buildPlan" /\ UNCHANGED <<cache, result>>
  BY <1>1, <1>2, PlanningGoesOn DEF Serving
<1>3. CASE Return(PlanResult(taskSteps, "factory"))
  BY <1>1, <1>3, FactoryPlansFit, PlanReturned
<1> QED BY <1>2, <1>3 DEF FactoryDone

LEMMA ReuseKeeps ==
  ASSUME PlanningInv, Reuse
  PROVE  PlanningInv'
<1> DEFINE planned == cache[CacheKey(req)]
<1>1. req \in Requests /\ CacheKey(req) \in DOMAIN cache /\ CacheOK
  BY DEF Reuse, PlanningInv
<1>2. IsPlan(planned) /\ Fits(planned.plan, req.scenarios)
  BY <1>1, CachedPlansFit DEF CacheOK
<1>3. result' = [planned EXCEPT !.cached = TRUE] /\ pc' = "done" /\ UNCHANGED <<cache, req, building>>
  BY DEF Reuse
<1> HIDE DEF planned
<1>4. result'.kind = "plan" /\ result'.plan = planned.plan /\ result'.cached
  BY <1>2, <1>3 DEF IsPlan
<1>5. ResultOK'
  BY <1>2, <1>3, <1>4 DEF ResultOK, ActsOnWhatItSaw
<1>6. BuildingOK'
  BY <1>3 DEF Reuse, PlanningInv, BuildingOK, building
<1> QED BY <1>1, <1>3, <1>5, <1>6 DEF PlanningInv, CacheOK

LEMMA BeginKeeps ==
  ASSUME PlanningInv, NEW r \in Requests, Begin(r)
  PROVE  PlanningInv'
<1>1. /\ req' = r /\ todo' = Tasks(r) /\ taskSteps' = <<>> /\ unclassified' = {}
      /\ result' = NoResult /\ pc' \in {"decide", "lookup"} /\ UNCHANGED cache
  BY DEF Begin
<1>2. BuildingOK'
  <2>1. Tasks(r) \in Seq(TaskPairs(r))
    BY TasksArePairs
  <2>2. <<>> \in Seq(StepsFor(r)) /\ Len(<<>>) = 0
    OBVIOUS
  <2>3. Len(Tasks(r)) \in Nat /\ \A i \in 1..Len(Tasks(r)) : Tasks(r)[i] = Tasks(r)[0 + i]
    BY <2>1
  <2> HIDE DEF StepsFor, TaskPairs, Tasks
  <2> QED BY <1>1, <2>1, <2>2, <2>3 DEF BuildingOK
<1>3. ResultOK'
  BY <1>1 DEF ResultOK, ActsOnWhatItSaw, NoResult, None
<1> QED BY <1>1, <1>2, <1>3 DEF PlanningInv, CacheOK, Serving

LEMMA ExpireKeeps ==
  ASSUME PlanningInv, NEW key \in DOMAIN cache, Expire(key)
  PROVE  PlanningInv'
<1>1. \A k \in DOMAIN cache' : k \in DOMAIN cache /\ cache'[k] = cache[k]
  BY DEF Expire
<1>2. CacheOK'
  BY <1>1 DEF PlanningInv, CacheOK
<1> QED BY <1>2 DEF Expire, PlanningInv, BuildingOK, ResultOK, ActsOnWhatItSaw, AsksOutcome, building, Config

LEMMA PlanningInvInitially == PlanningInit => PlanningInv
<1> SUFFICES ASSUME PlanningInit PROVE PlanningInv
  OBVIOUS
<1>1. req \in Requests
  BY PlanningAssumption DEF PlanningInit
<1>2. CacheOK
  BY DEF PlanningInit, CacheOK
<1> QED BY <1>1, <1>2 DEF PlanningInit, PlanningInv, ResultOK, ActsOnWhatItSaw, NoResult, None

LEMMA PlanningInvStep == PlanningInv /\ [PlanningNext]_planningVars => PlanningInv'
<1> SUFFICES ASSUME PlanningInv, [PlanningNext]_planningVars PROVE PlanningInv'
  OBVIOUS
<1>1. CASE Build \/ RateLimited \/ Resolve
  <2>1. /\ pc \in Serving /\ pc' \in Serving /\ UNCHANGED <<cache, req, building, result>>
        /\ pc' = "classify" => AsksOutcome
    BY <1>1 DEF Build, RateLimited, Resolve, Calls, Serving, PlanningInv, AsksOutcome
  <2> QED BY <2>1, PlanningGoesOn
<1>2. CASE CallFails
  BY <1>2, FailsKeeps DEF CallFails
<1>3. CASE NoKey
  <2>1. CASE pc = "decide"
    <3>1. pc \in Serving /\ result' = Failure /\ pc' = "done" /\ UNCHANGED <<cache, req, building>>
      BY <1>3, <2>1 DEF NoKey, Serving
    <3> QED BY <3>1, PlanningEnds DEF Failure, ActsOnWhatItSaw
  <2>2. CASE pc # "decide"
    BY <1>3, <2>2, FailsKeeps DEF NoKey
  <2> QED BY <2>1, <2>2
<1>4. CASE (\E raw \in PlanAnswers : PlanAnswered(raw)) \/ FakeBuildsPlan
  BY <1>4, PlanAnsweredKeeps
<1>5. CASE \E kind \in OutcomeAnswers : Classified(kind)
  <2>1. PICK kind \in OutcomeKinds : Classified(kind)
    BY <1>5, PlanningAssumption
  <2> QED BY <2>1, ContractStepAdded DEF Classified, PlanningInv, AsksOutcome
<1>6. CASE \E raw \in DecisionAnswers : Decided(raw)
  BY <1>6, DecidedKeeps
<1>7. CASE FakeClassifies
  BY <1>7, ContractStepAdded DEF FakeClassifies, PlanningInv, AsksOutcome, OutcomeKinds
<1>8. CASE MakeTaskStep
  <2>1. todo # <<>> /\ Head(todo)[2].outcome \in OutcomeKinds /\ pc = "factory"
    BY <1>8, NextTask DEF MakeTaskStep
  <2> QED BY <1>8, <2>1, ContractStepAdded DEF MakeTaskStep
<1>9. CASE FakeDecides \/ Reuse \/ FactoryDone
  BY <1>9, FakeDecidesKeeps, ReuseKeeps, FactoryDoneKeeps
<1>10. CASE (\E r \in Requests : Begin(r)) \/ (\E key \in DOMAIN cache : Expire(key))
  BY <1>10, BeginKeeps, ExpireKeeps
<1>11. CASE UNCHANGED planningVars
  BY <1>11 DEF planningVars, PlanningInv, BuildingOK, ResultOK, CacheOK, ActsOnWhatItSaw, AsksOutcome, Config
<1> QED
  BY <1>1, <1>2, <1>3, <1>4, <1>5, <1>6, <1>7, <1>8, <1>9, <1>10, <1>11 DEF PlanningNext, Serve

\* Whatever a model writes, a plan that is handed on may be run (PlanMayBeRun).
THEOREM PlansMayBeRun == PlanningSpec => []PlanMayBeRun
<1>1. PlanningInv => PlanMayBeRun
  <2> SUFFICES ASSUME PlanningInv PROVE PlanMayBeRun
    OBVIOUS
  <2>1. StepsAreOfTheCatalogue
    BY DEF PlanningInv, ResultOK, Fits, IsAbout, StepsAreOfTheCatalogue, HasPlan
  <2>2. pc # "done" => ~HasPlan
    BY DEF PlanningInv, ResultOK, HasPlan, NoResult, None
  <2>3. ASSUME HasPlan, ~result.cached, result.source = "factory"
        PROVE  /\ result.plan = taskSteps /\ BuildingOK /\ DOMAIN taskSteps = 1..Len(taskSteps)
    BY <2>2, <2>3 DEF PlanningInv, ResultOK, HasPlan, BuildingOK
  <2>4. ASSUME HasPlan, NEW i \in DOMAIN result.plan, result.plan[i].action.type = "click"
        PROVE  /\ HasVerifiedStatePostcondition(result.plan[i])
               /\ ~result.cached /\ (\E t \in TaskOf(i) : t.outcome = "DEAUTHENTICATION")
                    => \E c \in result.plan[i].posts : IsLogoutProofCondition(c)
    <3>1. HasVerifiedStatePostcondition(result.plan[i])
      BY <2>4 DEF PlanningInv, ResultOK, HasPlan, Fits, Verified
    <3>2. ASSUME ~result.cached, \E t \in TaskOf(i) : t.outcome = "DEAUTHENTICATION"
          PROVE  Proves(result.plan[i])
      <4>1. CASE result.source = "factory"
        <5>1. result.plan = taskSteps /\ i \in 1..Len(taskSteps) /\ BuildingOK
          BY <2>3, <2>4, <3>2, <4>1
        <5>2. Tasks(req)[i][2].outcome = "DEAUTHENTICATION"
          BY <3>2, <4>1 DEF TaskOf
        <5> QED BY <5>1, <5>2 DEF BuildingOK, IsFor
      <4>2. CASE result.source # "factory"
        BY <2>4, <3>2, <4>2 DEF PlanningInv, ResultOK, HasPlan, TaskOf, ProvesLogouts
      <4> QED BY <4>1, <4>2
    <3> QED BY <2>4, <3>1, <3>2 DEF Proves
  <2>5. UnclassifiedIsNotActedOn
    BY <2>3 DEF UnclassifiedIsNotActedOn, BuildingOK, Harmless
  <2> QED BY <2>1, <2>4, <2>5 DEF PlanMayBeRun, ClicksAreVerified
<1> QED BY <1>1, PlanningInvInitially, PlanningInvStep, PTL DEF PlanningSpec

\* A decision acts on what was on the page (ActsOnWhatItSaw).
THEOREM DecisionsActOnWhatWasSeen == PlanningSpec => []ActsOnWhatItSaw
<1>1. PlanningInv => ActsOnWhatItSaw
  BY DEF PlanningInv, ResultOK
<1> QED BY <1>1, PlanningInvInitially, PlanningInvStep, PTL DEF PlanningSpec

---------------------------------------------------------------------------
(* How many calls a request makes.                                          *)

\* How many calls were made and answered, a refusal for the rate not counted.
Spent ==
  IF pc = "decide" THEN tries
  ELSE IF pc \in {"factory", "classify"}
       THEN (IF Config.strategy = "factory_first" THEN 0 ELSE 1) + Len(taskSteps)
       ELSE 0

\* How many a request may make.
Allowed(r) == IF r.kind = "decide" THEN MaxSchemaRetries + 1 ELSE 1 + Len(Tasks(r))

CallsOK ==
  /\ calls \in Nat /\ limited \in 0..RateLimitRetries /\ tries \in 0..MaxSchemaRetries
  /\ pc \in Serving => /\ calls <= (RateLimitRetries + 1) * Spent + limited
                       /\ pc = "decide" <=> req.kind = "decide"
  /\ pc \in {"lookup", "buildPlan"} => taskSteps = <<>>
  /\ limited # 0 => Calls
  /\ CallsBounded

LEMMA TimesGrows ==
  ASSUME NEW k \in Nat, NEW m \in Nat, NEW n \in Nat
  PROVE  /\ k * m \in Nat /\ k * (m + 1) = k * m + k
         /\ m <= n => k * m <= k * n
<1>1. k * m \in Nat /\ k * (m + 1) = k * m + k
  OBVIOUS
<1>2. ASSUME m <= n PROVE k * m <= k * n
  <2>1. PICK d \in Nat : n = m + d
    <3>1. n - m \in Nat /\ n = m + (n - m)
      BY <1>2
    <3> QED BY <3>1
  <2>2. k * n = k * m + k * d /\ k * d \in Nat /\ k * m \in Nat
    BY <2>1
  <2> QED BY <2>2
<1> QED BY <1>1, <1>2

\* As long as a call may be made, one is left.
LEMMA OneCallIsLeft ==
  ASSUME PlanningInv, CallsOK, pc \in Serving
  PROVE  /\ Spent \in Nat /\ Allowed(req) \in Nat
         /\ Spent <= Allowed(req)
         /\ pc \in {"decide", "classify", "buildPlan"} => Spent + 1 <= Allowed(req)
<1>1. BuildingOK /\ Len(Tasks(req)) \in Nat /\ MaxSchemaRetries \in Nat
  BY TasksArePairs, PlanningAssumption DEF PlanningInv, Serving
<1>2. /\ Len(taskSteps) \in Nat /\ Len(todo) \in Nat
      /\ Len(taskSteps) + Len(todo) = Len(Tasks(req))
      /\ todo # <<>> => Len(todo) > 0
  BY <1>1 DEF BuildingOK
<1>3. CASE pc = "decide"
  BY <1>1, <1>3 DEF CallsOK, Spent, Allowed, Serving
<1>4. CASE pc # "decide"
  <2>1. req.kind # "decide" /\ Allowed(req) = 1 + Len(Tasks(req))
    BY <1>4 DEF CallsOK, Allowed
  <2>2. pc = "classify" => Len(todo) > 0
    BY <1>2 DEF PlanningInv, AsksOutcome
  <2>3. Spent \in Nat /\ Spent <= 1 + Len(taskSteps)
    BY <1>2, <1>4 DEF Spent
  <2>4. pc \in {"buildPlan", "lookup"} => Spent = 0
    BY DEF Spent
  <2> QED BY <1>1, <1>2, <1>4, <2>1, <2>2, <2>3, <2>4
<1> QED BY <1>3, <1>4

\* A call that is answered, one that is refused for the rate, and no call.
LEMMA CallsCounted ==
  ASSUME PlanningInv, CallsOK, PlanningInv', pc \in Serving, pc' \in Serving \cup {"done"},
         UNCHANGED req, tries' \in 0..MaxSchemaRetries,
         pc' \in {"lookup", "buildPlan"} => taskSteps' = <<>>,
         pc' \in Serving => (pc' = "decide" <=> pc = "decide"),
         \/ /\ calls' = calls + 1 /\ Calls /\ limited' = 0
            /\ pc' \in Serving => Spent' = Spent + 1
         \/ /\ calls' = calls + 1 /\ Calls /\ limited' = limited + 1 /\ limited < RateLimitRetries
            /\ pc' = pc /\ Spent' = Spent
         \/ /\ UNCHANGED calls /\ limited = 0 /\ limited' = 0
            /\ pc' \in Serving => Spent' \in Nat /\ Spent <= Spent'
  PROVE  CallsOK'
<1> DEFINE k == RateLimitRetries + 1
<1>0. /\ k \in Nat /\ RateLimitRetries \in Nat /\ Spent \in Nat /\ Allowed(req) \in Nat
      /\ limited \in 0..RateLimitRetries /\ limited < k /\ calls \in Nat
      /\ calls <= k * Spent + limited /\ Spent <= Allowed(req)
  BY OneCallIsLeft, PlanningAssumption DEF CallsOK
<1>1. /\ k * Spent \in Nat /\ k * (Spent + 1) = k * Spent + k
      /\ k * Spent <= k * Allowed(req) /\ k * Allowed(req) \in Nat
  <2> HIDE DEF k
  <2> QED BY <1>0, TimesGrows
<1>2. Calls => k * Spent + k <= k * Allowed(req)
  <2>1. Calls => Spent + 1 <= Allowed(req)
    BY OneCallIsLeft DEF Calls
  <2> HIDE DEF k
  <2>2. Spent + 1 \in Nat
    BY <1>0
  <2> QED BY <1>0, <1>1, <2>1, <2>2, TimesGrows
<1>3. calls' \in Nat /\ limited' \in 0..RateLimitRetries
  BY <1>0
<1>4. pc' \in Serving => calls' <= k * Spent' + limited'
  <2>1. CASE calls' = calls + 1 /\ limited' = 0 /\ (pc' \in Serving => Spent' = Spent + 1)
    <3> HIDE DEF k
    <3> QED BY <1>0, <1>1, <2>1
  <2>2. CASE calls' = calls + 1 /\ limited' = limited + 1 /\ Spent' = Spent
    <3> HIDE DEF k
    <3> QED BY <1>0, <1>1, <2>2
  <2>3. CASE /\ UNCHANGED calls /\ limited = 0 /\ limited' = 0
             /\ pc' \in Serving => Spent' \in Nat /\ Spent <= Spent'
    <3> HIDE DEF k
    <3>1. pc' \in Serving => k * Spent <= k * Spent' /\ k * Spent' \in Nat
      BY <1>0, <2>3, TimesGrows
    <3> QED BY <1>0, <1>1, <2>3, <3>1
  <2> QED BY <2>1, <2>2, <2>3
<1>5. calls' <= k * Allowed(req)
  <2> HIDE DEF k
  <2> QED BY <1>0, <1>1, <1>2
<1>6. CallsBounded'
  BY <1>5 DEF CallsBounded, Allowed
<1>7. limited' # 0 => Calls'
  BY DEF Calls, Config
<1>8. pc' \in Serving => (pc' = "decide" <=> req'.kind = "decide")
  BY DEF CallsOK
<1> QED BY <1>3, <1>4, <1>6, <1>7, <1>8 DEF CallsOK

\* How a failed call goes on: with the next step of the same kind, or not at all.
LEMMA FailsSpends ==
  ASSUME PlanningInv, CallsOK, Fails, UNCHANGED req
  PROVE  /\ pc \in Serving /\ pc' \in Serving \cup {"done"}
         /\ tries' \in 0..MaxSchemaRetries
         /\ pc' \notin {"lookup", "buildPlan"}
         /\ pc' \in Serving => (pc' = "decide" <=> pc = "decide") /\ Spent' = Spent + 1
<1>0. tries \in 0..MaxSchemaRetries /\ MaxSchemaRetries \in Nat
  BY PlanningAssumption DEF CallsOK
<1>1. CASE PlanFails
  <2>1. pc = "buildPlan" /\ UNCHANGED <<tries, taskSteps>> /\ Spent = 0 /\ taskSteps = <<>>
    BY <1>1 DEF PlanFails, building, Spent, CallsOK
  <2>2. \/ pc' = "done"
        \/ pc' = "factory" /\ Config.strategy # "factory_first"
    BY <1>1 DEF PlanFails
  <2>3. pc' = "factory" => Spent' = 1
    BY <2>1, <2>2 DEF Spent, Config
  <2> QED BY <1>0, <2>1, <2>2, <2>3 DEF Serving
<1>2. CASE ClassificationFails
  <2>1. pc = "classify" /\ UNCHANGED tries /\ pc' = "factory" /\ Len(taskSteps') = Len(taskSteps) + 1
        /\ Len(taskSteps) \in Nat
    BY <1>2 DEF ClassificationFails, Unclassified, AddStep, PlanningInv, BuildingOK
  <2>2. Spent' = Spent + 1
    BY <2>1 DEF Spent, Config
  <2> QED BY <1>0, <2>1, <2>2 DEF Serving
<1>3. CASE DecisionFails
  <2>1. /\ pc = "decide"
        /\ \/ tries < MaxSchemaRetries /\ tries' = tries + 1 /\ pc' = pc
           \/ pc' = "done" /\ UNCHANGED tries
    BY <1>3 DEF DecisionFails
  <2>2. pc' = "decide" => Spent' = Spent + 1
    BY <2>1 DEF Spent
  <2> QED BY <1>0, <2>1, <2>2 DEF Serving
<1> QED BY <1>1, <1>2, <1>3 DEF Fails

LEMMA NothingCalledIsBounded ==
  ASSUME NEW r \in Requests
  PROVE  0 <= (RateLimitRetries + 1)
                * (IF r.kind = "decide" THEN MaxSchemaRetries + 1 ELSE 1 + Len(Tasks(r)))
<1>1. Len(Tasks(r)) \in Nat /\ MaxSchemaRetries \in Nat /\ RateLimitRetries \in Nat
  BY TasksArePairs, PlanningAssumption
<1> DEFINE n == IF r.kind = "decide" THEN MaxSchemaRetries + 1 ELSE 1 + Len(Tasks(r))
<1>2. n \in Nat /\ RateLimitRetries + 1 \in Nat
  BY <1>1
<1> HIDE DEF n
<1>3. 0 <= (RateLimitRetries + 1) * n
  BY <1>2, TimesGrows
<1> QED BY <1>3 DEF n

LEMMA CallsOKStep == PlanningInv /\ CallsOK /\ [PlanningNext]_planningVars => CallsOK'
<1> SUFFICES ASSUME PlanningInv, CallsOK, [PlanningNext]_planningVars PROVE CallsOK'
  OBVIOUS
<1>0. /\ PlanningInv' /\ tries \in 0..MaxSchemaRetries
      /\ pc \in {"lookup", "factory"} => limited = 0
      /\ pc \in Serving => Spent \in Nat
      /\ calls \in Nat /\ limited \in 0..RateLimitRetries
  BY PlanningInvStep, OneCallIsLeft DEF CallsOK, Calls
<1>1. CASE RateLimited
  <2>1. pc \in {"buildPlan", "classify", "decide"} /\ Calls /\ limited < RateLimitRetries
        /\ limited' = limited + 1 /\ calls' = calls + 1 /\ UNCHANGED <<req, pc, tries, building>>
    BY <1>1 DEF RateLimited, Calls, MayCallAgain
  <2>2. Spent' = Spent
    BY <2>1 DEF Spent, Config, building
  <2>3. pc' \in {"lookup", "buildPlan"} => taskSteps' = <<>>
    BY <2>1 DEF building, CallsOK
  <2> QED BY <1>0, <2>1, <2>2, <2>3, CallsCounted DEF Serving
<1>2. CASE CallFails
  <2>1. Calls /\ Fails /\ limited' = 0 /\ calls' = calls + 1 /\ UNCHANGED req
    BY <1>2 DEF CallFails
  <2> QED BY <1>0, <2>1, FailsSpends, CallsCounted
<1>3. CASE NoKey
  <2>1. limited = 0 /\ limited' = 0 /\ UNCHANGED <<req, calls>>
    BY <1>3 DEF NoKey, CallsOK, Calls
  <2>2. CASE pc = "decide"
    <3>1. pc' = "done" /\ UNCHANGED tries
      BY <1>3, <2>2 DEF NoKey
    <3> QED BY <1>0, <2>1, <2>2, <3>1, CallsCounted DEF Serving
  <2>3. CASE Fails
    <3>1. pc' \in Serving => Spent' = Spent + 1 /\ Spent \in Nat
      BY <1>0, <2>1, <2>3, FailsSpends
    <3>2. pc' \in Serving => Spent' \in Nat /\ Spent <= Spent'
      BY <3>1
    <3> QED BY <1>0, <2>1, <2>3, <3>2, FailsSpends, CallsCounted
  <2> QED BY <1>3, <2>2, <2>3 DEF NoKey
<1>4. CASE \E raw \in PlanAnswers : PlanAnswered(raw)
  <2>1. Calls /\ limited' = 0 /\ calls' = calls + 1 /\ UNCHANGED req /\ pc = "buildPlan"
    BY <1>4 DEF PlanAnswered
  <2>2. (pc' = "done" /\ UNCHANGED tries) \/ Fails
    BY <1>4 DEF PlanAnswered, Return, Fails
  <2>3. CASE pc' = "done" /\ UNCHANGED tries
    BY <1>0, <2>1, <2>3, CallsCounted DEF Serving
  <2>4. CASE Fails
    BY <1>0, <2>1, <2>4, FailsSpends, CallsCounted
  <2> QED BY <2>2, <2>3, <2>4
<1>5. CASE FakeBuildsPlan
  <2>1. limited = 0 /\ limited' = 0 /\ UNCHANGED <<calls, req>> /\ pc = "buildPlan"
    BY <1>5 DEF FakeBuildsPlan, CallsOK, Calls
  <2>2. (pc' = "done" /\ UNCHANGED tries) \/ Fails
    BY <1>5 DEF FakeBuildsPlan, Return, Fails
  <2>3. CASE pc' = "done" /\ UNCHANGED tries
    BY <1>0, <2>1, <2>3, CallsCounted DEF Serving
  <2>4. CASE Fails
    <3>1. pc' \in Serving => Spent' = Spent + 1 /\ Spent \in Nat
      BY <1>0, <2>1, <2>4, FailsSpends
    <3>2. pc' \in Serving => Spent' \in Nat /\ Spent <= Spent'
      BY <3>1
    <3> QED BY <1>0, <2>1, <2>4, <3>2, FailsSpends, CallsCounted
  <2> QED BY <2>2, <2>3, <2>4
<1>6. CASE (\E kind \in OutcomeAnswers : Classified(kind)) \/ FakeClassifies \/ MakeTaskStep
  <2>1. pc \in {"classify", "factory"} /\ UNCHANGED <<req, tries>> /\ pc' = "factory"
    BY <1>6 DEF Classified, FakeClassifies, MakeTaskStep, AddStep
  <2>2. Len(taskSteps') = Len(taskSteps) + 1 /\ Len(taskSteps) \in Nat
    BY <1>6 DEF Classified, FakeClassifies, MakeTaskStep, AddStep, PlanningInv, BuildingOK
  <2>3. Spent' = Spent + 1 /\ Spent \in Nat
    BY <1>0, <2>1, <2>2 DEF Spent, Config, Serving
  <2>4. \/ calls' = calls + 1 /\ Calls /\ limited' = 0
        \/ UNCHANGED calls /\ limited = 0 /\ limited' = 0
    BY <1>0, <1>6 DEF Classified, FakeClassifies, MakeTaskStep, CallsOK, Calls
  <2>5. Spent' \in Nat /\ Spent <= Spent'
    BY <2>3
  <2> QED BY <1>0, <2>1, <2>3, <2>4, <2>5, CallsCounted DEF Serving
<1>7. CASE \E raw \in DecisionAnswers : Decided(raw)
  <2>1. Calls /\ limited' = 0 /\ calls' = calls + 1 /\ UNCHANGED req /\ pc = "decide"
    BY <1>7 DEF Decided
  <2>2. (pc' = "done" /\ UNCHANGED tries) \/ Fails
    BY <1>7 DEF Decided, Fails
  <2>3. CASE pc' = "done" /\ UNCHANGED tries
    BY <1>0, <2>1, <2>3, CallsCounted DEF Serving
  <2>4. CASE Fails
    BY <1>0, <2>1, <2>4, FailsSpends, CallsCounted
  <2> QED BY <2>2, <2>3, <2>4
<1>8. CASE FakeDecides \/ Reuse
  <2>1. limited = 0 /\ limited' = 0 /\ UNCHANGED <<calls, req, tries>> /\ pc \in Serving /\ pc' = "done"
    BY <1>0, <1>8 DEF FakeDecides, Reuse, CallsOK, Calls, Serving
  <2> QED BY <1>0, <2>1, CallsCounted DEF Serving
<1>9. CASE FactoryDone \/ Build \/ Resolve
  <2>1. /\ limited = 0 /\ limited' = 0 /\ UNCHANGED <<calls, req, tries, taskSteps>>
        /\ pc \in {"lookup", "factory"} /\ pc' \in {"factory", "buildPlan", "classify", "done"}
    BY <1>0, <1>9 DEF FactoryDone, Build, Resolve, Return, building
  <2>2. pc' = "buildPlan" => taskSteps = <<>>
    BY <1>9 DEF FactoryDone, Build, Resolve, Return, CallsOK
  <2>3. pc' \in Serving => Spent' \in Nat /\ Spent <= Spent'
    BY <1>0, <1>9, <2>1, <2>2 DEF FactoryDone, Build, Resolve, Return, Spent, Config, CallsOK, Serving
  <2> QED BY <1>0, <2>1, <2>2, <2>3, CallsCounted DEF Serving
<1>10. CASE \E r \in Requests : Begin(r)
  <2>1. PICK r \in Requests : Begin(r)
    BY <1>10
  <2>2. /\ calls' = 0 /\ limited' = 0 /\ tries' = 0 /\ taskSteps' = <<>> /\ req' = r
        /\ pc' = IF r.kind = "decide" THEN "decide" ELSE "lookup"
    BY <2>1 DEF Begin
  <2>3. Spent' = 0
    BY <2>2 DEF Spent
  <2>4. CallsBounded'
    BY <2>2, NothingCalledIsBounded DEF CallsBounded
  <2> QED BY <2>2, <2>3, <2>4, PlanningAssumption DEF CallsOK, Serving
<1>11. CASE \E key \in DOMAIN cache : Expire(key)
  BY <1>11 DEF Expire, CallsOK, CallsBounded, Spent, Calls, Config, building
<1>12. CASE UNCHANGED planningVars
  BY <1>12 DEF planningVars, CallsOK, CallsBounded, Spent, Calls, Config
<1> QED
  BY <1>1, <1>2, <1>3, <1>4, <1>5, <1>6, <1>7, <1>8, <1>9, <1>10, <1>11, <1>12
  DEF PlanningNext, Serve

LEMMA CallsOKInitially == PlanningInit => CallsOK
<1> SUFFICES ASSUME PlanningInit PROVE CallsOK
  OBVIOUS
<1>1. req \in Requests
  BY PlanningAssumption DEF PlanningInit
<1>2. CallsBounded
  BY <1>1, NothingCalledIsBounded DEF PlanningInit, CallsBounded
<1> QED BY <1>2, PlanningAssumption DEF PlanningInit, CallsOK, Serving

\* Retries of retries end: a request makes as many calls as both limits allow (CallsBounded).
THEOREM CallsAreBounded == PlanningSpec => []CallsBounded
<1>1. CallsOK => CallsBounded
  BY DEF CallsOK
<1> QED
  BY <1>1, PlanningInvInitially, PlanningInvStep, CallsOKInitially, CallsOKStep, PTL
  DEF PlanningSpec

---------------------------------------------------------------------------
(* Correlation: the scores of a criterion.                                  *)

\* A sequence of candidates with a score each.
Scored(s) == s \in Seq(Range(s)) /\ \A i \in DOMAIN s : s[i].score \in Nat

LEMMA OverlapIsANumber ==
  ASSUME NEW left, IsFiniteSet(left), NEW right
  PROVE  Overlap(left, right) \in Nat
<1>1. Cardinality(left) \in Nat /\ (left # {} => Cardinality(left) # 0)
  BY FS_CardinalityType, FS_EmptySet
<1>2. Cardinality(left \cap right) \in Nat
  <2>1. left \cap right \in SUBSET left
    OBVIOUS
  <2>2. IsFiniteSet(left \cap right)
    BY <2>1, FS_Subset
  <2> QED BY <2>2, FS_CardinalityType
<1>3. \A a, b \in Nat : b # 0 => (Scale * a) \div b \in Nat
  <2> TAKE a, b \in Nat
  <2>1. Scale * a \in Nat
    <3>1. Scale \in Nat
      BY CorrelationAssumption
    <3>2. \A x \in Nat : x * a \in Nat
      OBVIOUS
    <3> QED BY <3>1, <3>2
  <2>2. \A x \in Nat : b # 0 => x \div b \in Nat
    OBVIOUS
  <2> QED BY <2>1, <2>2
<1> QED BY <1>1, <1>2, <1>3 DEF Overlap

LEMMA FunctionsAreScored ==
  ASSUME NEW n \in Nat, NEW s, s = [i \in 1 .. n |-> s[i]], \A i \in 1 .. n : s[i].score \in Nat
  PROVE  Scored(s)
<1>1. \A i \in 1 .. n : s[i] \in Range(s)
  BY DEF Range
<1>2. s \in Seq(Range(s))
  BY <1>1
<1> QED BY <1>2 DEF Scored

LEMMA JoinedAreScored ==
  ASSUME NEW s, Scored(s), NEW t, Scored(t)
  PROVE  Scored(s \o t)
<1> DEFINE E == Range(s) \cup Range(t)
<1>1. s \in Seq(E) /\ t \in Seq(E)
  BY DEF Scored
<1>2. PICK st : st = s \o t
  OBVIOUS
<1>7. Len(s) \in Nat /\ Len(t) \in Nat /\ DOMAIN s = 1 .. Len(s) /\ DOMAIN t = 1 .. Len(t)
  BY <1>1
<1>8. /\ st \in Seq(E) /\ Len(st) = Len(s) + Len(t)
      /\ \A i \in 1 .. Len(s) + Len(t) : st[i] = IF i <= Len(s) THEN s[i] ELSE t[i - Len(s)]
  BY <1>1, <1>2, ConcatProperties
<1>3. /\ Len(s) \in Nat /\ Len(t) \in Nat /\ DOMAIN s = 1 .. Len(s) /\ DOMAIN t = 1 .. Len(t)
      /\ st = [i \in 1 .. Len(s) + Len(t) |-> st[i]]
      /\ \A i \in 1 .. Len(s) + Len(t) : st[i] = IF i <= Len(s) THEN s[i] ELSE t[i - Len(s)]
  BY <1>7, <1>8
<1>4. \A i \in 1 .. Len(s) + Len(t) : st[i].score \in Nat
  <2> TAKE i \in 1 .. Len(s) + Len(t)
  <2>1. CASE i <= Len(s)
    <3>1. i \in DOMAIN s /\ st[i] = s[i]
      BY <1>3, <2>1
    <3> QED BY <3>1 DEF Scored
  <2>2. CASE ~(i <= Len(s))
    <3>1. i - Len(s) \in DOMAIN t /\ st[i] = t[i - Len(s)]
      BY <1>3, <2>2
    <3> QED BY <3>1 DEF Scored
  <2> QED BY <2>1, <2>2
<1>5. Len(s) + Len(t) \in Nat /\ st = [i \in 1 .. Len(s) + Len(t) |-> st[i]]
  BY <1>3
<1>6. Scored(st)
  BY <1>4, <1>5, FunctionsAreScored
<1> QED BY <1>2, <1>6

LEMMA FirstBestIsScored ==
  ASSUME NEW candidates, Scored(candidates)
  PROVE  FirstBest(candidates).score \in Nat
<1>1. /\ Len(candidates) \in Nat /\ DOMAIN candidates = 1 .. Len(candidates)
      /\ \A i \in 1 .. Len(candidates) : candidates[i].score \in Nat
  BY DEF Scored
<1> DEFINE g == [i \in 1 .. Len(candidates) |-> candidates[i].score]
<1>2. {0} \cup {c.score : c \in Range(candidates)} = {0} \cup {g[i] : i \in 1 .. Len(candidates)}
  BY <1>1 DEF Range
<1>3. g \in [1 .. Len(candidates) -> Nat]
  BY <1>1
<1>9. IsFiniteSet(1 .. Len(candidates))
  BY <1>1, FS_Interval
<1>4. \A i \in 1 .. Len(candidates) : g[i] = candidates[i].score
  OBVIOUS
<1> HIDE DEF g
<1>5. PICK best : best = Max({0} \cup {g[i] : i \in 1 .. Len(candidates)})
  OBVIOUS
<1>6. best \in {0} \cup {g[i] : i \in 1 .. Len(candidates)}
  BY <1>3, <1>5, <1>9, LargestValue
<1> DEFINE I == {i \in 1 .. Len(candidates) : candidates[i].score = best}
           k == IF I # {} THEN Min(I) ELSE 0
<1>7. FirstBest(candidates) = IF best = 0 THEN [score |-> 0, file |-> 0] ELSE candidates[k]
  BY <1>2, <1>5 DEF FirstBest, SelectInSeq
<1>8. ASSUME best # 0 PROVE candidates[k].score \in Nat
  <2>1. I # {} /\ I \in SUBSET Nat
    BY <1>4, <1>6, <1>8
  <2>2. \A i \in I : candidates[i].score \in Nat
    BY <1>1
  <2> HIDE DEF I
  <2>3. k \in I
    BY <2>1, MinIsThere
  <2> HIDE DEF k
  <2> QED BY <2>2, <2>3
<1> HIDE DEF k
<1> QED BY <1>7, <1>8

\* A part of a sequence has places of its own.
LEMMA PartsHavePlaces ==
  ASSUME NEW m \in Nat, NEW s, NEW places \in SUBSET (1 .. m)
  PROVE  \E c \in Nat : DOMAIN Those(s, places) = 1 .. c
<1>1. Cardinality(places) \in Nat /\ DOMAIN Those(s, places) = 1 .. Cardinality(places)
  BY PlacesOfThose DEF ArePlaces
<1> QED BY <1>1

LEMMA FilesOfKindHavePlaces ==
  ASSUME NEW files, files \in Seq(Range(files)), NEW kind
  PROVE  \E c \in Nat : DOMAIN FilesOfKind(files, kind) = 1 .. c
<1> DEFINE places == {i \in DOMAIN files : Kind(files[i].path) = kind}
<1>1. Len(files) \in Nat /\ places \in SUBSET (1 .. Len(files))
  OBVIOUS
<1>2. FilesOfKind(files, kind) = Those(files, places)
  BY DEF FilesOfKind
<1> HIDE DEF places
<1> QED BY <1>1, <1>2, PartsHavePlaces

LEMMA DistinctHavePlaces ==
  ASSUME NEW m \in Nat, NEW s, DOMAIN s = 1 .. m
  PROVE  \E c \in Nat : DOMAIN Distinct(s) = 1 .. c
<1> DEFINE places == {i \in DOMAIN s : \A k \in 1 .. i - 1 : s[k] # s[i]}
<1>1. places \in SUBSET (1 .. m)
  OBVIOUS
<1>2. Distinct(s) = Those(s, places)
  BY DEF Distinct
<1> HIDE DEF places
<1>3. \E c \in Nat : DOMAIN Those(s, places) = 1 .. c
  BY <1>1, PartsHavePlaces
<1> QED BY <1>2, <1>3

LEMMA RoutesAndSchemasHavePlaces ==
  ASSUME NEW files, files \in Seq(Range(files))
  PROVE  /\ \E c \in Nat : DOMAIN Routes(files) = 1 .. c
         /\ \E c \in Nat : DOMAIN Schemas(files) = 1 .. c
<1>1. PICK c \in Nat : DOMAIN FilesOfKind(files, "route") = 1 .. c
  BY FilesOfKindHavePlaces
<1>2. PICK d \in Nat : DOMAIN FilesOfKind(files, "schema") = 1 .. d
  BY FilesOfKindHavePlaces
<1>3. PICK s : s = [i \in DOMAIN FilesOfKind(files, "route") |-> Route(FilesOfKind(files, "route")[i].path)]
  OBVIOUS
<1>4. PICK t : t = [i \in DOMAIN FilesOfKind(files, "schema") |-> SchemaId(FilesOfKind(files, "schema")[i].path)]
  OBVIOUS
<1>5. Routes(files) = Distinct(s) /\ DOMAIN s = 1 .. c
  BY <1>1, <1>3 DEF Routes
<1>6. Schemas(files) = Distinct(t) /\ DOMAIN t = 1 .. d
  BY <1>2, <1>4 DEF Schemas
<1> QED BY <1>5, <1>6, DistinctHavePlaces

LEMMA CandidatesAreScored ==
  ASSUME NEW files, files \in Seq(Range(files)), NEW words, IsFiniteSet(words)
  PROVE  Scored(Candidates(words, files))
<1>1. Len(files) \in Nat /\ DOMAIN files = 1 .. Len(files)
  OBVIOUS
<1>2. PICK c \in Nat : DOMAIN Routes(files) = 1 .. c
  BY RoutesAndSchemasHavePlaces
<1>3. PICK d \in Nat : DOMAIN Schemas(files) = 1 .. d
  BY RoutesAndSchemasHavePlaces
<1>4. PICK ofFiles : ofFiles = [i \in 1 .. Len(files) |-> ScoreOfFile(words, files[i])]
  OBVIOUS
<1>5. PICK ofRoutes : ofRoutes = [i \in 1 .. c |-> ScoreOfRoute(words, files, Routes(files)[i])]
  OBVIOUS
<1>6. PICK ofSchemas : ofSchemas = [i \in 1 .. d |-> ScoreOfSchema(words, files, Schemas(files)[i])]
  OBVIOUS
<1>7. Candidates(words, files) = ofFiles \o ofRoutes \o ofSchemas
  BY <1>1, <1>2, <1>3, <1>4, <1>5, <1>6 DEF Candidates
<1>8. Scored(ofFiles)
  <2>1. \A i \in 1 .. Len(files) : ofFiles[i].score \in Nat
    BY <1>4, OverlapIsANumber DEF ScoreOfFile
  <2>2. ofFiles = [i \in 1 .. Len(files) |-> ofFiles[i]]
    BY <1>4
  <2> QED BY <1>1, <2>1, <2>2, FunctionsAreScored
<1>9. Scored(ofRoutes)
  <2>1. \A i \in 1 .. c : ofRoutes[i].score \in Nat
    BY <1>5, OverlapIsANumber DEF ScoreOfRoute
  <2>2. ofRoutes = [i \in 1 .. c |-> ofRoutes[i]]
    BY <1>5
  <2> QED BY <2>1, <2>2, FunctionsAreScored
<1>10. Scored(ofSchemas)
  <2>1. \A i \in 1 .. d : ofSchemas[i].score \in Nat
    BY <1>6, OverlapIsANumber DEF ScoreOfSchema
  <2>2. ofSchemas = [i \in 1 .. d |-> ofSchemas[i]]
    BY <1>6
  <2> QED BY <2>1, <2>2, FunctionsAreScored
<1>11. Scored(ofFiles \o ofRoutes)
  BY <1>8, <1>9, JoinedAreScored
<1>12. Scored(ofFiles \o ofRoutes \o ofSchemas)
  BY <1>10, <1>11, JoinedAreScored
<1> QED BY <1>7, <1>12

---------------------------------------------------------------------------
(* What the memory adds.                                                    *)

LEMMA BoostIsANumber ==
  ASSUME NEW chunk, chunk.relevance \in Nat, NEW files
  PROVE  Boost(chunk, files) \in Nat
<1>1. Scale \in Nat
  BY CorrelationAssumption
<1>2. \A r, n \in Nat : /\ (7 * n) \div 20 \in Nat /\ (r + n) \div 10 \in Nat
                        /\ n \div 4 \in Nat /\ (r \div 10) + (n \div 20) \in Nat
  OBVIOUS
<1> QED BY <1>1, <1>2 DEF Boost, Lesser

\* The chunk that counts for a criterion is one of those that were found.
LEMMA BoostsAreFound ==
  ASSUME NEW files, NEW words, NEW found \in Searches
  PROVE  \/ Boosts(words, files, found) = <<>>
         \/ \E chunk \in Range(found) : Boosts(words, files, found) = <<chunk>>
<1>1. found \in Seq(Range(found)) /\ \A chunk \in Range(found) : chunk.relevance \in Nat
  BY CorrelationAssumption
<1> DEFINE kinds == {i \in DOMAIN found : found[i].type \in {"route", "flow", "scenario"}}
<1>2. PICK chunks : chunks = Those(found, kinds)
  OBVIOUS
<1>3. CorrelationChunks(found) = chunks /\ kinds \in SUBSET DOMAIN found
  BY <1>2 DEF CorrelationChunks
<1> HIDE DEF kinds
<1>4. chunks \in Seq(Range(found))
  BY <1>1, <1>2, <1>3, ThoseAreThere
<1> DEFINE on == {i \in DOMAIN chunks : Overlap(words, chunks[i].title \cup chunks[i].content) > 0}
<1>5. PICK hits : hits = Those(chunks, on)
  OBVIOUS
<1>6. on \in SUBSET DOMAIN chunks
  OBVIOUS
<1> DEFINE better(c, d) == \/ Boost(c, files) > Boost(d, files)
                           \/ Boost(c, files) = Boost(d, files) /\ c.relevance > d.relevance
           I == {i \in 1 .. Len(hits) : ~\E d \in Range(hits) : better(d, hits[i])}
           k == IF I # {} THEN Min(I) ELSE 0
<1>7. Boosts(words, files, found) = IF hits = <<>> THEN <<>> ELSE << hits[k] >>
  BY <1>3, <1>5 DEF Boosts, SelectInSeq
<1> HIDE DEF on
<1>8. hits \in Seq(Range(found))
  BY <1>4, <1>5, <1>6, ThoseAreThere
<1>9. /\ Len(hits) \in Nat /\ DOMAIN hits = 1 .. Len(hits)
      /\ \A i \in 1 .. Len(hits) : hits[i] \in Range(found)
  BY <1>8
<1> SUFFICES ASSUME hits # <<>> PROVE hits[k] \in Range(found)
  BY <1>7
<1>10. Len(hits) # 0
  BY <1>8
<1>11. PICK b \in [1 .. Len(hits) -> Nat] : \A i \in 1 .. Len(hits) : b[i] = Boost(hits[i], files)
  <2> DEFINE f == [i \in 1 .. Len(hits) |-> Boost(hits[i], files)]
  <2>1. f \in [1 .. Len(hits) -> Nat]
    BY <1>1, <1>9, BoostIsANumber
  <2> QED BY <2>1
<1>12. PICK r \in [1 .. Len(hits) -> Nat] : \A i \in 1 .. Len(hits) : r[i] = hits[i].relevance
  <2> DEFINE f == [i \in 1 .. Len(hits) |-> hits[i].relevance]
  <2>1. f \in [1 .. Len(hits) -> Nat]
    BY <1>1, <1>9
  <2> QED BY <2>1
<1>13. PICK i \in 1 .. Len(hits) : \A j \in 1 .. Len(hits) : b[j] <= b[i]
  <2>1. PICK all : all = 1 .. Len(hits)
    OBVIOUS
  <2>2. all \in SUBSET (1 .. Len(hits)) /\ all # {}
    BY <1>9, <1>10, <2>1
  <2>3. \E i \in all : \A j \in all : b[j] <= b[i]
    BY <1>9, <2>2, OneIsLargest
  <2> QED BY <2>1, <2>3
<1> DEFINE best == {j \in 1 .. Len(hits) : b[j] = b[i]}
<1>14. PICK j \in best : \A l \in best : r[l] <= r[j]
  <2>1. best \in SUBSET (1 .. Len(hits)) /\ best # {}
    OBVIOUS
  <2> HIDE DEF best
  <2> QED BY <1>9, <2>1, OneIsLargest
<1>15. j \in I
  <2>1. \A l \in 1 .. Len(hits) : ~better(hits[l], hits[j])
    <3> TAKE l \in 1 .. Len(hits)
    <3>1. /\ b[l] \in Nat /\ b[j] \in Nat /\ r[l] \in Nat /\ r[j] \in Nat
          /\ b[l] <= b[j] /\ (b[l] = b[j] => r[l] <= r[j])
      BY <1>13, <1>14
    <3>2. ~(b[l] > b[j] \/ (b[l] = b[j] /\ r[l] > r[j]))
      BY <3>1
    <3> QED BY <1>11, <1>12, <1>14, <3>2
  <2> QED BY <1>9, <1>14, <2>1 DEF Range
<1>16. I \in SUBSET Nat /\ I # {} /\ I \subseteq 1 .. Len(hits)
  BY <1>15
<1> HIDE DEF I
<1>17. k \in I
  BY <1>16, MinIsThere
<1> HIDE DEF k
<1> QED BY <1>9, <1>16, <1>17

\* What a criterion comes to.
LEMMA CorrelatedIsScored ==
  ASSUME NEW files, files \in Seq(Range(files)), NEW criterion, IsFiniteSet(criterion.words),
         NEW found \in Searches
  PROVE  /\ Correlate(criterion, files, found).score \in Nat
         /\ Correlate(criterion, files, found).criterion = criterion.name
         /\ Correlate(criterion, files, found).chunk # "" =>
              \E chunk \in Range(found) : Correlate(criterion, files, found).chunk = chunk.id
<1>1. PICK best : best = FirstBest(Candidates(criterion.words, files))
  OBVIOUS
<1>2. PICK boosts : boosts = Boosts(criterion.words, files, found)
  OBVIOUS
<1>3. best.score \in Nat
  BY <1>1, CandidatesAreScored, FirstBestIsScored
<1>4. boosts = <<>> \/ \E chunk \in Range(found) : boosts = <<chunk>>
  BY <1>2, BoostsAreFound
<1>5. \A chunk : <<chunk>> # <<>> /\ <<chunk>>[1] = chunk
  OBVIOUS
<1>6. boosts # <<>> => boosts[1] \in Range(found) /\ Boost(boosts[1], files) \in Nat
  <2> HAVE boosts # <<>>
  <2>1. boosts[1] \in Range(found)
    BY <1>4, <1>5
  <2>2. boosts[1].relevance \in Nat
    BY <2>1, CorrelationAssumption
  <2> QED BY <2>1, <2>2, BoostIsANumber
<1>7. /\ Correlate(criterion, files, found).criterion = criterion.name
      /\ Correlate(criterion, files, found).chunk = IF boosts = <<>> THEN "" ELSE boosts[1].id
      /\ Correlate(criterion, files, found).score =
            IF boosts = <<>> THEN best.score ELSE Lesser(Scale, best.score + Boost(boosts[1], files))
  BY <1>1, <1>2 DEF Correlate
<1>8. Correlate(criterion, files, found).score \in Nat
  <2>1. Scale \in Nat
    BY CorrelationAssumption
  <2>2. boosts # <<>> => Lesser(Scale, best.score + Boost(boosts[1], files)) \in Nat
    BY <1>3, <1>6, <2>1 DEF Lesser
  <2> QED BY <1>3, <1>7, <2>2
<1> QED BY <1>6, <1>7, <1>8

LEMMA ConsumedAreToldApart ==
  ASSUME NEW demand \in Demands, NEW criteria, criteria = Consume(demand)
  PROVE  /\ criteria \in Seq(Range(demand))
         /\ \A i, k \in DOMAIN criteria : criteria[i].name = criteria[k].name => i = k
<1>1. /\ demand \in Seq(Range(demand))
      /\ \A c, d \in Range(demand) : c.name = d.name => c = d
  BY CorrelationAssumption
<1> DEFINE given == {i \in DOMAIN demand : demand[i].name # Blank}
<1>2. PICK kept : kept = Those(demand, given)
  OBVIOUS
<1>3. given \in SUBSET DOMAIN demand /\ criteria = Distinct(kept)
  BY <1>2 DEF Consume
<1> HIDE DEF given
<1>4. kept \in Seq(Range(demand))
  BY <1>1, <1>2, <1>3, ThoseAreThere
<1> DEFINE firsts == {i \in DOMAIN kept : \A k \in 1 .. i - 1 : kept[k] # kept[i]}
<1>5. criteria = Those(kept, firsts)
  BY <1>3 DEF Distinct
<1>6. Len(kept) \in Nat /\ DOMAIN kept = 1 .. Len(kept) /\ firsts \in SUBSET DOMAIN kept
  BY <1>4
<1>7. \A i, k \in firsts : kept[i] = kept[k] => i = k
  <2> TAKE i, k \in firsts
  <2> HAVE kept[i] = kept[k]
  <2>1. i \in Nat /\ k \in Nat /\ i >= 1 /\ k >= 1
    BY <1>6
  <2>2. ~(i < k) /\ ~(k < i)
    <3>1. i < k => i \in 1 .. k - 1
      BY <2>1
    <3>2. k < i => k \in 1 .. i - 1
      BY <2>1
    <3> QED BY <3>1, <3>2
  <2> QED BY <2>1, <2>2
<1> HIDE DEF firsts
<1>8. criteria \in Seq(Range(demand))
  BY <1>4, <1>5, <1>6, ThoseAreThere
<1>9. /\ DOMAIN criteria = 1 .. Cardinality(firsts)
      /\ \A n \in 1 .. Cardinality(firsts) :
           Nth(firsts, n) \in firsts /\ criteria[n] = kept[Nth(firsts, n)]
      /\ \A n, k \in 1 .. Cardinality(firsts) : Nth(firsts, n) = Nth(firsts, k) => n = k
  <2>1. PICK m : m = Len(kept)
    OBVIOUS
  <2>2. m \in Nat /\ firsts \in SUBSET (1 .. m)
    BY <1>6, <2>1
  <2>3. ArePlaces(Those(kept, firsts), kept, firsts)
    BY <2>2, PlacesOfThose
  <2>4. ArePlaces(criteria, kept, firsts)
    BY <1>5, <2>3
  <2> QED BY <2>4 DEF ArePlaces
<1>10. \A i \in DOMAIN criteria : criteria[i] \in Range(demand)
  BY <1>8
<1> QED BY <1>1, <1>7, <1>8, <1>9, <1>10

\* Matches of criteria that are told apart, each with a score.
MatchesOK(matches) ==
  /\ Len(matches) \in Nat /\ DOMAIN matches = 1 .. Len(matches)
  /\ \A i \in DOMAIN matches : matches[i].score \in Nat /\ matches[i].criterion # ""
  /\ \A i, k \in DOMAIN matches : matches[i].criterion = matches[k].criterion => i = k

LEMMA ThresholdIsANumber == Threshold \in Nat
<1>1. Scale \in Nat
  BY CorrelationAssumption
<1>2. \A n \in Nat : (3 * n) \div 20 \in Nat
  OBVIOUS
<1> QED BY <1>1, <1>2 DEF Threshold

\* Functions on the first numbers are sequences of as many.
LEMMA LengthOfFunction ==
  ASSUME NEW n \in Nat, NEW s, s = [i \in 1 .. n |-> s[i]]
  PROVE  s \in Seq(Range(s)) /\ Len(s) = n /\ DOMAIN s = 1 .. n
<1>1. \A i \in 1 .. n : s[i] \in Range(s)
  BY DEF Range
<1>2. s \in Seq(Range(s))
  BY <1>1
<1>3. DOMAIN s = 1 .. n
  OBVIOUS
<1>4. Len(s) = n
  BY <1>2, <1>3
<1> QED BY <1>2, <1>3, <1>4

Good(matches) == {i \in DOMAIN matches : matches[i].score >= Threshold}

\* Every match that is good enough has a place of its own in the ranking, and a
\* better one comes before it.
IsRanking(p, matches) ==
  /\ p \in [Good(matches) -> 1 .. Cardinality(Good(matches))]
  /\ \A i \in Good(matches) : Ranked(matches)[p[i]] = matches[i]
  /\ \A n \in 1 .. Cardinality(Good(matches)) : \E i \in Good(matches) : p[i] = n
  /\ \A i, j \in Good(matches) : matches[i].score > matches[j].score => p[i] < p[j]

LEMMA RankedAreRanked ==
  ASSUME NEW matches, MatchesOK(matches)
  PROVE  /\ Cardinality(Good(matches)) \in Nat
         /\ Len(Ranked(matches)) = Cardinality(Good(matches))
         /\ \E p : IsRanking(p, matches)
<1>1. PICK good : good = Good(matches)
  OBVIOUS
<1>2. /\ Len(matches) \in Nat /\ good \in SUBSET (1 .. Len(matches))
      /\ \A i \in good : matches[i].score \in Nat
  BY <1>1 DEF MatchesOK, Good
<1>3. PICK f : f = [i \in good |-> matches[i].score]
  OBVIOUS
<1>4. PICK B : B = [i \in good |-> {j \in good : f[j] > f[i] \/ (f[j] = f[i] /\ j <= i)}]
  OBVIOUS
<1>5. PICK p : p = [i \in good |-> Cardinality(B[i])]
  OBVIOUS
<1>6. f \in [good -> Nat]
  BY <1>2, <1>3
<1>18. Placed(p, good, f)
  <2>1. PICK m : m = Len(matches)
    OBVIOUS
  <2>2. m \in Nat /\ good \in SUBSET (1 .. m)
    BY <1>2, <2>1
  <2> QED BY <1>4, <1>5, <1>6, <2>2, PlacesInARanking
<1>7. /\ Cardinality(good) \in Nat
      /\ \A i \in good : p[i] \in 1 .. Cardinality(good)
      /\ \A n \in 1 .. Cardinality(good) : \E i \in good : p[i] = n
      /\ \A i, j \in good : p[i] = p[j] => i = j
      /\ \A i, j \in good : f[i] > f[j] => p[i] < p[j]
  BY <1>18 DEF Placed
<1> DEFINE place(i) == Cardinality({j \in good : matches[j].score > matches[i].score
                                                   \/ (matches[j].score = matches[i].score /\ j <= i)})
<1>8. Ranked(matches) = [n \in 1 .. Cardinality(good) |-> matches[CHOOSE i \in good : place(i) = n]]
  BY <1>1 DEF Ranked, Good
<1>9. \A i \in good : p[i] = place(i)
  <2> TAKE i \in good
  <2>1. {j \in good : matches[j].score > matches[i].score
                        \/ (matches[j].score = matches[i].score /\ j <= i)} = B[i]
    BY <1>3, <1>4
  <2> QED BY <1>5, <2>1
<1> HIDE DEF place
<1>10. \A i \in good : (CHOOSE k \in good : place(k) = p[i]) = i
  <2> TAKE i \in good
  <2>1. \E k \in good : place(k) = p[i]
    BY <1>9
  <2>2. PICK k : k = CHOOSE x \in good : place(x) = p[i]
    OBVIOUS
  <2>3. k \in good /\ place(k) = p[i]
    BY <2>1, <2>2
  <2> QED BY <1>7, <1>9, <2>2, <2>3
<1>11. \A i \in good : Ranked(matches)[p[i]] = matches[i]
  <2> TAKE i \in good
  <2>1. Ranked(matches)[p[i]] = matches[CHOOSE k \in good : place(k) = p[i]]
    BY <1>7, <1>8
  <2> QED BY <1>10, <2>1
<1>12. PICK ranked : ranked = Ranked(matches)
  OBVIOUS
<1>13. ranked = [n \in 1 .. Cardinality(good) |-> ranked[n]]
  BY <1>8, <1>12
<1>14. Len(ranked) = Cardinality(good)
  BY <1>7, <1>13, LengthOfFunction
<1>15. p \in [good -> 1 .. Cardinality(good)]
  BY <1>5, <1>7
<1>16. \A i, j \in good : matches[i].score > matches[j].score => p[i] < p[j]
  BY <1>3, <1>7
<1>17. IsRanking(p, matches)
  BY <1>1, <1>7, <1>11, <1>15, <1>16 DEF IsRanking
<1> QED BY <1>1, <1>7, <1>12, <1>14, <1>17

\* As many as may be are planned, the best.
LEMMA TheBestArePlanned ==
  ASSUME NEW matches, MatchesOK(matches), NEW risks, NEW planned, planned = Planned(matches, risks),
         NEW p, IsRanking(p, matches)
  PROVE  /\ Len(planned) = Lesser(Cardinality(Good(matches)), MaxScenarios)
         /\ \A s \in Range(planned) : \E i \in Good(matches) :
              p[i] <= Len(planned) /\ s.criterion = matches[i].criterion
         /\ \A i \in Good(matches) : p[i] <= Len(planned) =>
              \E s \in Range(planned) : s.criterion = matches[i].criterion
<1>1. PICK good : good = Good(matches)
  OBVIOUS
<1>2. PICK ranked : ranked = Ranked(matches)
  OBVIOUS
<1>3. PICK c : c = Cardinality(good)
  OBVIOUS
<1>4. c \in Nat /\ Len(ranked) = c
  BY <1>1, <1>2, <1>3, RankedAreRanked
<1>5. MaxScenarios \in Nat
  BY CorrelationAssumption
<1>6. PICK n : n = Lesser(c, MaxScenarios)
  OBVIOUS
<1>7. n \in Nat /\ n <= c
  BY <1>4, <1>5, <1>6 DEF Lesser
<1>8. planned = [i \in 1 .. n |->
            [criterion |-> ranked[i].criterion, route |-> <<>>, files |-> ranked[i].related,
             risk |-> ScenarioRisk(ranked[i], risks)]]
  BY <1>2, <1>4, <1>6 DEF Planned
<1>9. planned = [i \in 1 .. n |-> planned[i]] /\ \A i \in 1 .. n : planned[i].criterion = ranked[i].criterion
  BY <1>8
<1>10. Len(planned) = n /\ DOMAIN planned = 1 .. n
  BY <1>7, <1>9, LengthOfFunction
<1>11. \A s \in Range(planned) : \E i \in good : p[i] <= n /\ s.criterion = matches[i].criterion
  <2> TAKE s \in Range(planned)
  <2>1. PICK k \in 1 .. n : s = planned[k]
    BY <1>10 DEF Range
  <2>2. k \in 1 .. c /\ k <= n
    BY <1>4, <1>7
  <2>3. PICK i \in good : p[i] = k
    BY <1>1, <1>3, <2>2 DEF IsRanking
  <2>4. ranked[k] = matches[i]
    BY <1>1, <1>2, <2>3 DEF IsRanking
  <2> QED BY <1>9, <2>1, <2>2, <2>3, <2>4
<1>12. \A i \in good : p[i] <= n => \E s \in Range(planned) : s.criterion = matches[i].criterion
  <2> TAKE i \in good
  <2> HAVE p[i] <= n
  <2>1. p[i] \in 1 .. c
    BY <1>1, <1>3 DEF IsRanking
  <2>2. p[i] \in 1 .. n
    BY <1>4, <1>7, <2>1
  <2>3. ranked[p[i]] = matches[i]
    BY <1>1, <1>2 DEF IsRanking
  <2>4. planned[p[i]] \in Range(planned) /\ planned[p[i]].criterion = matches[i].criterion
    BY <1>9, <1>10, <2>2, <2>3 DEF Range
  <2> QED BY <2>4
<1> QED BY <1>1, <1>3, <1>6, <1>10, <1>11, <1>12

---------------------------------------------------------------------------
(* What a correlation comes to.                                             *)

PlannedIn(conclusion) == {s.criterion : s \in Range(conclusion.planned)} \ {""}
UncoveredIn(conclusion) == {r.criterion : r \in {x \in conclusion.risks : x.type = "uncovered_criterion"}}
ScoreIn(matches, name) == (CHOOSE m \in Range(matches) : m.criterion = name).score

\* CriteriaAccountedFor, of a result.
Accounts(conclusion, names) ==
  /\ PlannedIn(conclusion) \cap UncoveredIn(conclusion) = {}
  /\ names \ (PlannedIn(conclusion) \cup UncoveredIn(conclusion)) # {} => "cap" \in conclusion.warnings
  /\ \A a \in names \ (PlannedIn(conclusion) \cup UncoveredIn(conclusion)), b \in PlannedIn(conclusion) :
        ScoreIn(conclusion.matches, a) <= ScoreIn(conclusion.matches, b)
  /\ UncoveredIn(conclusion) # {} => "below threshold" \in conclusion.warnings

LEMMA ScoreOfMatch ==
  ASSUME NEW matches, MatchesOK(matches), NEW i \in DOMAIN matches
  PROVE  ScoreIn(matches, matches[i].criterion) = matches[i].score
<1>1. matches[i] \in Range(matches)
  BY DEF Range
<1>2. PICK m : m = CHOOSE x \in Range(matches) : x.criterion = matches[i].criterion
  OBVIOUS
<1>3. m \in Range(matches) /\ m.criterion = matches[i].criterion
  BY <1>1, <1>2
<1>4. PICK k \in DOMAIN matches : m = matches[k]
  BY <1>3 DEF Range
<1>5. k = i
  BY <1>3, <1>4 DEF MatchesOK
<1> QED BY <1>2, <1>4, <1>5 DEF ScoreIn

LEMMA UncoveredAreTheRest ==
  ASSUME NEW matches, MatchesOK(matches), NEW name
  PROVE  name \in {r.criterion : r \in Uncovered(matches)} <=>
            \E i \in DOMAIN matches : i \notin Good(matches) /\ name = matches[i].criterion
<1>1. \A i \in DOMAIN matches : matches[i].score < Threshold <=> i \notin Good(matches)
  <2> TAKE i \in DOMAIN matches
  <2>1. matches[i].score \in Nat /\ Threshold \in Nat
    BY ThresholdIsANumber DEF MatchesOK
  <2>2. matches[i].score < Threshold <=> ~(matches[i].score >= Threshold)
    BY <2>1
  <2> QED BY <2>2 DEF Good
<1>2. Uncovered(matches) = {RiskItem("uncovered_criterion", "HIGH", 0, m.criterion) :
                              m \in {n \in Range(matches) : n.score < Threshold}}
  BY DEF Uncovered
<1>3. \A criterion : RiskItem("uncovered_criterion", "HIGH", 0, criterion).criterion = criterion
  BY DEF RiskItem
<1>4. name \in {r.criterion : r \in Uncovered(matches)} <=>
        \E m \in Range(matches) : m.score < Threshold /\ name = m.criterion
  BY <1>2, <1>3
<1> QED BY <1>1, <1>4 DEF Range

\* A result tells of its matches which are not good enough.
TellsUncovered(conclusion, matches) ==
  /\ conclusion.matches = matches
  /\ UncoveredIn(conclusion) = {r.criterion : r \in Uncovered(matches)}
  /\ Uncovered(matches) # {} => "below threshold" \in conclusion.warnings

NamesIn(matches) == {matches[i].criterion : i \in DOMAIN matches}

LEMMA UncoveredAreTold ==
  ASSUME NEW matches, MatchesOK(matches), NEW conclusion, TellsUncovered(conclusion, matches)
  PROVE  /\ \A name : name \in UncoveredIn(conclusion) <=>
               \E i \in DOMAIN matches : i \notin Good(matches) /\ name = matches[i].criterion
         /\ UncoveredIn(conclusion) # {} => "below threshold" \in conclusion.warnings
<1>1. UncoveredIn(conclusion) = {r.criterion : r \in Uncovered(matches)}
  BY DEF TellsUncovered
<1>2. UncoveredIn(conclusion) # {} => "below threshold" \in conclusion.warnings
  BY DEF TellsUncovered
<1> QED BY <1>1, <1>2, UncoveredAreTheRest

\* And announces when it plans as many as may be.
AnnouncesCap(conclusion) == Len(conclusion.planned) = MaxScenarios => "cap" \in conclusion.warnings

LEMMA PlannedAccounts ==
  ASSUME NEW matches, MatchesOK(matches), NEW risks, NEW conclusion,
         conclusion.planned = Planned(matches, risks), TellsUncovered(conclusion, matches), AnnouncesCap(conclusion)
  PROVE  Accounts(conclusion, NamesIn(matches))
<1>1. PICK p : IsRanking(p, matches)
  BY RankedAreRanked
<1>2. PICK planned : planned = Planned(matches, risks)
  OBVIOUS
<1>3. PICK n : n = Len(planned)
  OBVIOUS
<1>4. n = Lesser(Cardinality(Good(matches)), MaxScenarios)
  BY <1>1, <1>2, <1>3, TheBestArePlanned
<1>5. /\ \A s \in Range(planned) : \E i \in Good(matches) :
           p[i] <= n /\ s.criterion = matches[i].criterion
      /\ \A i \in Good(matches) : p[i] <= n =>
           \E s \in Range(planned) : s.criterion = matches[i].criterion
  BY <1>1, <1>2, <1>3, TheBestArePlanned
<1>6. Good(matches) \subseteq DOMAIN matches
  BY DEF Good
<1>7. \A i, k \in DOMAIN matches : matches[i].criterion = matches[k].criterion => i = k
  BY DEF MatchesOK
<1>8. \A i \in Good(matches) : matches[i].criterion # "" /\ matches[i].score \in Nat
  BY <1>6 DEF MatchesOK
<1>9. \A name : name \in PlannedIn(conclusion) <=>
            \E i \in Good(matches) : p[i] <= n /\ name = matches[i].criterion
  <2> TAKE name
  <2>1. PlannedIn(conclusion) = {s.criterion : s \in Range(planned)} \ {""}
    BY <1>2 DEF PlannedIn
  <2>2. name \in PlannedIn(conclusion) <=> name # "" /\ \E s \in Range(planned) : name = s.criterion
    BY <2>1
  <2> QED BY <1>5, <1>8, <2>2
<1>10. \A name : name \in UncoveredIn(conclusion) <=>
             \E i \in DOMAIN matches : i \notin Good(matches) /\ name = matches[i].criterion
  BY UncoveredAreTold
<1>11. PlannedIn(conclusion) \cap UncoveredIn(conclusion) = {}
  <2> SUFFICES ASSUME NEW name, name \in PlannedIn(conclusion), name \in UncoveredIn(conclusion) PROVE FALSE
    OBVIOUS
  <2>1. PICK i \in Good(matches) : name = matches[i].criterion
    BY <1>9
  <2>2. PICK k \in DOMAIN matches : k \notin Good(matches) /\ name = matches[k].criterion
    BY <1>10
  <2> QED BY <1>6, <1>7, <2>1, <2>2
<1>12. Cardinality(Good(matches)) \in Nat /\ MaxScenarios \in Nat
  BY RankedAreRanked, CorrelationAssumption
<1>13. \A i \in Good(matches) : p[i] \in 1 .. Cardinality(Good(matches))
  BY <1>1 DEF IsRanking
<1>14. ASSUME NEW a \in NamesIn(matches) \ (PlannedIn(conclusion) \cup UncoveredIn(conclusion))
       PROVE  \E i \in Good(matches) : a = matches[i].criterion /\ ~(p[i] <= n)
  <2>1. PICK i \in DOMAIN matches : a = matches[i].criterion
    BY DEF NamesIn
  <2>2. i \in Good(matches)
    BY <1>10, <2>1
  <2>3. ~(p[i] <= n)
    BY <1>9, <2>1, <2>2
  <2> QED BY <2>1, <2>2, <2>3
<1>15. ASSUME NEW a \in NamesIn(matches) \ (PlannedIn(conclusion) \cup UncoveredIn(conclusion))
       PROVE  "cap" \in conclusion.warnings
  <2>1. PICK i \in Good(matches) : ~(p[i] <= n)
    BY <1>14
  <2>2. p[i] \in 1 .. Cardinality(Good(matches))
    BY <1>13
  <2>3. n = MaxScenarios
    BY <1>4, <1>12, <2>1, <2>2 DEF Lesser
  <2>4. Len(conclusion.planned) = MaxScenarios
    BY <1>2, <1>3, <2>3
  <2> QED BY <2>4 DEF AnnouncesCap
<1>16. ASSUME NEW a \in NamesIn(matches) \ (PlannedIn(conclusion) \cup UncoveredIn(conclusion)),
              NEW b \in PlannedIn(conclusion)
       PROVE  ScoreIn(conclusion.matches, a) <= ScoreIn(conclusion.matches, b)
  <2>1. PICK i \in Good(matches) : a = matches[i].criterion /\ ~(p[i] <= n)
    BY <1>14
  <2>2. PICK k \in Good(matches) : b = matches[k].criterion /\ p[k] <= n
    BY <1>9
  <2>3. n \in Nat
    BY <1>4, <1>12 DEF Lesser
  <2>4. p[i] \in Nat /\ p[k] \in Nat
    BY <1>13
  <2>5. ~(p[i] < p[k])
    BY <2>1, <2>2, <2>3, <2>4
  <2>6. ~(matches[i].score > matches[k].score)
    BY <1>1, <2>5 DEF IsRanking
  <2>7. matches[i].score \in Nat /\ matches[k].score \in Nat
    BY <1>8
  <2>8. matches[i].score <= matches[k].score
    BY <2>6, <2>7
  <2>9. ScoreIn(matches, a) = matches[i].score /\ ScoreIn(matches, b) = matches[k].score
    BY <1>6, <2>1, <2>2, ScoreOfMatch
  <2>10. conclusion.matches = matches
    BY DEF TellsUncovered
  <2> QED BY <2>8, <2>9, <2>10
<1>17. UncoveredIn(conclusion) # {} => "below threshold" \in conclusion.warnings
  BY UncoveredAreTold
<1> QED BY <1>11, <1>15, <1>16, <1>17 DEF Accounts

\* When only routes are planned, no criterion is good enough.
LEMMA RoutesAreCapped ==
  ASSUME NEW files, files \in Seq(Range(files)), MaxScenarios = 0
  PROVE  ForRoutes(files) = <<>>
<1>1. PICK routes : routes = ForRoutes(files)
  OBVIOUS
<1>2. PICK d : d = Lesser(Len(Routes(files)), MaxScenarios)
  OBVIOUS
<1>3. routes = [i \in 1 .. d |-> routes[i]]
  BY <1>1, <1>2 DEF ForRoutes
<1>4. Len(Routes(files)) \in Nat
  <2>1. PICK c \in Nat : DOMAIN Routes(files) = 1 .. c
    BY RoutesAndSchemasHavePlaces
  <2>2. PICK r : r = Routes(files)
    OBVIOUS
  <2>3. r = [i \in 1 .. c |-> r[i]]
    BY <2>1, <2>2 DEF Routes, Distinct, Those
  <2>4. Len(r) = c
    BY <2>3, LengthOfFunction
  <2> QED BY <2>1, <2>2, <2>4
<1>5. d = 0
  BY <1>2, <1>4 DEF Lesser
<1>6. routes \in Seq(Range(routes)) /\ Len(routes) = 0
  BY <1>3, <1>5, LengthOfFunction
<1>7. routes = <<>>
  BY <1>6, EmptySeq
<1> QED BY <1>1, <1>7

LEMMA NothingIsGood ==
  ASSUME NEW matches, MatchesOK(matches), NEW risks, Planned(matches, risks) = <<>>, MaxScenarios # 0
  PROVE  Good(matches) = {}
<1>1. PICK p : IsRanking(p, matches)
  BY RankedAreRanked
<1>2. PICK planned : planned = Planned(matches, risks)
  OBVIOUS
<1>3. Len(planned) = Lesser(Cardinality(Good(matches)), MaxScenarios)
  BY <1>1, <1>2, TheBestArePlanned
<1>4. Len(planned) = 0
  BY <1>2
<1>5. Cardinality(Good(matches)) \in Nat /\ MaxScenarios \in Nat
  BY RankedAreRanked, CorrelationAssumption
<1>6. Cardinality(Good(matches)) = 0
  BY <1>3, <1>4, <1>5 DEF Lesser
<1>7. \A i \in Good(matches) : p[i] \in 1 .. Cardinality(Good(matches))
  BY <1>1 DEF IsRanking
<1> QED BY <1>6, <1>7

LEMMA RoutesAccount ==
  ASSUME NEW matches, MatchesOK(matches), Good(matches) = {}, NEW files, NEW conclusion,
         conclusion.planned = ForRoutes(files), TellsUncovered(conclusion, matches)
  PROVE  Accounts(conclusion, NamesIn(matches))
<1>1. PICK routes : routes = ForRoutes(files)
  OBVIOUS
<1>2. \A i \in DOMAIN routes : routes[i].criterion = ""
  BY <1>1 DEF ForRoutes
<1>3. PlannedIn(conclusion) = {}
  BY <1>1, <1>2 DEF PlannedIn, Range
<1>4. \A i \in DOMAIN matches : matches[i].criterion \in UncoveredIn(conclusion)
  BY UncoveredAreTold
<1>5. NamesIn(matches) \ (PlannedIn(conclusion) \cup UncoveredIn(conclusion)) = {}
  BY <1>4 DEF NamesIn
<1>6. UncoveredIn(conclusion) # {} => "below threshold" \in conclusion.warnings
  BY UncoveredAreTold
<1> QED BY <1>3, <1>5, <1>6 DEF Accounts

\* What the regressions and a mismatch are called is none of a criterion.
LEMMA RisksOfCriteria ==
  ASSUME NEW matches, NEW criteria, NEW files, NEW risks,
         risks = Regressions(files) \cup Mismatch(criteria, files) \cup Uncovered(matches)
  PROVE  {x \in risks : x.type = "uncovered_criterion"} = Uncovered(matches)
<1>1. \A x \in Regressions(files) : x.type # "uncovered_criterion"
  <2> TAKE x \in Regressions(files)
  <2>1. PICK f : x = RiskItem(IF Paths[f.path].noise = "manifest" THEN "dependency_change" ELSE "regression",
              IF Paths[f.path].noise = "manifest" THEN "LOW"
              ELSE IF Removed(f) > ManyRemovedLines THEN "HIGH" ELSE "MEDIUM", f.path, "")
    BY Zenon DEF Regressions
  <2>2. PICK kind, severity, path :
          /\ x = RiskItem(kind, severity, path, "")
          /\ kind = "dependency_change" \/ kind = "regression"
    BY <2>1
  <2> QED BY <2>2 DEF RiskItem
<1>2. \A x \in Mismatch(criteria, files) : x.type # "uncovered_criterion"
  <2>1. \A x \in Mismatch(criteria, files) : x = RiskItem("demand_diff_mismatch", "MEDIUM", 0, "")
    BY Zenon DEF Mismatch
  <2>2. RiskItem("demand_diff_mismatch", "MEDIUM", 0, "").type # "uncovered_criterion"
    BY DEF RiskItem
  <2> QED BY Zenon, <2>1, <2>2
<1>3. \A x \in Uncovered(matches) : x.type = "uncovered_criterion"
  BY DEF Uncovered, RiskItem
<1> QED BY <1>1, <1>2, <1>3

LEMMA FieldsOfResults ==
  ASSUME NEW status, NEW planned, NEW matches, NEW risks, NEW notes, NEW conclusion,
         conclusion = [status |-> status, planned |-> planned, matches |-> matches, risks |-> risks,
                   warnings |-> notes]
  PROVE  /\ conclusion.planned = planned /\ conclusion.matches = matches /\ conclusion.risks = risks
         /\ conclusion.warnings = notes
OBVIOUS

LEMMA ConcludedAccounts ==
  ASSUME NEW matches, MatchesOK(matches), NEW files, files \in Seq(Range(files)), NEW found, NEW risks,
         {x \in risks : x.type = "uncovered_criterion"} = Uncovered(matches),
         NEW conclusion, conclusion = Concluded(matches, risks, files, found), conclusion.status # "BLOCKED"
  PROVE  TellsUncovered(conclusion, matches) /\ Accounts(conclusion, NamesIn(matches))
<1>1. PICK good : good = Planned(matches, risks)
  OBVIOUS
<1>2. PICK below : below = IF Uncovered(matches) = {} THEN {} ELSE {"below threshold"}
  OBVIOUS
<1>3. PICK capped : capped = IF Len(good) = MaxScenarios THEN {"cap"} ELSE {}
  OBVIOUS
<1>4. PICK unknown : unknown = IF found = <<>> THEN {"no memory"} ELSE {}
  OBVIOUS
<1>5. Uncovered(matches) # {} => "below threshold" \in below
  BY <1>2
<1>6. Len(good) = MaxScenarios => "cap" \in capped
  BY <1>3
<1>7. ASSUME conclusion.risks = risks, conclusion.matches = matches, below \subseteq conclusion.warnings
      PROVE  TellsUncovered(conclusion, matches)
  <2>1. UncoveredIn(conclusion) = {r.criterion : r \in Uncovered(matches)}
    BY <1>7 DEF UncoveredIn
  <2>2. Uncovered(matches) # {} => "below threshold" \in conclusion.warnings
    BY <1>5, <1>7
  <2> QED BY <1>7, <2>1, <2>2 DEF TellsUncovered
<1>8. CASE good # <<>>
  <2>1. conclusion = [status |-> "OK", planned |-> good, matches |-> matches, risks |-> risks,
                  warnings |-> below \cup capped \cup unknown]
    BY <1>1, <1>2, <1>3, <1>4, <1>8 DEF Concluded
  <2>2. /\ conclusion.planned = good /\ conclusion.matches = matches /\ conclusion.risks = risks
        /\ below \subseteq conclusion.warnings /\ capped \subseteq conclusion.warnings
    BY <2>1
  <2>3. TellsUncovered(conclusion, matches)
    BY <1>7, <2>2
  <2>4. AnnouncesCap(conclusion)
    BY <1>6, <2>2 DEF AnnouncesCap
  <2> QED BY <1>1, <2>2, <2>3, <2>4, PlannedAccounts
<1>9. CASE good = <<>> /\ ForRoutes(files) # <<>>
  <2>6. PICK routes : routes = ForRoutes(files)
    OBVIOUS
  <2>7. PICK notes : notes = below \cup {"routes only"} \cup unknown
    OBVIOUS
  <2>8. below \subseteq notes
    BY <2>7
  <2>1. conclusion = [status |-> "OK", planned |-> routes, matches |-> matches, risks |-> risks,
                  warnings |-> notes]
    BY <1>1, <1>2, <1>3, <1>4, <1>9, <2>6, <2>7 DEF Concluded
  <2>2. /\ conclusion.planned = routes /\ conclusion.matches = matches /\ conclusion.risks = risks
        /\ conclusion.warnings = notes
    BY <2>1, FieldsOfResults
  <2>3. TellsUncovered(conclusion, matches)
    BY <1>7, <2>2, <2>8
  <2>4. MaxScenarios # 0
    BY <1>9, RoutesAreCapped
  <2>5. Good(matches) = {}
    BY <1>1, <1>9, <2>4, NothingIsGood
  <2> QED BY <2>2, <2>3, <2>5, <2>6, RoutesAccount
<1>10. CASE good = <<>> /\ ForRoutes(files) = <<>>
  <2>1. conclusion = BlockedResult(below)
    BY <1>1, <1>2, <1>10 DEF Concluded
  <2> QED BY <2>1 DEF BlockedResult
<1> QED BY <1>8, <1>9, <1>10

\* A chunk that counts for a match is one of those that were found.
ChunksAreFound(matches, found) ==
  \A m \in Range(matches) : m.chunk # "" => \E chunk \in Range(found) : m.chunk = chunk.id

\* What the matches have of their criteria.
OfCriteria(matches, criteria, found) ==
  /\ Len(criteria) \in Nat /\ DOMAIN criteria = 1 .. Len(criteria)
  /\ DOMAIN matches = DOMAIN criteria /\ Len(matches) = Len(criteria)
  /\ \A i \in DOMAIN criteria :
       /\ matches[i].score \in Nat
       /\ matches[i].criterion = criteria[i].name
       /\ matches[i].chunk # "" => \E chunk \in Range(found) : matches[i].chunk = chunk.id

LEMMA MatchesAreOfCriteria ==
  ASSUME NEW files \in Diffs, NEW demand \in Demands, NEW found \in Searches,
         NEW criteria, criteria = Consume(demand),
         NEW matches, matches = [i \in DOMAIN criteria |-> Correlate(criteria[i], files, found)]
  PROVE  OfCriteria(matches, criteria, found)
<1>1. files \in Seq(Range(files))
  BY CorrelationAssumption
<1>2. criteria \in Seq(Range(demand))
  BY ConsumedAreToldApart
<1>3. \A i \in DOMAIN criteria : IsFiniteSet(criteria[i].words)
  <2>1. \A i \in DOMAIN criteria : criteria[i] \in Range(demand)
    BY <1>2
  <2> QED BY <2>1, CorrelationAssumption
<1>4. ASSUME NEW i \in DOMAIN criteria
      PROVE  /\ matches[i].score \in Nat
             /\ matches[i].criterion = criteria[i].name
             /\ matches[i].chunk # "" => \E chunk \in Range(found) : matches[i].chunk = chunk.id
  <2>1. PICK criterion : criterion = criteria[i]
    OBVIOUS
  <2>2. IsFiniteSet(criterion.words)
    BY <1>3, <2>1
  <2>3. /\ Correlate(criterion, files, found).score \in Nat
        /\ Correlate(criterion, files, found).criterion = criterion.name
        /\ Correlate(criterion, files, found).chunk # "" =>
              \E chunk \in Range(found) : Correlate(criterion, files, found).chunk = chunk.id
    BY <1>1, <2>2, CorrelatedIsScored
  <2>4. matches[i] = Correlate(criterion, files, found)
    BY <2>1
  <2> QED BY <2>1, <2>3, <2>4
<1>5. DOMAIN matches = DOMAIN criteria /\ DOMAIN criteria = 1 .. Len(criteria) /\ Len(criteria) \in Nat
  BY <1>2
<1>6. Len(matches) = Len(criteria)
  <2>1. matches = [i \in 1 .. Len(criteria) |-> matches[i]]
    BY <1>5
  <2> QED BY <1>5, <2>1, LengthOfFunction
<1> QED BY <1>4, <1>5, <1>6 DEF OfCriteria

LEMMA MatchesAreOK ==
  ASSUME NEW demand \in Demands, NEW criteria, criteria = Consume(demand), NEW found,
         NEW matches, OfCriteria(matches, criteria, found)
  PROVE  /\ MatchesOK(matches)
         /\ ChunksAreFound(matches, found)
         /\ NamesIn(matches) = {c.name : c \in Range(criteria)}
<1>1. /\ Len(matches) \in Nat /\ DOMAIN matches = 1 .. Len(matches) /\ DOMAIN matches = DOMAIN criteria
  BY DEF OfCriteria
<1>2. \A i \in DOMAIN matches :
        /\ matches[i].score \in Nat
        /\ matches[i].criterion = criteria[i].name
        /\ matches[i].chunk # "" => \E chunk \in Range(found) : matches[i].chunk = chunk.id
  BY DEF OfCriteria
<1>3. \A i \in DOMAIN criteria : criteria[i].name # ""
  <2>1. \A i \in DOMAIN criteria : criteria[i] \in Range(demand)
    BY ConsumedAreToldApart
  <2> QED BY <2>1, CorrelationAssumption
<1>4. \A i, k \in DOMAIN criteria : criteria[i].name = criteria[k].name => i = k
  BY ConsumedAreToldApart
<1>5. MatchesOK(matches)
  <2>1. \A i \in DOMAIN matches : matches[i].score \in Nat /\ matches[i].criterion # ""
    BY <1>1, <1>2, <1>3
  <2>2. \A i, k \in DOMAIN matches : matches[i].criterion = matches[k].criterion => i = k
    <3> TAKE i, k \in DOMAIN matches
    <3> HAVE matches[i].criterion = matches[k].criterion
    <3>1. i \in DOMAIN criteria /\ k \in DOMAIN criteria
      BY <1>1
    <3>2. criteria[i].name = criteria[k].name
      BY <1>2
    <3> QED BY <1>4, <3>1, <3>2
  <2> QED BY <1>1, <2>1, <2>2 DEF MatchesOK
<1>6. NamesIn(matches) = {c.name : c \in Range(criteria)}
  <2>1. {c.name : c \in Range(criteria)} = {criteria[i].name : i \in DOMAIN criteria}
    BY DEF Range
  <2>2. NamesIn(matches) = {criteria[i].name : i \in DOMAIN criteria}
    <3>1. \A i \in DOMAIN matches : matches[i].criterion = criteria[i].name
      BY <1>2
    <3> QED BY <1>1, <3>1 DEF NamesIn
  <2> QED BY <2>1, <2>2
<1>7. ChunksAreFound(matches, found)
  BY <1>2 DEF ChunksAreFound, Range
<1> QED BY <1>5, <1>6, <1>7

LEMMA ResultAccounts ==
  ASSUME NEW files \in Diffs, NEW demand \in Demands, NEW found \in Searches,
         NEW criteria, criteria = Consume(demand),
         NEW conclusion, conclusion = Result(criteria, files, found), conclusion.status # "BLOCKED"
  PROVE  /\ Accounts(conclusion, {c.name : c \in Range(criteria)})
         /\ TellsUncovered(conclusion, conclusion.matches)
         /\ ChunksAreFound(conclusion.matches, found)
<1>1. files \in Seq(Range(files))
  BY CorrelationAssumption
<1>2. PICK matches : matches = [i \in DOMAIN criteria |-> Correlate(criteria[i], files, found)]
  OBVIOUS
<1>3. /\ MatchesOK(matches)
      /\ ChunksAreFound(matches, found)
      /\ NamesIn(matches) = {c.name : c \in Range(criteria)}
  BY <1>2, MatchesAreOfCriteria, MatchesAreOK
<1>4. PICK risks : risks = Regressions(files) \cup Mismatch(criteria, files) \cup Uncovered(matches)
  OBVIOUS
<1>5. {x \in risks : x.type = "uncovered_criterion"} = Uncovered(matches)
  BY <1>4, RisksOfCriteria
<1>6. conclusion = Concluded(matches, risks, files, found)
  <2>1. conclusion = BlockedResult({}) \/ conclusion = Weighed(matches, criteria, files, found)
    BY <1>2 DEF Result
  <2>2. conclusion # BlockedResult({})
    BY DEF BlockedResult
  <2> QED BY <1>4, <2>1, <2>2 DEF Weighed
<1>7. TellsUncovered(conclusion, matches) /\ Accounts(conclusion, NamesIn(matches))
  BY <1>1, <1>3, <1>5, <1>6, ConcludedAccounts
<1>8. conclusion.matches = matches
  BY <1>7 DEF TellsUncovered
<1> QED BY <1>3, <1>7, <1>8

---------------------------------------------------------------------------
(* The report and the log of every run of the command.                      *)

\* The two properties, of a report and a log.
LogFits(log, r) ==
  /\ log.no < r.no => "log not written" \in r.warnings
  /\ log.no = r.no =>
      /\ \A c \in Range(r.demand) : c.name \in log.gaps.criteria <=> c.name \in UncoveredIn(r)
      /\ \A m \in Range(r.matches) : m.chunk # "" =>
            \E i \in log.influences : i[1] = m.chunk /\ i[2] # "none"

Complete(log, r) ==
  r # Nothing => Accounts(r, {c.name : c \in Range(r.demand)}) /\ LogFits(log, r)

LEMMA CompleteMeans ==
  ASSUME NEW log, NEW r
  PROVE  /\ log = consulted /\ r = required => (ReportIsComplete <=> Complete(log, r))
         /\ log = consulted' /\ r = required' => (ReportIsComplete' <=> Complete(log, r))
<1>1. ASSUME log = consulted, r = required PROVE ReportIsComplete <=> Complete(log, r)
  <2>1. PlannedFor = PlannedIn(r) /\ UncoveredCriteria = UncoveredIn(r)
    BY <1>1 DEF PlannedFor, UncoveredCriteria, PlannedIn, UncoveredIn
  <2>2. \A name : ScoreFor(name) = ScoreIn(r.matches, name)
    BY <1>1 DEF ScoreFor, ScoreIn
  <2>3. CriteriaAccountedFor <=> (r # Nothing => Accounts(r, {c.name : c \in Range(r.demand)}))
    BY <1>1, <2>1, <2>2 DEF CriteriaAccountedFor, Accounts
  <2>4. LogFitsTheReport <=> (r # Nothing => LogFits(log, r))
    BY <1>1, <2>1 DEF LogFitsTheReport, LogFits
  <2> QED BY <2>3, <2>4 DEF ReportIsComplete, Complete
<1>2. ASSUME log = consulted', r = required' PROVE ReportIsComplete' <=> Complete(log, r)
  <2>1. PlannedFor' = PlannedIn(r) /\ UncoveredCriteria' = UncoveredIn(r)
    BY <1>2 DEF PlannedFor, UncoveredCriteria, PlannedIn, UncoveredIn
  <2>2. \A name : ScoreFor(name)' = ScoreIn(r.matches, name)
    BY <1>2 DEF ScoreFor, ScoreIn
  <2>3. CriteriaAccountedFor' <=> (r # Nothing => Accounts(r, {c.name : c \in Range(r.demand)}))
    BY <1>2, <2>1, <2>2 DEF CriteriaAccountedFor, Accounts
  <2>4. LogFitsTheReport' <=> (r # Nothing => LogFits(log, r))
    BY <1>2, <2>1 DEF LogFitsTheReport, LogFits
  <2> QED BY <2>3, <2>4 DEF ReportIsComplete, Complete
<1> QED BY <1>1, <1>2

\* The report is made of the result, its number is new, and the log is that of
\* the same run or an earlier one.
IsReportOf(r, conclusion, criteria, no, logFails) ==
  r = [no |-> no, demand |-> criteria, planned |-> conclusion.planned, matches |-> conclusion.matches,
       risks |-> conclusion.risks, warnings |-> conclusion.warnings \cup LogWarning(logFails)]

IsLogOf(log, conclusion, files, found, no) ==
  log = [no |-> no, influences |-> {<<c.id, Influence(c, conclusion)>> : c \in Range(found)},
         gaps |-> Gaps(conclusion, files, found)]

LEMMA ReportAccounts ==
  ASSUME NEW criteria, NEW conclusion, Accounts(conclusion, {c.name : c \in Range(criteria)}),
         NEW r, NEW no, NEW logFails \in BOOLEAN, IsReportOf(r, conclusion, criteria, no, logFails)
  PROVE  Accounts(r, {c.name : c \in Range(r.demand)})
<1>1. /\ r.demand = criteria /\ r.planned = conclusion.planned /\ r.matches = conclusion.matches
      /\ r.risks = conclusion.risks /\ conclusion.warnings \subseteq r.warnings
  BY DEF IsReportOf
<1>2. PlannedIn(r) = PlannedIn(conclusion) /\ UncoveredIn(r) = UncoveredIn(conclusion)
  BY <1>1 DEF PlannedIn, UncoveredIn
<1> QED BY <1>1, <1>2 DEF Accounts

LEMMA ReportFitsItsLog ==
  ASSUME NEW criteria, NEW files, NEW found, NEW conclusion, TellsUncovered(conclusion, conclusion.matches),
         ChunksAreFound(conclusion.matches, found),
         NEW logFails \in BOOLEAN, NEW no \in Nat, NEW r, IsReportOf(r, conclusion, criteria, no, logFails),
         NEW log, IsLogOf(log, conclusion, files, found, no)
  PROVE  LogFits(log, r)
<1>1. r.no = no /\ r.matches = conclusion.matches /\ r.risks = conclusion.risks
  BY DEF IsReportOf
<1>2. log.no = no /\ log.gaps.criteria = {m.criterion : m \in {n \in Range(conclusion.matches) : n.score < Threshold}}
  BY DEF IsLogOf, Gaps
<1>3. UncoveredIn(r) = log.gaps.criteria
  <2>1. UncoveredIn(r) = {u.criterion : u \in Uncovered(conclusion.matches)}
    BY <1>1 DEF TellsUncovered, UncoveredIn
  <2>2. {u.criterion : u \in Uncovered(conclusion.matches)}
          = {m.criterion : m \in {n \in Range(conclusion.matches) : n.score < Threshold}}
    <3>1. \A criterion : RiskItem("uncovered_criterion", "HIGH", 0, criterion).criterion = criterion
      BY DEF RiskItem
    <3> QED BY <3>1 DEF Uncovered
  <2> QED BY <1>2, <2>1, <2>2
<1>4. ASSUME NEW m \in Range(r.matches), m.chunk # ""
      PROVE  \E i \in log.influences : i[1] = m.chunk /\ i[2] # "none"
  <2>1. PICK c \in Range(found) : m.chunk = c.id
    BY <1>1, <1>4 DEF ChunksAreFound
  <2>2. PICK influence : influence = Influence(c, conclusion)
    OBVIOUS
  <2>3. influence # "none"
    BY <1>1, <1>4, <2>1, <2>2 DEF Influence
  <2>4. <<c.id, influence>> \in log.influences
    BY <2>2 DEF IsLogOf
  <2> QED BY <2>1, <2>3, <2>4
<1>5. ~(log.no < r.no)
  BY <1>1, <1>2
<1> QED BY <1>3, <1>4, <1>5 DEF LogFits

\* A log that could not be written is announced, and is then of another run.
LEMMA ReportTellsTheLogIsOld ==
  ASSUME NEW criteria, NEW conclusion, NEW logFails \in BOOLEAN, logFails,
         NEW no \in Nat, NEW r, IsReportOf(r, conclusion, criteria, no, logFails), NEW log, log.no \in Nat, log.no < no
  PROVE  LogFits(log, r)
<1>1. r.no = no /\ "log not written" \in r.warnings
  BY DEF IsReportOf, LogWarning
<1>2. log.no # no
  OBVIOUS
<1> QED BY <1>1, <1>2 DEF LogFits

\* The report and the log carry numbers of runs that were.
NumbersOK ==
  /\ correlations \in Nat
  /\ required.no \in Nat /\ required.no <= correlations
  /\ consulted.no \in Nat /\ consulted.no <= correlations

CorrelationInv == diff \in Diffs /\ NumbersOK /\ ReportIsComplete

LEMMA CorrelateStep ==
  ASSUME CorrelationInv, NEW demand \in Demands, NEW found \in Searches, NEW logFails \in BOOLEAN,
         CorrelateDemand(demand, found, logFails)
  PROVE  CorrelationInv'
<1>1. PICK criteria : criteria = Consume(demand)
  OBVIOUS
<1>2. PICK files \in Diffs : files = diff
  BY DEF CorrelationInv
<1>3. PICK conclusion : conclusion = Result(criteria, files, found)
  OBVIOUS
<1>4. PICK no : no = correlations + 1
  OBVIOUS
<1>5. PICK log, r, oldLog, oldReport :
        log = consulted' /\ r = required' /\ oldLog = consulted /\ oldReport = required
  OBVIOUS
<1>6. /\ IF logFails THEN log = oldLog ELSE IsLogOf(log, conclusion, files, found, no)
      /\ IF conclusion.status = "BLOCKED" THEN r = oldReport
         ELSE IsReportOf(r, conclusion, criteria, no, logFails)
      /\ correlations' = no /\ diff' = diff
  BY <1>1, <1>2, <1>3, <1>4, <1>5 DEF CorrelateDemand, IsLogOf, IsReportOf
<1>7. /\ no \in Nat /\ oldLog.no \in Nat /\ oldReport.no \in Nat
      /\ oldLog.no < no /\ oldReport.no < no
  BY <1>4, <1>5 DEF CorrelationInv, NumbersOK
<1>8. Complete(oldLog, oldReport)
  BY <1>5, CompleteMeans DEF CorrelationInv
<1>9. log.no = no \/ (logFails /\ log = oldLog)
  BY <1>6 DEF IsLogOf
<1>10. r.no = no \/ r = oldReport
  BY <1>6 DEF IsReportOf
<1>11. NumbersOK'
  <2>1. log.no \in Nat /\ log.no <= no
    BY <1>7, <1>9
  <2>2. r.no \in Nat /\ r.no <= no
    BY <1>7, <1>10
  <2> QED BY <1>5, <1>6, <1>7, <2>1, <2>2 DEF NumbersOK
<1>12. Complete(log, r)
  <2>1. CASE conclusion.status # "BLOCKED"
    <3>1. /\ Accounts(conclusion, {c.name : c \in Range(criteria)})
          /\ TellsUncovered(conclusion, conclusion.matches)
          /\ ChunksAreFound(conclusion.matches, found)
      BY <1>1, <1>3, <2>1, ResultAccounts
    <3>2. Accounts(r, {c.name : c \in Range(r.demand)})
      BY <1>6, <2>1, <3>1, ReportAccounts
    <3>3. CASE logFails
      <4>1. LogFits(log, r)
        BY <1>6, <1>7, <2>1, <3>3, ReportTellsTheLogIsOld
      <4> QED BY <3>2, <4>1 DEF Complete
    <3>4. CASE ~logFails
      <4>1. LogFits(log, r)
        BY <1>6, <1>7, <2>1, <3>1, <3>4, ReportFitsItsLog
      <4> QED BY <3>2, <4>1 DEF Complete
    <3> QED BY <3>3, <3>4
  <2>2. CASE conclusion.status = "BLOCKED" /\ logFails
    BY <1>6, <1>8, <2>2
  <2>3. CASE conclusion.status = "BLOCKED" /\ ~logFails
    <3>1. r = oldReport /\ log.no = no
      BY <1>6, <1>9, <2>3
    <3>2. ~(log.no < r.no) /\ log.no # r.no
      BY <1>7, <3>1
    <3> QED BY <1>8, <3>1, <3>2 DEF Complete, LogFits
  <2> QED BY <2>1, <2>2, <2>3
<1>13. ReportIsComplete'
  BY <1>5, <1>12, CompleteMeans
<1>14. diff' \in Diffs
  BY <1>2, <1>6
<1> QED BY <1>11, <1>13, <1>14 DEF CorrelationInv

\* Nothing but the report, the log and the number of runs matters.
LEMMA CorrelationUntouched ==
  ASSUME CorrelationInv, UNCHANGED <<diff, required, consulted, correlations>>
  PROVE  CorrelationInv'
<1>1. PICK log, r : log = consulted /\ r = required
  OBVIOUS
<1>2. log = consulted' /\ r = required'
  BY <1>1
<1>3. Complete(log, r)
  BY <1>1, CompleteMeans DEF CorrelationInv
<1>4. ReportIsComplete'
  BY <1>2, <1>3, CompleteMeans
<1> QED BY <1>4 DEF CorrelationInv, NumbersOK

\* After every run of the correlation the report and the log account for every
\* criterion of the demand, whatever the diffs, demands and searches.
THEOREM ReportsAreComplete == CorrelationSpec => []ReportIsComplete
<1>1. CorrelationInit => CorrelationInv
  BY DEF CorrelationInit, CorrelationInv, NumbersOK, Nothing, ReportIsComplete,
         CriteriaAccountedFor, LogFitsTheReport
<1>2. CorrelationInv /\ [CorrelationNext]_correlationVars => CorrelationInv'
  <2> SUFFICES ASSUME CorrelationInv, [CorrelationNext]_correlationVars PROVE CorrelationInv'
    OBVIOUS
  <2>1. ASSUME NEW demand \in Demands, NEW found \in Searches, NEW logFails \in BOOLEAN,
               CorrelateDemand(demand, found, logFails)
        PROVE  CorrelationInv'
    BY <2>1, CorrelateStep
  <2>2. ASSUME NEW jobs \in Histories, ClassifyRisk(jobs)
        PROVE  CorrelationInv'
    BY <2>2, CorrelationUntouched DEF ClassifyRisk
  <2>3. CASE UNCHANGED correlationVars
    BY <2>3, CorrelationUntouched DEF correlationVars
  <2> QED BY <2>1, <2>2, <2>3 DEF CorrelationNext
<1>3. CorrelationInv => ReportIsComplete
  BY DEF CorrelationInv
<1> QED BY <1>1, <1>2, <1>3, PTL DEF CorrelationSpec

============================================================================
