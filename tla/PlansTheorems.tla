--------------------------- MODULE PlansTheorems ---------------------------
(***************************************************************************)
(* Lemmas about plans and patches, for every plan and every patch, and     *)
(* about numbers, finite sets and parts of sequences, for other proofs.    *)
(***************************************************************************)
EXTENDS Plans, Selections, SequencesExt, SequenceTheorems, FiniteSetTheorems, WellFoundedInduction, TLAPS

\* A plan is a non-empty sequence of steps.
LEMMA PlanShape ==
  ASSUME NEW p \in Plan
  PROVE  /\ p \in Seq(Step)
         /\ Len(p) \in Nat \ {0}
         /\ DOMAIN p = 1 .. Len(p)
         /\ \A i \in 1 .. Len(p) : p[i] \in Step
<1>1. p \in Seq(Step) /\ p # << >>
  BY DEF Plan
<1>2. Len(p) \in Nat \ {0}
  BY <1>1, EmptySeq
<1>3. DOMAIN p = 1 .. Len(p)
  BY <1>1, LenProperties
<1>4. \A i \in 1 .. Len(p) : p[i] \in Step
  BY <1>1, ElementOfSeq
<1> QED
  BY <1>1, <1>2, <1>3, <1>4

\* A non-empty set of numbers has a least one.
LEMMA Least ==
  ASSUME NEW T, T \subseteq Nat, T # {}
  PROVE  \E x \in T : \A y \in T : x <= y
<1> DEFINE R == OpToRel(<, Nat)
<1>1. PICK x \in T : \A y \in T : <<y, x>> \notin R
  <2>1. IsWellFoundedOn(R, Nat)
    BY NatLessThanWellFounded
  <2> HIDE DEF R
  <2> QED
    BY <2>1, WFMin
<1>2. \A y \in T : ~(y < x)
  BY <1>1 DEF OpToRel
<1> QED
  BY <1>2

\* findIndex returns the position of the first step with that id.
LEMMA FirstIndexFound ==
  ASSUME NEW p \in Plan, NEW id, Has(p, id)
  PROVE  /\ FirstIndex(p, id) \in 1 .. Len(p)
         /\ p[FirstIndex(p, id)].id = id
<1> DEFINE T == {i \in DOMAIN p : p[i].id = id}
<1>1. T \subseteq Nat /\ T # {} /\ DOMAIN p = 1 .. Len(p)
  BY PlanShape DEF Has
<1>2. PICK i \in T : \A j \in T : i <= j
  BY <1>1, Least
<1> QED
  BY <1>1, <1>2 DEF FirstIndex

\* Cutting a plan before or after one of its steps, and joining the pieces
\* with other steps, gives steps.
LEMMA Pieces ==
  ASSUME NEW p \in Plan, NEW i \in 1 .. Len(p)
  PROVE  /\ Before(p, i) \in Seq(Step)
         /\ Len(Before(p, i)) = i - 1
         /\ \A j \in 1 .. i - 1 : Before(p, i)[j] = p[j]
         /\ After(p, i) \in Seq(Step)
<1>1. Len(p) \in Nat /\ \A j \in 1 .. Len(p) : p[j] \in Step
  BY PlanShape
<1>2. /\ SubSeq(p, 1, i - 1) \in Seq(Step)
      /\ Len(SubSeq(p, 1, i - 1)) = IF 1 <= i - 1 THEN i - 1 - 1 + 1 ELSE 0
      /\ \A j \in 1 .. i - 1 - 1 + 1 : SubSeq(p, 1, i - 1)[j] = p[1 + j - 1]
  <2>1. \A j \in 1 .. i - 1 : p[j] \in Step
    BY <1>1
  <2> QED
    BY <2>1, <1>1, SubSeqProperties
<1>3. SubSeq(p, i + 1, Len(p)) \in Seq(Step)
  <2>1. \A j \in i + 1 .. Len(p) : p[j] \in Step
    BY <1>1
  <2> QED
    BY <2>1, <1>1, SubSeqProperties
<1>4. \A j \in 1 .. i - 1 : SubSeq(p, 1, i - 1)[j] = p[j]
  BY <1>1, <1>2
<1>5. Len(SubSeq(p, 1, i - 1)) = i - 1
  BY <1>1, <1>2
<1> QED
  BY <1>2, <1>3, <1>4, <1>5 DEF Before, After

\* Steps joined to at least one step make a plan.
LEMMA JoinedSteps ==
  ASSUME NEW s \in Seq(Step), NEW t \in Seq(Step), s \in Plan \/ t \in Plan
  PROVE  s \o t \in Plan
<1>1. Len(s) \in Nat /\ Len(t) \in Nat
  BY LenProperties
<1>2. Len(s) # 0 \/ Len(t) # 0
  BY PlanShape
<1>3. s \o t \in Seq(Step) /\ Len(s \o t) = Len(s) + Len(t)
  BY ConcatProperties
<1>4. Len(s \o t) # 0
  BY <1>1, <1>2, <1>3
<1>5. s \o t # << >>
  BY <1>4
<1> QED
  BY <1>3, <1>5 DEF Plan

\* A patch of a plan is a plan: applying a schema-valid patch never empties the
\* plan, whichever step it names (PlanPatchApplierService.apply).
LEMMA PatchedPlanIsPlan ==
  ASSUME NEW p \in Plan, NEW patch \in Patch, Has(p, patch.stepId)
  PROVE  PatchedPlan(p, patch) \in Plan
<1> DEFINE i == FirstIndex(p, patch.stepId)
<1>1. i \in 1 .. Len(p)
  BY FirstIndexFound
<1>2. patch.steps \in Plan
  BY PlansAssumption DEF Patch
<1>3. PatchedPlan(p, patch) \in {Before(p, i) \o patch.steps,
                                Before(p, i) \o patch.steps \o After(p, i),
                                Before(p, i) \o <<p[i]>> \o patch.steps \o After(p, i)}
  BY DEF PatchedPlan
<1> HIDE DEF i
<1>4. Before(p, i) \in Seq(Step) /\ After(p, i) \in Seq(Step)
  BY <1>1, Pieces
<1>5. <<p[i]>> \in Plan
  BY <1>1, PlanShape DEF Plan
<1>6. \A s \in Plan : s \in Seq(Step)
  BY DEF Plan
<1>7. Before(p, i) \o patch.steps \in Plan
  BY <1>2, <1>4, <1>6, JoinedSteps
<1>8. Before(p, i) \o <<p[i]>> \in Plan
  BY <1>4, <1>5, <1>6, JoinedSteps
<1>9. Before(p, i) \o <<p[i]>> \o patch.steps \in Plan
  BY <1>2, <1>6, <1>8, JoinedSteps
<1> QED
  BY <1>3, <1>4, <1>6, <1>7, <1>9, JoinedSteps

\* Whatever the provider answers, a replan that is accepted is a plan.
LEMMA ReplansArePlans ==
  ASSUME NEW p \in Plan, NEW failed
  PROVE  Replans(p, failed) \subseteq Plan
BY PatchedPlanIsPlan DEF Replans, Proposed

----------------------------------------------------------------------------
(* What a patch keeps.                                                      *)

\* The plan holds that step somewhere, or starts with those steps.
Holds(p, x)  == \E b \in DOMAIN p : p[b] = x
Starts(q, s) == Len(s) <= Len(q) /\ \A j \in 1 .. Len(s) : q[j] = s[j]

LEMMA JoinHolds ==
  ASSUME NEW s \in Seq(Step), NEW t \in Seq(Step), NEW x, Holds(s, x) \/ Holds(t, x)
  PROVE  Holds(s \o t, x)
<1>1. /\ Len(s) \in Nat /\ DOMAIN s = 1 .. Len(s)
      /\ Len(t) \in Nat /\ DOMAIN t = 1 .. Len(t)
  BY LenProperties
<1>2. /\ s \o t \in Seq(Step)
      /\ Len(s \o t) = Len(s) + Len(t)
      /\ \A i \in 1 .. Len(s) + Len(t) :
           (s \o t)[i] = IF i <= Len(s) THEN s[i] ELSE t[i - Len(s)]
  BY ConcatProperties
<1>3. DOMAIN (s \o t) = 1 .. Len(s) + Len(t)
  BY <1>2, LenProperties
<1>4. CASE Holds(s, x)
  <2>1. PICK b \in 1 .. Len(s) : s[b] = x
    BY <1>1, <1>4 DEF Holds
  <2>2. b \in 1 .. Len(s) + Len(t) /\ (s \o t)[b] = x
    BY <1>1, <1>2, <2>1
  <2> QED
    BY <1>3, <2>2 DEF Holds
<1>5. CASE Holds(t, x)
  <2>1. PICK b \in 1 .. Len(t) : t[b] = x
    BY <1>1, <1>5 DEF Holds
  <2>2. /\ Len(s) + b \in 1 .. Len(s) + Len(t)
        /\ ~(Len(s) + b <= Len(s))
        /\ Len(s) + b - Len(s) = b
    BY <1>1, <2>1
  <2>3. (s \o t)[Len(s) + b] = x
    BY <1>2, <2>1, <2>2
  <2> QED
    BY <1>3, <2>2, <2>3 DEF Holds
<1> QED
  BY <1>4, <1>5

LEMMA JoinStarts ==
  ASSUME NEW b \in Seq(Step), NEW s \in Seq(Step), NEW t \in Seq(Step), Starts(s, b)
  PROVE  Starts(s \o t, b)
<1>1. Len(b) \in Nat /\ Len(s) \in Nat /\ Len(t) \in Nat
  BY LenProperties
<1>2. /\ Len(s \o t) = Len(s) + Len(t)
      /\ \A i \in 1 .. Len(s) + Len(t) :
           (s \o t)[i] = IF i <= Len(s) THEN s[i] ELSE t[i - Len(s)]
  BY ConcatProperties
<1>3. Len(b) <= Len(s) /\ \A j \in 1 .. Len(b) : s[j] = b[j]
  BY DEF Starts
<1>4. ASSUME NEW j \in 1 .. Len(b) PROVE (s \o t)[j] = b[j]
  <2>1. j \in 1 .. Len(s) + Len(t) /\ j <= Len(s)
    BY <1>1, <1>3
  <2> QED
    BY <1>2, <1>3, <2>1
<1>5. Len(b) <= Len(s \o t)
  BY <1>1, <1>2, <1>3
<1> QED
  BY <1>4, <1>5 DEF Starts

\* The steps on either side of a cut are in the pieces.
LEMMA OtherPieces ==
  ASSUME NEW p \in Plan, NEW i \in 1 .. Len(p), NEW a \in 1 .. Len(p)
  PROVE  /\ a < i => Holds(Before(p, i), p[a])
         /\ a > i => Holds(After(p, i), p[a])
<1>1. Len(p) \in Nat /\ \A j \in 1 .. Len(p) : p[j] \in Step
  BY PlanShape
<1>2. ASSUME a < i PROVE Holds(Before(p, i), p[a])
  <2>1. /\ Before(p, i) \in Seq(Step) /\ Len(Before(p, i)) = i - 1
        /\ \A j \in 1 .. i - 1 : Before(p, i)[j] = p[j]
    BY Pieces
  <2>2. DOMAIN Before(p, i) = 1 .. i - 1
    BY <2>1, LenProperties
  <2>3. a \in 1 .. i - 1
    BY <1>1, <1>2
  <2> QED
    BY <2>1, <2>2, <2>3 DEF Holds
<1>3. ASSUME a > i PROVE Holds(After(p, i), p[a])
  <2>1. \A j \in i + 1 .. Len(p) : p[j] \in Step
    BY <1>1
  <2>2. /\ SubSeq(p, i + 1, Len(p)) \in Seq(Step)
        /\ Len(SubSeq(p, i + 1, Len(p))) = IF i + 1 <= Len(p) THEN Len(p) - (i + 1) + 1 ELSE 0
        /\ \A j \in 1 .. Len(p) - (i + 1) + 1 : SubSeq(p, i + 1, Len(p))[j] = p[i + 1 + j - 1]
    BY <1>1, <2>1, SubSeqProperties
  <2>3. /\ a - i \in 1 .. Len(p) - (i + 1) + 1
        /\ i + 1 <= Len(p)
        /\ i + 1 + (a - i) - 1 = a
    BY <1>1, <1>3
  <2>4. DOMAIN SubSeq(p, i + 1, Len(p)) = 1 .. Len(p) - (i + 1) + 1
    BY <2>2, <2>3, LenProperties
  <2>5. SubSeq(p, i + 1, Len(p))[a - i] = p[a]
    BY <2>2, <2>3
  <2> QED
    BY <2>3, <2>4, <2>5 DEF Holds, After
<1> QED
  BY <1>2, <1>3

\* The three ways to put a patch into a plan: each starts with the steps before
\* the one it names and holds the steps of the patch and those not affected.
LEMMA PatchKeeps ==
  ASSUME NEW p \in Plan, NEW patch \in Patch, Has(p, patch.stepId)
  PROVE  /\ Starts(PatchedPlan(p, patch), Before(p, FirstIndex(p, patch.stepId)))
         /\ \A b \in DOMAIN patch.steps : Holds(PatchedPlan(p, patch), patch.steps[b])
         /\ \A a \in DOMAIN p \ AffectedIndexes(p, patch) : Holds(PatchedPlan(p, patch), p[a])
<1> DEFINE i == FirstIndex(p, patch.stepId)
           B == Before(p, i)
           A == After(p, i)
           s == patch.steps
           q == PatchedPlan(p, patch)
<1>1. /\ Len(p) \in Nat /\ DOMAIN p = 1 .. Len(p)
      /\ i \in 1 .. Len(p) /\ p[i] \in Step
  BY PlanShape, FirstIndexFound
<1>2. \/ patch.operation = "insert_after" /\ q = B \o <<p[i]>> \o s \o A
      \/ patch.operation = "replace_step" /\ q = B \o s \o A
      \/ patch.operation = "replace_remaining_steps" /\ q = B \o s
  BY DEF PatchedPlan, Patch
<1>3. s \in Seq(Step)
  BY PlansAssumption DEF Patch, Plan
<1>4. AffectedIndexes(p, patch) =
        IF patch.operation = "insert_after" THEN {}
        ELSE IF patch.operation = "replace_step" THEN {i} ELSE i .. Len(p)
  BY DEF AffectedIndexes, Patch
<1> HIDE DEF i, s
<1>5. B \in Seq(Step) /\ A \in Seq(Step) /\ <<p[i]>> \in Seq(Step)
  BY <1>1, Pieces
<1>6. Starts(B, B)
  BY <1>5, LenProperties DEF Starts
<1>7. /\ \A a \in 1 .. Len(p) : a < i => Holds(B, p[a])
      /\ \A a \in 1 .. Len(p) : a > i => Holds(A, p[a])
  BY <1>1, OtherPieces
<1>8. Holds(<<p[i]>>, p[i])
  BY <1>1 DEF Holds
<1>9. \A b \in DOMAIN s : Holds(s, s[b])
  BY DEF Holds
<1> HIDE DEF B, A, q
<1>10. /\ B \o <<p[i]>> \in Seq(Step) /\ B \o s \in Seq(Step)
       /\ B \o <<p[i]>> \o s \in Seq(Step)
  BY <1>3, <1>5, ConcatProperties
<1>11. CASE patch.operation = "insert_after" /\ q = B \o <<p[i]>> \o s \o A
  <2>1. Starts(q, B)
    BY <1>3, <1>5, <1>6, <1>10, <1>11, JoinStarts
  <2>2. \A b \in DOMAIN s : Holds(q, s[b])
    BY <1>3, <1>5, <1>9, <1>10, <1>11, JoinHolds
  <2>3. ASSUME NEW a \in 1 .. Len(p) PROVE Holds(q, p[a])
    <3>1. Holds(B, p[a]) \/ Holds(<<p[i]>>, p[a]) \/ Holds(A, p[a])
      BY <1>1, <1>7, <1>8
    <3> QED
      BY <1>3, <1>5, <1>10, <1>11, <3>1, JoinHolds
  <2> QED
    BY <1>1, <2>1, <2>2, <2>3 DEF i, s, q, B
<1>12. CASE patch.operation = "replace_step" /\ q = B \o s \o A
  <2>1. Starts(q, B)
    BY <1>3, <1>5, <1>6, <1>10, <1>12, JoinStarts
  <2>2. \A b \in DOMAIN s : Holds(q, s[b])
    BY <1>3, <1>5, <1>9, <1>10, <1>12, JoinHolds
  <2>3. ASSUME NEW a \in 1 .. Len(p), a # i PROVE Holds(q, p[a])
    <3>1. Holds(B, p[a]) \/ Holds(A, p[a])
      BY <1>1, <1>7, <2>3
    <3> QED
      BY <1>3, <1>5, <1>10, <1>12, <3>1, JoinHolds
  <2>4. \A a \in DOMAIN p \ AffectedIndexes(p, patch) : Holds(q, p[a])
    BY <1>1, <1>4, <1>12, <2>3
  <2> QED
    BY <2>1, <2>2, <2>4 DEF i, s, q, B
<1>13. CASE patch.operation = "replace_remaining_steps" /\ q = B \o s
  <2>1. Starts(q, B)
    BY <1>3, <1>5, <1>6, <1>13, JoinStarts
  <2>2. \A b \in DOMAIN s : Holds(q, s[b])
    BY <1>3, <1>5, <1>9, <1>13, JoinHolds
  <2>3. ASSUME NEW a \in 1 .. Len(p), a \notin i .. Len(p) PROVE Holds(q, p[a])
    <3>1. Holds(B, p[a])
      BY <1>1, <1>7, <2>3
    <3> QED
      BY <1>3, <1>5, <1>13, <3>1, JoinHolds
  <2>4. \A a \in DOMAIN p \ AffectedIndexes(p, patch) : Holds(q, p[a])
    BY <1>1, <1>4, <1>13, <2>3
  <2> QED
    BY <2>1, <2>2, <2>4 DEF i, s, q, B
<1> QED
  BY <1>2, <1>11, <1>12, <1>13

\* assertPatchSafety does what it is for: whatever the patch, each step of the
\* plan is still matched by one with at least as many business assertions.
LEMMA AssertionsSurvive ==
  ASSUME NEW p \in Plan, NEW patch \in Patch, Has(p, patch.stepId), SafePatch(p, patch),
         NEW a \in DOMAIN p
  PROVE  \E b \in DOMAIN PatchedPlan(p, patch) : PatchedPlan(p, patch)[b].asserts >= p[a].asserts
<1> DEFINE q == PatchedPlan(p, patch)
<1>1. p[a] \in Step /\ p[a].asserts \in Nat
  BY PlanShape DEF Step
<1>2. q \in Plan
  BY PatchedPlanIsPlan
<1>3. /\ \A b \in DOMAIN patch.steps : Holds(q, patch.steps[b])
      /\ \A c \in DOMAIN p \ AffectedIndexes(p, patch) : Holds(q, p[c])
  BY PatchKeeps
<1>4. p[a].asserts > 0 /\ a \in AffectedIndexes(p, patch) =>
          \E b \in DOMAIN patch.steps : patch.steps[b].asserts >= p[a].asserts
  BY DEF SafePatch
<1> HIDE DEF q
<1>5. CASE a \notin AffectedIndexes(p, patch)
  <2>1. PICK b \in DOMAIN q : q[b] = p[a]
    BY <1>3, <1>5 DEF Holds
  <2>2. q[b].asserts >= p[a].asserts
    BY <1>1, <2>1
  <2> QED
    BY <2>2 DEF q
<1>6. CASE p[a].asserts > 0 /\ a \in AffectedIndexes(p, patch)
  <2>1. PICK c \in DOMAIN patch.steps : patch.steps[c].asserts >= p[a].asserts
    BY <1>4, <1>6
  <2>2. PICK b \in DOMAIN q : q[b] = patch.steps[c]
    BY <1>3 DEF Holds
  <2> QED
    BY <2>1, <2>2 DEF q
<1>7. CASE p[a].asserts = 0
  <2>1. 1 \in DOMAIN q /\ q[1] \in Step
    BY <1>2, PlanShape
  <2>2. q[1].asserts >= p[a].asserts
    BY <1>7, <2>1 DEF Step
  <2> QED
    BY <2>1, <2>2 DEF q
<1> QED
  BY <1>1, <1>5, <1>6, <1>7

\* A patch leaves the steps before the one it names as they are.
LEMMA PrefixSurvives ==
  ASSUME NEW p \in Plan, NEW patch \in Patch, Has(p, patch.stepId),
         NEW i, i = FirstIndex(p, patch.stepId)
  PROVE  /\ Before(PatchedPlan(p, patch), i) = Before(p, i)
         /\ i - 1 <= Len(PatchedPlan(p, patch))
         /\ \A j \in 1 .. i - 1 : PatchedPlan(p, patch)[j] = p[j]
<1> DEFINE q == PatchedPlan(p, patch)
<1>1. i \in 1 .. Len(p) /\ Len(p) \in Nat
  BY FirstIndexFound, PlanShape
<1>2. q \in Plan /\ Starts(q, Before(p, i))
  BY PatchedPlanIsPlan, PatchKeeps
<1>3. /\ Before(p, i) \in Seq(Step) /\ Len(Before(p, i)) = i - 1
      /\ \A j \in 1 .. i - 1 : Before(p, i)[j] = p[j]
  BY <1>1, Pieces
<1> HIDE DEF q
<1>4. i - 1 <= Len(q) /\ \A j \in 1 .. i - 1 : q[j] = p[j]
  BY <1>2, <1>3 DEF Starts
<1>5. Len(q) \in Nat /\ \A j \in 1 .. Len(q) : q[j] \in Step
  BY <1>2, PlanShape
<1>6. /\ SubSeq(q, 1, i - 1) \in Seq(Step)
      /\ Len(SubSeq(q, 1, i - 1)) = IF 1 <= i - 1 THEN i - 1 - 1 + 1 ELSE 0
      /\ \A j \in 1 .. i - 1 - 1 + 1 : SubSeq(q, 1, i - 1)[j] = q[1 + j - 1]
  <2>1. \A j \in 1 .. i - 1 : q[j] \in Step
    BY <1>1, <1>4, <1>5
  <2> QED
    BY <1>1, <1>5, <2>1, SubSeqProperties
<1>7. Len(SubSeq(q, 1, i - 1)) = i - 1
  BY <1>1, <1>6
<1>8. \A j \in 1 .. i - 1 : SubSeq(q, 1, i - 1)[j] = Before(p, i)[j]
  BY <1>1, <1>3, <1>4, <1>6
<1>9. SubSeq(q, 1, i - 1) = Before(p, i)
  BY <1>3, <1>6, <1>7, <1>8, SeqEqual
<1> QED
  BY <1>4, <1>9 DEF q, Before

\* In a plan without duplicate ids findIndex finds the very step.
LEMMA FirstIndexUnique ==
  ASSUME NEW p \in Plan, UniqueIds(p), NEW i \in 1 .. Len(p)
  PROVE  FirstIndex(p, p[i].id) = i
<1>1. Has(p, p[i].id)
  BY PlanShape DEF Has
<1> QED
  BY <1>1, FirstIndexFound, PlanShape DEF UniqueIds

\* What keeps the executed part of a plan: a provider that patches the step that
\* failed and hands out new ids, and plans that start with different ids.
PatchesTheFailedStep == ~AnyTarget /\ \A p \in InitialPlans : UniqueIds(p)

\* A replan for step i by such a provider.
LEMMA ReplanKeepsPrefix ==
  ASSUME PatchesTheFailedStep, NEW p \in Plan, UniqueIds(p), NEW i \in 1 .. Len(p),
         NEW q \in Replans(p, p[i])
  PROVE  /\ UniqueIds(q)
         /\ Before(q, i) = Before(p, i)
         /\ i - 1 <= Len(q)
         /\ \A j \in 1 .. i - 1 : q[j] = p[j]
<1>1. PICK patch \in Patch :
        /\ Has(p, patch.stepId)
        /\ patch.stepId = p[i].id
        /\ UniqueIds(q)
        /\ q = PatchedPlan(p, patch)
  BY DEF Replans, Proposed, PatchesTheFailedStep
<1>2. i = FirstIndex(p, patch.stepId)
  BY <1>1, FirstIndexUnique
<1> QED
  BY <1>1, <1>2, PrefixSurvives

\* A replan by any provider.
LEMMA ReplanKeepsAssertions ==
  ASSUME NEW p \in Plan, NEW failed, NEW q \in Replans(p, failed), NEW a \in DOMAIN p
  PROVE  \E b \in DOMAIN q : q[b].asserts >= p[a].asserts
<1>1. PICK patch \in Patch : Has(p, patch.stepId) /\ SafePatch(p, patch) /\ q = PatchedPlan(p, patch)
  BY DEF Replans, Proposed
<1> QED
  BY <1>1, AssertionsSurvive

---------------------------------------------------------------------------
(* Numbers, finite sets and what is at some places of a sequence.           *)

\* The least number of a set, and a number that is no less than finitely many.
LEMMA MinIsThere ==
  ASSUME NEW T \in SUBSET Nat, T # {}
  PROVE  Min(T) \in T
<1>1. PICK m \in T : \A n \in T : m <= n
  BY Least
<1> QED BY <1>1 DEF Min

LEMMA FinitelyManyAreBounded ==
  ASSUME NEW N \in Nat, NEW f \in [1 .. N -> Nat]
  PROVE  \E b \in Nat : \A i \in 1 .. N : f[i] <= b
<1> DEFINE Bounded(n) == \E b \in Nat : \A i \in 1 .. n : f[i] <= b
           T == {n \in 0 .. N : ~Bounded(n)}
<1>1. N \in 0 .. N
  OBVIOUS
<1>2. Bounded(0)
  <2>1. 0 \in Nat /\ 1 .. 0 = {}
    OBVIOUS
  <2> QED BY <2>1
<1>3. \A n \in 0 .. N : n \in T <=> ~Bounded(n)
  OBVIOUS
<1> SUFFICES ASSUME ~Bounded(N) PROVE FALSE
  OBVIOUS
<1> HIDE DEF Bounded
<1>4. T # {} /\ T \in SUBSET Nat /\ T \subseteq 0 .. N
  BY <1>1
<1> HIDE DEF T
<1>5. PICK n \in T : \A k \in T : n <= k
  BY <1>4, Least
<1>6. n # 0
  BY <1>2, <1>3, <1>4
<1>7. n - 1 \in 0 .. N /\ n \in 1 .. N
  BY <1>4, <1>6
<1>8. ~(n - 1 \in T)
  BY <1>5, <1>7
<1>9. PICK b \in Nat : \A i \in 1 .. n - 1 : f[i] <= b
  BY <1>3, <1>8, <1>7 DEF Bounded
<1>10. Bounded(n)
  <2>1. f[n] \in Nat
    BY <1>7
  <2>2. CASE f[n] <= b
    <3>1. \A i \in 1 .. n : i \in 1 .. n - 1 \/ i = n
      BY <1>7
    <3> QED BY <1>9, <2>2, <3>1 DEF Bounded
  <2>3. CASE f[n] > b
    <3>1. \A i \in 1 .. n : (i \in 1 .. n - 1 /\ i \in 1 .. N) \/ i = n
      BY <1>7
    <3>2. \A i \in 1 .. n - 1 : i \in 1 .. N
      BY <1>7
    <3>3. \A i \in 1 .. n - 1 : f[i] \in Nat /\ f[i] <= f[n]
      BY <1>9, <2>1, <2>3, <3>2
    <3>4. \A i \in 1 .. n : f[i] <= f[n]
      BY <2>1, <3>1, <3>3
    <3> QED BY <2>1, <3>4 DEF Bounded
  <2> QED BY <2>1, <2>2, <2>3
<1> QED BY <1>5, <1>10, <1>3, <1>4

\* The largest number of a set is in it, and no other is larger.
LEMMA LargestIsThere ==
  ASSUME NEW S \in SUBSET Nat, IsFiniteSet(S), S # {}
  PROVE  Max(S) \in S /\ \A m \in S : m <= Max(S)
<1>1. Cardinality(S) \in Nat /\ ExistsBijection(1 .. Cardinality(S), S)
  BY FS_CardinalityType
<1>2. PICK f : f \in Bijection(1 .. Cardinality(S), S)
  BY <1>1 DEF ExistsBijection
<1>3. f \in [1 .. Cardinality(S) -> S] /\ \A s \in S : \E i \in 1 .. Cardinality(S) : f[i] = s
  BY <1>2 DEF Bijection, Surjection
<1>4. f \in [1 .. Cardinality(S) -> Nat]
  BY <1>3
<1>5. PICK b \in Nat : \A i \in 1 .. Cardinality(S) : f[i] <= b
  BY <1>1, <1>4, FinitelyManyAreBounded
<1>6. \A s \in S : s \in Nat /\ s <= b
  BY <1>3, <1>5
<1> DEFINE T == {d \in Nat : \E s \in S : d = b - s}
<1>7. T \in SUBSET Nat /\ T # {}
  <2>1. PICK s : s \in S
    OBVIOUS
  <2>2. b - s \in T
    BY <1>6, <2>1
  <2> QED BY <2>2
<1>8. PICK d \in T : \A e \in T : d <= e
  <2> HIDE DEF T
  <2> QED BY <1>7, Least
<1>9. PICK s \in S : d = b - s
  OBVIOUS
<1>10. \A m \in S : m <= s
  <2> TAKE m \in S
  <2>1. b - m \in T
    BY <1>6
  <2> QED BY <1>6, <1>8, <1>9, <2>1
<1> QED BY <1>9, <1>10 DEF Max

\* The first of some places, 0 when there is none (SelectInSeq).
LEMMA LeastIsChosen ==
  ASSUME NEW n \in Nat, NEW I \in SUBSET (1 .. n), (IF I # {} THEN Min(I) ELSE 0) # 0
  PROVE  (IF I # {} THEN Min(I) ELSE 0) \in I
<1>1. I # {} /\ I \in SUBSET Nat
  OBVIOUS
<1> QED BY <1>1, MinIsThere

LEMMA ImagesAreFinite ==
  ASSUME NEW S, IsFiniteSet(S), NEW g, g = [x \in S |-> g[x]]
  PROVE  IsFiniteSet({g[x] : x \in S})
<1> DEFINE T == {g[x] : x \in S}
<1>1. g \in Surjection(S, T)
  BY DEF Surjection
<1> HIDE DEF T
<1> QED BY <1>1, FS_Surjection DEF T

\* The largest of 0 and the values of a function.
LEMMA LargestValue ==
  ASSUME NEW S, IsFiniteSet(S), NEW g \in [S -> Nat]
  PROVE  /\ Max({0} \cup {g[x] : x \in S}) \in {0} \cup {g[x] : x \in S}
         /\ \A x \in S : g[x] <= Max({0} \cup {g[y] : y \in S})
<1> DEFINE T == {g[x] : x \in S}
<1>1. IsFiniteSet(T) /\ T \in SUBSET Nat
  BY ImagesAreFinite
<1> HIDE DEF T
<1>2. IsFiniteSet(T \cup {0})
  BY <1>1, FS_AddElement
<1>3. T \cup {0} = {0} \cup T /\ {0} \cup T \in SUBSET Nat /\ {0} \cup T # {}
  BY <1>1
<1>4. Max({0} \cup T) \in {0} \cup T /\ \A m \in {0} \cup T : m <= Max({0} \cup T)
  BY <1>2, <1>3, LargestIsThere
<1> QED BY <1>4 DEF T

\* The n-th of some places is one of them and has n of them up to it.
LEMMA NthIsThere ==
  ASSUME NEW m \in Nat, NEW places \in SUBSET (1 .. m), NEW n \in 1 .. Cardinality(places)
  PROVE  Nth(places, n) \in places /\ Cardinality({j \in places : j <= Nth(places, n)}) = n
<1> DEFINE UpTo(k) == {j \in places : j <= k}
           T == {k \in 0 .. m : Cardinality(UpTo(k)) >= n}
<1>1. IsFiniteSet(places) /\ Cardinality(places) \in Nat
  <2>1. IsFiniteSet(1 .. m)
    BY FS_Interval
  <2>2. IsFiniteSet(places)
    BY <2>1, FS_Subset
  <2> QED BY <2>2, FS_CardinalityType
<1>2. \A k : IsFiniteSet(UpTo(k)) /\ Cardinality(UpTo(k)) \in Nat
  <2> TAKE k
  <2>1. UpTo(k) \in SUBSET places
    OBVIOUS
  <2> HIDE DEF UpTo
  <2>2. IsFiniteSet(UpTo(k))
    BY <1>1, <2>1, FS_Subset
  <2> QED BY <2>2, FS_CardinalityType
<1>3. UpTo(m) = places /\ UpTo(0) = {}
  <2>1. \A j \in places : j \in Nat /\ j <= m /\ ~(j <= 0)
    OBVIOUS
  <2> QED BY <2>1
<1>4. m \in T /\ ~(0 \in T)
  <2>1. n \in Nat /\ n >= 1 /\ n <= Cardinality(places)
    BY <1>1
  <2>2. Cardinality(UpTo(0)) = 0
    BY <1>3, FS_EmptySet
  <2> HIDE DEF UpTo
  <2> QED BY <1>3, <2>1, <2>2
<1>5. PICK k \in T : \A e \in T : k <= e
  <2>1. \A e \in T : e \in 0 .. m
    OBVIOUS
  <2> HIDE DEF T
  <2>2. T # {} /\ T \in SUBSET Nat
    BY <1>4, <2>1
  <2> QED BY <2>2, Least
<1>6. k \in 1 .. m /\ k - 1 \in 0 .. m /\ ~(k - 1 \in T)
  <2>1. k \in 0 .. m /\ k # 0
    BY <1>4
  <2> HIDE DEF T
  <2> QED BY <1>5, <2>1
<1>7. /\ Cardinality(UpTo(k)) >= n
      /\ ~(Cardinality(UpTo(k - 1)) >= n)
  BY <1>6
<1>8. UpTo(k) = IF k \in places THEN UpTo(k - 1) \cup {k} ELSE UpTo(k - 1)
  <2>1. \A j \in places : j \in Nat /\ (j <= k <=> j <= k - 1 \/ j = k)
    BY <1>6
  <2> QED BY <2>1
<1>9. k \in places /\ k \notin UpTo(k - 1)
  <2>1. k \in places
    BY <1>7, <1>8
  <2> QED BY <1>6, <2>1
<1>10. Cardinality(UpTo(k)) = Cardinality(UpTo(k - 1)) + 1
  <2> HIDE DEF UpTo
  <2> QED BY <1>2, <1>8, <1>9, FS_AddElement
<1>11. Cardinality({j \in places : j <= k}) = n
  <2>1. n \in Nat
    BY <1>1
  <2>2. Cardinality(UpTo(k)) = n
    <3> HIDE DEF UpTo, T
    <3> QED BY <1>2, <1>7, <1>10, <2>1
  <2> QED BY <2>2
<1> HIDE DEF UpTo, T
<1> QED BY <1>9, <1>11 DEF Nth

\* What is at some places of a sequence is part of it.
LEMMA ThoseAreThere ==
  ASSUME NEW E, NEW s \in Seq(E), NEW places \in SUBSET DOMAIN s
  PROVE  /\ Those(s, places) \in Seq(E)
         /\ \A n \in DOMAIN Those(s, places) : \E i \in places : Those(s, places)[n] = s[i]
<1>1. DOMAIN s = 1 .. Len(s) /\ Len(s) \in Nat
  OBVIOUS
<1>2. IsFiniteSet(places) /\ Cardinality(places) \in Nat
  <2>1. IsFiniteSet(1 .. Len(s))
    BY <1>1, FS_Interval
  <2>2. IsFiniteSet(places)
    BY <1>1, <2>1, FS_Subset
  <2> QED BY <2>2, FS_CardinalityType
<1>3. \A n \in 1 .. Cardinality(places) : Nth(places, n) \in places
  BY <1>1, NthIsThere
<1>4. \A i \in places : s[i] \in E
  OBVIOUS
<1>5. PICK c \in Nat : c = Cardinality(places)
  BY <1>2
<1>6. Those(s, places) = [n \in 1 .. c |-> s[Nth(places, n)]]
  BY <1>5 DEF Those
<1>7. \A n \in 1 .. c : s[Nth(places, n)] \in E
  BY <1>3, <1>4, <1>5
<1>8. Those(s, places) \in Seq(E)
  BY <1>6, <1>7
<1> QED BY <1>3, <1>5, <1>6, <1>8

\* The part c of s has the elements at these places, each of them once.
ArePlaces(c, s, places) ==
  /\ Cardinality(places) \in Nat
  /\ DOMAIN c = 1 .. Cardinality(places)
  /\ \A n \in 1 .. Cardinality(places) : Nth(places, n) \in places /\ c[n] = s[Nth(places, n)]
  /\ \A n, k \in 1 .. Cardinality(places) : Nth(places, n) = Nth(places, k) => n = k

LEMMA PlacesOfThose ==
  ASSUME NEW m \in Nat, NEW s, NEW places \in SUBSET (1 .. m)
  PROVE  ArePlaces(Those(s, places), s, places)
<1>1. Cardinality(places) \in Nat
  <2>1. IsFiniteSet(1 .. m)
    BY FS_Interval
  <2>2. IsFiniteSet(places)
    BY <2>1, FS_Subset
  <2> QED BY <2>2, FS_CardinalityType
<1>2. \A n \in 1 .. Cardinality(places) :
        Nth(places, n) \in places /\ Cardinality({j \in places : j <= Nth(places, n)}) = n
  BY NthIsThere
<1>3. \A n, k \in 1 .. Cardinality(places) : Nth(places, n) = Nth(places, k) => n = k
  <2> TAKE n, k \in 1 .. Cardinality(places)
  <2> HAVE Nth(places, n) = Nth(places, k)
  <2>1. Cardinality({j \in places : j <= Nth(places, n)}) = n
    BY <1>2
  <2>2. Cardinality({j \in places : j <= Nth(places, k)}) = k
    BY <1>2
  <2> QED BY <2>1, <2>2
<1>4. Those(s, places) = [n \in 1 .. Cardinality(places) |-> s[Nth(places, n)]]
  BY DEF Those
<1> QED BY <1>1, <1>2, <1>3, <1>4 DEF ArePlaces

\* Of finitely many one has the largest value.
LEMMA OneIsLargest ==
  ASSUME NEW N \in Nat, NEW S \in SUBSET (1 .. N), S # {}, NEW f \in [1 .. N -> Nat]
  PROVE  \E i \in S : \A j \in S : f[j] <= f[i]
<1>1. PICK b \in Nat : \A i \in 1 .. N : f[i] <= b
  BY FinitelyManyAreBounded
<1> DEFINE T == {d \in Nat : \E i \in S : d = b - f[i]}
<1>2. \A i \in S : f[i] \in Nat /\ b - f[i] \in T
  BY <1>1
<1>3. \A d \in T : \E i \in S : d = b - f[i]
  OBVIOUS
<1>4. T \in SUBSET Nat /\ T # {}
  BY <1>2
<1> HIDE DEF T
<1>5. PICK d \in T : \A e \in T : d <= e
  BY <1>4, Least
<1>6. PICK i \in S : d = b - f[i]
  BY <1>3, <1>5
<1>7. \A j \in S : f[j] <= f[i]
  <2> TAKE j \in S
  <2>1. f[i] \in Nat /\ f[j] \in Nat /\ b - f[j] \in T
    BY <1>2
  <2>2. b - f[i] <= b - f[j]
    BY <1>5, <1>6, <2>1
  <2> QED BY <2>1, <2>2
<1> QED BY <1>7

\* Places for all, of which no two have the same, the better ones first.
Placed(p, good, f) ==
  /\ Cardinality(good) \in Nat
  /\ \A i \in good : p[i] \in 1 .. Cardinality(good)
  /\ \A n \in 1 .. Cardinality(good) : \E i \in good : p[i] = n
  /\ \A i, j \in good : p[i] = p[j] => i = j
  /\ \A i, j \in good : f[i] > f[j] => p[i] < p[j]

\* Such is to count those that are better, or as good and not after it.
LEMMA PlacesInARanking ==
  ASSUME NEW m \in Nat, NEW good \in SUBSET (1 .. m), NEW f \in [good -> Nat],
         NEW B, B = [i \in good |-> {j \in good : f[j] > f[i] \/ (f[j] = f[i] /\ j <= i)}],
         NEW p, p = [i \in good |-> Cardinality(B[i])]
  PROVE  Placed(p, good, f)
<1>1. IsFiniteSet(good) /\ Cardinality(good) \in Nat
  <2>1. IsFiniteSet(1 .. m)
    BY FS_Interval
  <2>2. IsFiniteSet(good)
    BY <2>1, FS_Subset
  <2> QED BY <2>2, FS_CardinalityType
<1>2. \A i \in good : B[i] \in SUBSET good /\ i \in B[i]
  OBVIOUS
<1>3. \A i \in good : /\ IsFiniteSet(B[i]) /\ Cardinality(B[i]) \in Nat
                      /\ Cardinality(B[i]) <= Cardinality(good) /\ Cardinality(B[i]) # 0
  <2> TAKE i \in good
  <2>1. IsFiniteSet(B[i]) /\ Cardinality(B[i]) <= Cardinality(good)
    BY <1>1, <1>2, FS_Subset
  <2>2. Cardinality(B[i]) \in Nat
    BY <2>1, FS_CardinalityType
  <2>3. Cardinality(B[i]) # 0
    BY <1>2, <2>1, FS_EmptySet
  <2> QED BY <2>1, <2>2, <2>3
<1>4. \A i \in good : p[i] = Cardinality(B[i]) /\ p[i] \in 1 .. Cardinality(good)
  BY <1>1, <1>3
<1>5. ASSUME NEW i \in good, NEW j \in good, f[i] > f[j] \/ (f[i] = f[j] /\ i < j)
      PROVE  p[i] < p[j]
  <2>1. B[i] \in SUBSET B[j]
    <3>1. i \in Nat /\ j \in Nat /\ f[i] \in Nat /\ f[j] \in Nat
      OBVIOUS
    <3> SUFFICES ASSUME NEW k \in B[i] PROVE k \in B[j]
      OBVIOUS
    <3>2. k \in good /\ k \in Nat /\ f[k] \in Nat /\ (f[k] > f[i] \/ (f[k] = f[i] /\ k <= i))
      OBVIOUS
    <3>3. f[k] > f[j] \/ (f[k] = f[j] /\ k <= j)
      BY <1>5, <3>1, <3>2
    <3> QED BY <3>2, <3>3
  <2>2. j \in B[j] /\ j \notin B[i]
    <3>1. i \in Nat /\ j \in Nat /\ f[i] \in Nat /\ f[j] \in Nat
      OBVIOUS
    <3>2. ~(f[j] > f[i] \/ (f[j] = f[i] /\ j <= i))
      BY <1>5, <3>1
    <3> QED BY <1>2, <3>2
  <2>3. IsFiniteSet(B[j]) /\ Cardinality(B[i]) \in Nat /\ Cardinality(B[j]) \in Nat
    BY <1>3
  <2>4. Cardinality(B[i]) <= Cardinality(B[j]) /\ (Cardinality(B[j]) = Cardinality(B[i]) => B[j] = B[i])
    BY <2>1, <2>3, FS_Subset
  <2>5. Cardinality(B[i]) # Cardinality(B[j])
    BY <2>2, <2>4
  <2>6. Cardinality(B[i]) < Cardinality(B[j])
    BY <2>3, <2>4, <2>5
  <2> QED BY <1>4, <2>6
<1>6. \A i, j \in good : p[i] = p[j] => i = j
  <2> TAKE i, j \in good
  <2>1. p[i] \in Nat /\ p[j] \in Nat
    BY <1>3, <1>4
  <2>2. CASE i # j
    <3>1. i \in Nat /\ j \in Nat /\ f[i] \in Nat /\ f[j] \in Nat
      OBVIOUS
    <3>2. (f[i] > f[j] \/ (f[i] = f[j] /\ i < j)) \/ (f[j] > f[i] \/ (f[j] = f[i] /\ j < i))
      BY <2>2, <3>1
    <3>3. p[i] < p[j] \/ p[j] < p[i]
      BY <1>5, <3>2
    <3> QED BY <2>1, <3>3
  <2> QED BY <2>2
<1>7. p \in Surjection(good, 1 .. Cardinality(good))
  <2>1. p \in Injection(good, 1 .. Cardinality(good))
    BY <1>4, <1>6 DEF Injection, IsInjective
  <2>2. IsFiniteSet(1 .. Cardinality(good)) /\ Cardinality(1 .. Cardinality(good)) = Cardinality(good)
    BY <1>1, FS_Interval
  <2> QED BY <2>1, <2>2, FS_Injection
<1>8. \A n \in 1 .. Cardinality(good) : \E i \in good : p[i] = n
  BY <1>7 DEF Surjection
<1> QED BY <1>1, <1>4, <1>5, <1>6, <1>8 DEF Placed
----------------------------------------------------------------------------
(* More about parts of sequences.                                         *)

\* The part c of s has what is at these places, in order.
Keeps(c, s, places) ==
  /\ Len(c) \in Nat /\ DOMAIN c = 1 .. Len(c)
  /\ \E at \in [1 .. Len(c) -> places] :
       /\ \A n \in 1 .. Len(c) : c[n] = s[at[n]]
       /\ \A i \in places : \E n \in 1 .. Len(c) : at[n] = i
       /\ \A n, k \in 1 .. Len(c) : n < k => at[n] < at[k]

LEMMA ThoseAreKept ==
  ASSUME NEW E, NEW s \in Seq(E), NEW places \in SUBSET DOMAIN s
  PROVE  Those(s, places) \in Seq(E) /\ Keeps(Those(s, places), s, places)
<1>1. DOMAIN s = 1 .. Len(s) /\ Len(s) \in Nat
  OBVIOUS
<1>2. Those(s, places) \in Seq(E)
  BY ThoseAreThere
<1>3. ArePlaces(Those(s, places), s, places)
  BY <1>1, PlacesOfThose
<1> DEFINE UpTo(i) == {j \in places : j <= i}
<1>4. PICK c \in Seq(E) : c = Those(s, places)
  BY <1>2
<1>41. PICK m \in Nat : m = Cardinality(places)
  BY <1>3 DEF ArePlaces
<1>5. c \in Seq(E) /\ DOMAIN c = 1 .. m
  BY <1>3, <1>4, <1>41 DEF ArePlaces
<1>6. Len(c) = m
  <2>1. Len(c) \in Nat /\ DOMAIN c = 1 .. Len(c)
    BY <1>5
  <2> QED BY <1>5, <2>1
<1>7. \A n \in 1 .. m : Nth(places, n) \in places /\ c[n] = s[Nth(places, n)]
  BY <1>3, <1>4, <1>41 DEF ArePlaces
<1>8. \A n \in 1 .. m : Cardinality(UpTo(Nth(places, n))) = n
  BY <1>1, <1>41, NthIsThere
<1>9. IsFiniteSet(places)
  <2>1. IsFiniteSet(1 .. Len(s))
    BY <1>1, FS_Interval
  <2> QED BY <1>1, <2>1, FS_Subset
<1>10. \A i, j \in places : i < j => /\ Cardinality(UpTo(i)) < Cardinality(UpTo(j))
                                     /\ Cardinality(UpTo(i)) \in Nat
  <2> TAKE i, j \in places
  <2> HAVE i < j
  <2>1. UpTo(i) \in SUBSET UpTo(j) /\ UpTo(j) \in SUBSET places /\ j \in UpTo(j) /\ j \notin UpTo(i)
    BY <1>1
  <2> HIDE DEF UpTo
  <2>2. IsFiniteSet(UpTo(j)) /\ IsFiniteSet(UpTo(i))
    BY <2>1, <1>9, FS_Subset
  <2>3. Cardinality(UpTo(i)) <= Cardinality(UpTo(j)) /\ Cardinality(UpTo(i)) # Cardinality(UpTo(j))
    BY <2>1, <2>2, FS_Subset
  <2>4. Cardinality(UpTo(i)) \in Nat /\ Cardinality(UpTo(j)) \in Nat
    BY <2>2, FS_CardinalityType
  <2> QED BY <2>3, <2>4
<1>11. \A i \in places : Cardinality(UpTo(i)) \in 1 .. m
  <2> TAKE i \in places
  <2>1. UpTo(i) \in SUBSET places /\ i \in UpTo(i)
    BY <1>1
  <2> HIDE DEF UpTo
  <2>2. IsFiniteSet(UpTo(i)) /\ Cardinality(UpTo(i)) <= m
    BY <1>41, <1>9, <2>1, FS_Subset
  <2>3. Cardinality(UpTo(i)) \in Nat /\ Cardinality(UpTo(i)) # 0
    BY <2>1, <2>2, FS_CardinalityType, FS_EmptySet
  <2> QED BY <2>2, <2>3
<1> DEFINE at == [n \in 1 .. m |-> Nth(places, n)]
<1>12. at \in [1 .. m -> places]
  BY <1>7
<1>13. \A n, k \in 1 .. m : n < k => at[n] < at[k]
  <2> TAKE n, k \in 1 .. m
  <2> HAVE n < k
  <2>1. at[n] \in places /\ at[k] \in places /\ at[n] \in Nat /\ at[k] \in Nat
    BY <1>1, <1>12
  <2>2. Cardinality(UpTo(at[n])) = n /\ Cardinality(UpTo(at[k])) = k
    BY <1>8
  <2> HIDE DEF UpTo, at
  <2>3. ~(at[k] < at[n]) /\ at[n] # at[k]
    BY <1>10, <2>1, <2>2
  <2> QED BY <2>1, <2>3
<1>14. \A i \in places : \E n \in 1 .. m : at[n] = i
  <2> TAKE i \in places
  <2>1. PICK n \in 1 .. m : n = Cardinality(UpTo(i))
    BY <1>11
  <2>2. at[n] \in places /\ Cardinality(UpTo(at[n])) = n
    BY <1>8, <1>12
  <2>3. i \in Nat /\ at[n] \in Nat
    BY <1>1, <2>2
  <2> HIDE DEF UpTo, at
  <2>4. ~(i < at[n]) /\ ~(at[n] < i)
    BY <1>10, <2>1, <2>2
  <2> QED BY <2>3, <2>4
<1>15. \A n \in 1 .. m : c[n] = s[at[n]]
  BY <1>7
<1> HIDE DEF at
<1> QED BY <1>4, <1>5, <1>6, <1>12, <1>13, <1>14, <1>15 DEF Keeps



\* Each of the part is there, and what is at the places is in the part.
PartOf(c, plan, places) ==
  /\ \A n \in 1 .. Len(c) : \E i \in places : i \in 1 .. Len(plan) /\ c[n] = plan[i]
  /\ \A i \in places : \E n \in 1 .. Len(c) : c[n] = plan[i]

LEMMA PartIsThere ==
  ASSUME NEW plan, NEW places, NEW c, Keeps(c, plan, places), places \subseteq 1 .. Len(plan)
  PROVE  PartOf(c, plan, places)
<1>1. PICK at \in [1 .. Len(c) -> places] :
        /\ \A n \in 1 .. Len(c) : c[n] = plan[at[n]]
        /\ \A i \in places : \E n \in 1 .. Len(c) : at[n] = i
  BY DEF Keeps
<1>2. \A n \in 1 .. Len(c) : at[n] \in places /\ at[n] \in 1 .. Len(plan)
  OBVIOUS
<1>3. \A n \in 1 .. Len(c) : \E i \in places : i \in 1 .. Len(plan) /\ c[n] = plan[i]
  BY <1>1, <1>2
<1>4. ASSUME NEW i \in places PROVE \E n \in 1 .. Len(c) : c[n] = plan[i]
  <2>1. PICK n \in 1 .. Len(c) : at[n] = i
    BY <1>1
  <2> QED BY <1>1, <2>1
<1> QED BY <1>3, <1>4 DEF PartOf

\* Together the first m of these sequences make flat: what is there is in one of
\* them, after what comes before it there.
Joins(flat, seqs, m) ==
  /\ \A n \in 1 .. Len(flat) : \E s \in 1 .. m : \E i \in 1 .. Len(seqs[s]) :
       /\ flat[n] = seqs[s][i]
       /\ \A j \in 1 .. i - 1 : \E k \in 1 .. n - 1 : flat[k] = seqs[s][j]
  /\ \A s \in 1 .. m : \A i \in 1 .. Len(seqs[s]) : \E n \in 1 .. Len(flat) : flat[n] = seqs[s][i]

LEMMA JoinsOne ==
  ASSUME NEW E, NEW seqs \in Seq(Seq(E)), NEW m \in 1 .. Len(seqs), NEW flat \in Seq(E),
         Joins(flat, seqs, m - 1)
  PROVE  Joins(flat \o seqs[m], seqs, m)
<1>0. seqs[m] \in Seq(E)
  OBVIOUS
<1>1. PICK new \in Seq(E) : new = seqs[m]
  BY <1>0
<1>20. flat \o new \in Seq(E)
  BY <1>1, ConcatProperties
<1>2. PICK all \in Seq(E) : all = flat \o new
  BY <1>20
<1>3. Len(all) = Len(flat) + Len(new) /\ Len(flat) \in Nat /\ Len(new) \in Nat
  BY <1>2
<1>4. \A n \in 1 .. Len(flat) : n \in 1 .. Len(all) /\ all[n] = flat[n]
  BY <1>2, <1>3
<1>5. \A i \in 1 .. Len(new) : Len(flat) + i \in 1 .. Len(all) /\ all[Len(flat) + i] = new[i]
  <2> TAKE i \in 1 .. Len(new)
  <2>1. Len(flat) + i \in 1 .. Len(all) /\ Len(flat) + i > Len(flat) /\ Len(flat) + i - Len(flat) = i
    BY <1>3
  <2> QED BY <1>2, <2>1
<1>6. ASSUME NEW n \in 1 .. Len(all)
      PROVE  \E s \in 1 .. m : \E i \in 1 .. Len(seqs[s]) :
               /\ all[n] = seqs[s][i]
               /\ \A j \in 1 .. i - 1 : \E k \in 1 .. n - 1 : all[k] = seqs[s][j]
  <2>1. CASE n <= Len(flat)
    <3>1. n \in 1 .. Len(flat)
      BY <1>3, <2>1
    <3>2. PICK s \in 1 .. m - 1 : \E i \in 1 .. Len(seqs[s]) :
               /\ flat[n] = seqs[s][i]
               /\ \A j \in 1 .. i - 1 : \E k \in 1 .. n - 1 : flat[k] = seqs[s][j]
      BY <3>1 DEF Joins
    <3>3. PICK i \in 1 .. Len(seqs[s]) :
               /\ flat[n] = seqs[s][i]
               /\ \A j \in 1 .. i - 1 : \E k \in 1 .. n - 1 : flat[k] = seqs[s][j]
      BY <3>2
    <3>4. ASSUME NEW j \in 1 .. i - 1 PROVE \E k \in 1 .. n - 1 : all[k] = seqs[s][j]
      <4>1. PICK k \in 1 .. n - 1 : flat[k] = seqs[s][j]
        BY <3>3
      <4>2. k \in 1 .. Len(flat)
        BY <3>1, <1>3
      <4> QED BY <1>4, <4>1, <4>2
    <3>5. s \in 1 .. m
      OBVIOUS
    <3>6. all[n] = seqs[s][i]
      BY <1>4, <3>1, <3>3
    <3> QED BY <3>4, <3>5, <3>6
  <2>2. CASE n > Len(flat)
    <3>1. PICK i \in 1 .. Len(new) : n = Len(flat) + i
      <4>1. n - Len(flat) \in 1 .. Len(new) /\ n = Len(flat) + (n - Len(flat))
        BY <1>3, <2>2
      <4> QED BY <4>1
    <3>2. ASSUME NEW j \in 1 .. i - 1 PROVE \E k \in 1 .. n - 1 : all[k] = seqs[m][j]
      <4>1. j \in 1 .. Len(new) /\ Len(flat) + j \in 1 .. n - 1
        BY <1>3, <3>1
      <4>2. all[Len(flat) + j] = seqs[m][j]
        BY <1>1, <1>5, <4>1
      <4> QED BY <4>1, <4>2
    <3>3. m \in 1 .. m /\ i \in 1 .. Len(seqs[m]) /\ all[n] = seqs[m][i]
      BY <1>1, <1>5, <3>1
    <3> QED BY <3>2, <3>3
  <2> QED BY <1>3, <2>1, <2>2
<1>7. ASSUME NEW s \in 1 .. m, NEW i \in 1 .. Len(seqs[s])
      PROVE  \E n \in 1 .. Len(all) : all[n] = seqs[s][i]
  <2>1. CASE s = m
    <3>1. i \in 1 .. Len(new) /\ seqs[s][i] = new[i]
      BY <1>1, <2>1
    <3> QED BY <1>5, <3>1
  <2>2. CASE s # m
    <3>1. s \in 1 .. m - 1
      BY <2>2
    <3>2. PICK n \in 1 .. Len(flat) : flat[n] = seqs[s][i]
      BY <3>1 DEF Joins
    <3> QED BY <1>4, <3>2
  <2> QED BY <2>1, <2>2
<1>8. Joins(all, seqs, m)
  BY <1>6, <1>7 DEF Joins
<1> QED BY <1>1, <1>2, <1>8

LEMMA FlattenJoins ==
  ASSUME NEW E, NEW seqs \in Seq(Seq(E))
  PROVE  FlattenSeq(seqs) \in Seq(E) /\ Joins(FlattenSeq(seqs), seqs, Len(seqs))
<1> DEFINE Rule(f, n) == f = [i \in 1 .. n |-> IF i = 1 THEN seqs[i] ELSE f[i - 1] \o seqs[i]]
           Exists(n) == \E f \in [1 .. n -> Seq(E)] : Rule(f, n)
<1>1. Exists(0)
  <2> DEFINE f == [i \in 1..0 |-> <<>>]
  <2>1. f \in [1..0 -> Seq(E)] /\ Rule(f, 0)
    OBVIOUS
  <2> QED BY <2>1
<1>2. ASSUME NEW n \in 0..Len(seqs), n + 1 <= Len(seqs), Exists(n)  PROVE Exists(n + 1)
  <2>1. PICK f \in [1..n -> Seq(E)] : Rule(f, n)
    BY <1>2
  <2> DEFINE g == [i \in 1..(n + 1) |-> IF i <= n THEN f[i] ELSE
                                          IF i = 1 THEN seqs[i] ELSE f[i-1] \o seqs[i]]
  <2>2. g \in [1..(n + 1) -> Seq(E)]
    <3>1. \A i \in 1..(n + 1) : seqs[i] \in Seq(E)
      BY <1>2
    <3> QED BY <3>1
  <2>3. ASSUME NEW i \in 1..(n + 1)
        PROVE  g[i] = IF i = 1 THEN seqs[i] ELSE g[i-1] \o seqs[i]
    <3>1. CASE i <= n
      <4> DEFINE h == [k \in 1..n |-> IF k = 1 THEN seqs[k] ELSE f[k-1] \o seqs[k]]
      <4>0. f = h
        BY <2>1
      <4>1. h[i] = IF i = 1 THEN seqs[i] ELSE f[i-1] \o seqs[i]
        BY <3>1
      <4>2. i # 1 => g[i-1] = f[i-1]
        BY <3>1
      <4>3. g[i] = f[i]
        BY <3>1
      <4> HIDE DEF g, h
      <4> QED BY <4>0, <4>1, <4>2, <4>3
    <3>2. CASE i = n + 1
      BY <3>2
    <3> QED BY <3>1, <3>2
  <2>4. Rule(g, n + 1)
    BY <2>3
  <2> QED BY <2>2, <2>4
<1>3. Exists(Len(seqs))
  <2> HIDE DEF Exists
  <2> DEFINE Wrong == {n \in 0..Len(seqs) : ~Exists(n)}
  <2> SUFFICES ASSUME Wrong # {} PROVE FALSE
    OBVIOUS
  <2>1. PICK m \in Wrong : \A k \in Wrong : m <= k
    <3>1. Wrong \subseteq Nat
      OBVIOUS
    <3> HIDE DEF Wrong
    <3> QED BY <3>1, Least
  <2>2. m # 0 /\ m - 1 \in 0..Len(seqs) /\ m - 1 \notin Wrong
    BY <1>1, <2>1
  <2> QED BY <1>2, <2>2
<1>4. CASE Len(seqs) = 0
  <2>1. FlattenSeq(seqs) = <<>>
    BY <1>4 DEF FlattenSeq
  <2>2. Joins(<<>>, seqs, 0) /\ <<>> \in Seq(E)
    BY DEF Joins
  <2> QED BY <1>4, <2>1, <2>2
<1>5. CASE Len(seqs) > 0
  <2> DEFINE flatten == CHOOSE f : Rule(f, Len(seqs))
  <2>1. \E f : Rule(f, Len(seqs))
    BY <1>3
  <2>2. Rule(flatten, Len(seqs))
    BY <2>1
  <2>3. FlattenSeq(seqs) = flatten[Len(seqs)]
    BY <1>5 DEF FlattenSeq
  <2> HIDE DEF flatten
  <2> DEFINE Right(i) == flatten[i] \in Seq(E) /\ Joins(flatten[i], seqs, i)
  <2>4. ASSUME NEW i \in 1 .. Len(seqs), i # 1 => i - 1 \in 1 .. Len(seqs) /\ Right(i - 1)
        PROVE  Right(i)
    <3>1. flatten[i] = IF i = 1 THEN seqs[i] ELSE flatten[i - 1] \o seqs[i]
      BY <2>2
    <3>2. seqs[i] \in Seq(E)
      OBVIOUS
    <3>3. CASE i = 1
      <4>1. <<>> \in Seq(E) /\ Joins(<<>>, seqs, i - 1)
        BY <3>3 DEF Joins
      <4>2. Joins(<<>> \o seqs[i], seqs, i)
        BY <4>1, JoinsOne
      <4>3. <<>> \o seqs[i] = seqs[i]
        BY <3>2
      <4> QED BY <3>1, <3>2, <3>3, <4>2, <4>3
    <3>4. CASE i # 1
      <4>1. PICK f \in Seq(E) : f = flatten[i - 1]
        BY <2>4, <3>4
      <4>2. Joins(f, seqs, i - 1)
        BY <2>4, <3>4, <4>1
      <4>3. Joins(f \o seqs[i], seqs, i)
        BY <4>2, JoinsOne
      <4>4. flatten[i] = f \o seqs[i]
        BY <3>1, <3>4, <4>1
      <4>5. f \o seqs[i] \in Seq(E)
        BY <3>2, <4>1
      <4> QED BY <4>3, <4>4, <4>5
    <3> QED BY <3>3, <3>4
  <2>5. Right(Len(seqs))
    <3> DEFINE Wrong == {i \in 1..Len(seqs) : ~Right(i)}
    <3> HIDE DEF Right
    <3>0. Len(seqs) \in 1 .. Len(seqs)
      BY <1>5
    <3> SUFFICES ASSUME Wrong # {} PROVE FALSE
      BY <3>0
    <3>1. PICK m \in Wrong : \A k \in Wrong : m <= k
      <4>1. Wrong \subseteq Nat
        OBVIOUS
      <4> HIDE DEF Wrong
      <4> QED BY <4>1, Least
    <3>2. m # 1 => m - 1 \in 1..Len(seqs) /\ m - 1 \notin Wrong
      BY <3>1
    <3> QED BY <2>4, <3>2
  <2> QED BY <2>3, <2>5
<1> QED BY <1>4, <1>5

\* The values of f are those of F, applied again and again from x on.
Iterates(f, S, F, x, N1) ==
  /\ f \in [0 .. N1 -> S]
  /\ f[0] = x /\ \A n \in 1 .. N1 : f[n] = F[f[n - 1]]

LEMMA Iterated ==
  ASSUME NEW S, NEW F \in [S -> S], NEW x \in S, NEW N1 \in Nat
  PROVE  \E f : Iterates(f, S, F, x, N1)
<1> DEFINE Rule(f, m) == f = [n \in 0 .. m |-> IF n = 0 THEN x ELSE F[f[n - 1]]]
           Exists(m) == \E f \in [0 .. m -> S] : Rule(f, m)
<1>1. Exists(0)
  <2> DEFINE f == [n \in 0 .. 0 |-> x]
  <2>1. f \in [0 .. 0 -> S] /\ Rule(f, 0)
    OBVIOUS
  <2> QED BY <2>1
<1>2. ASSUME NEW m \in Nat, Exists(m) PROVE Exists(m + 1)
  <2>1. PICK f \in [0 .. m -> S] : Rule(f, m)
    BY <1>2
  <2> DEFINE g == [n \in 0 .. m + 1 |-> IF n <= m THEN f[n] ELSE F[f[m]]]
  <2>2. g \in [0 .. m + 1 -> S]
    <3>1. \A n \in 0 .. m + 1 : n <= m => n \in 0 .. m
      OBVIOUS
    <3>2. m \in 0 .. m
      OBVIOUS
    <3> QED BY <3>1, <3>2
  <2>3. ASSUME NEW n \in 0 .. m + 1 PROVE g[n] = IF n = 0 THEN x ELSE F[g[n - 1]]
    <3>1. CASE n <= m
      <4> DEFINE h == [k \in 0 .. m |-> IF k = 0 THEN x ELSE F[f[k - 1]]]
      <4>0. f = h
        BY <2>1
      <4>1. h[n] = IF n = 0 THEN x ELSE F[f[n - 1]]
        BY <3>1
      <4>2. n # 0 => g[n - 1] = f[n - 1]
        BY <3>1
      <4>3. g[n] = f[n]
        BY <3>1
      <4> HIDE DEF g, h
      <4> QED BY <4>0, <4>1, <4>2, <4>3
    <3>2. CASE n = m + 1
      <4>1. g[n] = F[f[m]] /\ n # 0 /\ n - 1 = m
        BY <3>2
      <4>2. g[m] = f[m]
        OBVIOUS
      <4> HIDE DEF g
      <4> QED BY <4>1, <4>2
    <3>3. n <= m \/ n = m + 1
      OBVIOUS
    <3> QED BY <3>1, <3>2, <3>3
  <2>4. Rule(g, m + 1)
    BY <2>3
  <2> QED BY <2>2, <2>4
<1> HIDE DEF Exists
<1>3. Exists(N1)
  <2> DEFINE Wrong == {n \in Nat : ~Exists(n)}
  <2> SUFFICES ASSUME Wrong # {} PROVE FALSE
    OBVIOUS
  <2>1. PICK m \in Wrong : \A k \in Wrong : m <= k
    <3>1. Wrong \subseteq Nat
      OBVIOUS
    <3> HIDE DEF Wrong
    <3> QED BY <3>1, Least
  <2>2. m # 0 /\ m - 1 \in Nat /\ m - 1 \notin Wrong /\ m - 1 + 1 = m
    BY <1>1, <2>1
  <2>3. Exists(m - 1)
    BY <2>2
  <2>4. Exists(m - 1 + 1)
    BY <1>2, <2>2, <2>3
  <2> QED BY <2>1, <2>2, <2>4
<1>4. PICK f \in [0 .. N1 -> S] : Rule(f, N1)
  BY <1>3 DEF Exists
<1>5. \A n \in 0 .. N1 : f[n] = IF n = 0 THEN x ELSE F[f[n - 1]]
  BY <1>4
<1>6. f[0] = x /\ \A n \in 1 .. N1 : f[n] = F[f[n - 1]]
  BY <1>5
<1> QED BY <1>4, <1>6 DEF Iterates
=============================================================================
