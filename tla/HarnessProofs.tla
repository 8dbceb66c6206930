--------------------------- MODULE HarnessProofs ---------------------------
(***************************************************************************)
(* Proofs about Harness, for any number of runs, operations and faults:    *)
(* its types, one action and one recovery at a time, nothing left behind;  *)
(* about Tabs: no tab of a click outlives it; and about Session: the login *)
(* that was proven lasts.                                                  *)
(***************************************************************************)
EXTENDS Harness, Tabs, Session, FiniteSetTheorems, TLAPS

---------------------------------------------------------------------------
(* Types.                                                                   *)

LEMMA TypeInit == Init => TypeOK
<1> SUFFICES ASSUME Init PROVE TypeOK
  OBVIOUS
<1>1. FieldsOK
  BY DEF Init, Fresh, FieldsOK
<1>2. WorldOK
  <2>1. faults \in 0 .. MaxFaults
    BY HarnessAssumption DEF Init, Fresh
  <2>2. overlapped \in BOOLEAN
    BY Zenon DEF Init, Fresh
  <2>3. made \in Nat /\ alive = {} /\ contexts = {} /\ pages = {}
    BY DEF Init, Fresh
  <2> QED
    BY <2>1, <2>2, <2>3 DEF WorldOK
<1>3. JobsOK
  BY HarnessAssumption DEF Init, Fresh, JobsOK, Where
<1> QED
  BY <1>1, <1>2, <1>3 DEF TypeOK

\* What createContextAndPage, recoverPage and mustPage do to the types,
\* whoever calls them.
LEMMA JobMoves ==
  ASSUME JobsOK, NEW j \in Jobs, NEW w \in Where \ {"looking"}, Go(j, w),
         held' = held, ops' = ops, purpose' = purpose
  PROVE  JobsOK'
  BY DEF JobsOK, Go

LEMMA JobHolds ==
  ASSUME JobsOK, NEW j \in Jobs, NEW w \in Where \ {"looking"}, Go(j, w),
         NEW x \in Context \cup Page \cup {None}, Hold(j, x), ops' = ops,
         NEW c \in {"open", "recovery"}, purpose' = [purpose EXCEPT ![j] = c]
  PROVE  JobsOK'
  BY DEF JobsOK, Go, Hold

LEMMA JobLooks ==
  ASSUME JobsOK, FieldsOK, NEW j \in Jobs, LookAtPage(j), ops' = ops, purpose' = purpose
  PROVE  JobsOK'
<1>1. CASE page = None
  BY <1>1, JobMoves DEF LookAtPage, Where
<1>2. CASE page # None
  BY <1>2 DEF LookAtPage, JobsOK, FieldsOK, Go, Hold, Where
<1> QED
  BY <1>1, <1>2

LEMMA JobCounts ==
  ASSUME JobsOK, NEW j \in Jobs, NEW w \in Where \ {"looking"}, Go(j, w),
         ops[j] < MaxOps, ops' = [ops EXCEPT ![j] = @ + 1], held' = held, purpose' = purpose
  PROVE  JobsOK'
  BY HarnessAssumption DEF JobsOK, Go

LEMMA RecoverType ==
  ASSUME TypeOK, NEW j \in Jobs, Recover(j), ops' = ops, browser' = browser,
         UNCHANGED <<configured, inFlight>>
  PROVE  FieldsOK' /\ JobsOK'
<1> DEFINE kept == IF PageOpen THEN {page} ELSE {p \in pages : p.in = context}
<1>1. recovering' \in BOOLEAN
  BY DEF Recover
<1>2. CASE page' \in kept /\ Go(j, "reusing") /\ UNCHANGED <<context, held>>
  <2>1. kept \subseteq Page
    BY DEF PageOpen, TypeOK, WorldOK
  <2>2. JobsOK'
    BY <1>2 DEF Recover, JobsOK, Go, Where, TypeOK
  <2> QED
    BY <1>1, <1>2, <2>1, <2>2 DEF FieldsOK, TypeOK
<1>3. CASE Connected /\ context' = None /\ Hold(j, context) /\ Go(j, "discarding") /\ page' = page
  <2>1. JobsOK'
    BY <1>3, JobHolds DEF Recover, TypeOK, FieldsOK, Where, Renewing
  <2> QED
    BY <1>1, <1>3, <2>1 DEF FieldsOK, TypeOK
<1>4. CASE ~Connected /\ Go(j, "closing") /\ UNCHANGED <<context, held, page>>
  <2>1. JobsOK'
    BY <1>4 DEF Recover, JobsOK, Go, Where, TypeOK
  <2> QED
    BY <1>1, <1>4, <2>1 DEF FieldsOK, TypeOK
<1> QED
  BY <1>2, <1>3, <1>4 DEF Recover, BeginContext

LEMMA TypeStep == TypeOK /\ [Next]_vars => TypeOK'
<1> SUFFICES ASSUME TypeOK, [Next]_vars PROVE TypeOK'
  OBVIOUS
<1> USE DEF TypeOK, fields, world, locals
<1>1. ASSUME NEW j \in Jobs, LaunchFails(j) \/ Opened(j) \/ Close(j) PROVE TypeOK'
  BY <1>1, JobMoves DEF LaunchFails, Opened, Close, FieldsOK, WorldOK, Where
<1>2. ASSUME NEW j \in Jobs, Open(j) PROVE TypeOK'
  BY <1>2, JobMoves DEF Open, FieldsOK, WorldOK, Where
<1>3. ASSUME NEW j \in Jobs, Launched(j) PROVE TypeOK'
  BY <1>3, JobHolds DEF Launched, FieldsOK, WorldOK, Where, Renewing
<1>4. ASSUME NEW j \in Jobs, Discarded(j) PROVE TypeOK'
  BY <1>4, JobMoves DEF Discarded, FieldsOK, WorldOK, Where, Renewing
<1>5. ASSUME NEW j \in Jobs, NewContext(j) PROVE TypeOK'
  <2>1. JobsOK'
    BY <1>5, JobMoves DEF NewContext, Throws, Where, Renewing
  <2>2. CASE Connected /\ context' = [of |-> browser, id |-> made]
    <3>1. context' \in Context
      BY <2>2 DEF Connected, Context, WorldOK
    <3> QED
      BY <1>5, <2>1, <2>2, <3>1 DEF NewContext, FieldsOK, WorldOK
  <2>3. CASE ~Connected
    BY <1>5, <2>1, <2>3 DEF NewContext, Throws, FieldsOK, WorldOK
  <2> QED
    BY <1>5, <2>2, <2>3 DEF NewContext
<1>6. ASSUME NEW j \in Jobs, NewPage(j) PROVE TypeOK'
  <2>1. JobsOK'
    BY <1>6, JobMoves DEF NewPage, Throws, Where, Renewing
  <2>2. CASE context \in contexts
    <3>1. [in |-> context, id |-> made] \in Page
      BY <2>2 DEF Page, WorldOK
    <3> QED
      BY <1>6, <2>1, <2>2, <3>1 DEF NewPage, FieldsOK, WorldOK
  <2>3. CASE context \notin contexts
    BY <1>6, <2>1, <2>3 DEF NewPage, Throws, FieldsOK, WorldOK
  <2> QED
    BY <2>2, <2>3
<1>7. ASSUME NEW j \in Jobs, Observe(j) \/ Denied(j) PROVE TypeOK'
  <2>1. JobsOK'
    BY <1>7, HarnessAssumption DEF Observe, Denied, JobsOK, Go, Where
  <2> QED
    BY <1>7, <2>1 DEF Observe, Denied, FieldsOK, WorldOK
<1>8. ASSUME NEW j \in Jobs, Usable(j) \/ Recovered(j) PROVE TypeOK'
  BY <1>8, JobLooks DEF Usable, Recovered, FieldsOK, WorldOK
<1>9. ASSUME NEW j \in Jobs, Unusable(j) PROVE TypeOK'
  <2>1. FieldsOK' /\ JobsOK'
    <3>1. CASE Recover(j)
      BY <1>9, <3>1, RecoverType DEF Unusable
    <3>2. CASE ~Recover(j)
      BY <1>9, <3>2, JobMoves DEF Unusable, FieldsOK, Where
    <3> QED
      BY <3>1, <3>2
  <2> QED
    BY <1>9, <2>1 DEF Unusable, WorldOK
<1>10. ASSUME NEW j \in Jobs, Awake(j) PROVE TypeOK'
  <2>1. FieldsOK' /\ JobsOK'
    <3>1. CASE recovering
      BY <1>10, <3>1, JobLooks DEF Awake, FieldsOK
    <3>2. CASE ~recovering
      BY <1>10, <3>2, RecoverType DEF Awake
    <3> QED
      BY <3>1, <3>2
  <2> QED
    BY <1>10, <2>1 DEF Awake, WorldOK
<1>11. ASSUME NEW j \in Jobs, Looked(j) PROVE TypeOK'
  <2>1. JobsOK'
    BY <1>11, JobMoves DEF Looked, Where
  <2>2. pc[j] = "looking" /\ ops[j] \in 0 .. MaxOps
    BY <1>11 DEF Looked, JobsOK
  <2> QED
    BY <1>11, <2>1, <2>2 DEF Looked, FieldsOK, WorldOK
<1>12. ASSUME NEW j \in Jobs, Execute(j) PROVE TypeOK'
  BY <1>12, JobCounts DEF Execute, FieldsOK, WorldOK, Where
<1>13. ASSUME NEW j \in Jobs, Executed(j) PROVE TypeOK'
  BY <1>13, JobMoves DEF Executed, FieldsOK, WorldOK, Where
<1>14. ASSUME NEW j \in Jobs, CloseContext(j) PROVE TypeOK'
  BY <1>14, JobMoves DEF CloseContext, FieldsOK, WorldOK, Where
<1>15. ASSUME NEW j \in Jobs, CloseBrowser(j) PROVE TypeOK'
  BY <1>15, JobMoves DEF CloseBrowser, Gone, FieldsOK, WorldOK, Where
<1>16. ASSUME NEW j \in Jobs, Clear(j) PROVE TypeOK'
  BY <1>16 DEF Clear, Go, Hold, FieldsOK, WorldOK, JobsOK, Where
<1>17. CASE Fault
  BY <1>17, HarnessAssumption DEF Fault, Gone, FieldsOK, WorldOK, JobsOK
<1>18. CASE UNCHANGED vars
  BY <1>18 DEF vars, FieldsOK, WorldOK, JobsOK
<1> QED
  BY <1>1, <1>2, <1>3, <1>4, <1>5, <1>6, <1>7, <1>8, <1>9, <1>10, <1>11, <1>12, <1>13, <1>14, <1>15, <1>16, <1>17, <1>18
  DEF Next, Job, Ended

---------------------------------------------------------------------------
(* One action at a time.  The counting of OneActionAtATime is replaced by   *)
(* "two jobs that act are the same job", which the steps preserve.          *)

Acts(j) == pc[j] = "acting"

ActionFlag ==
  /\ inFlight <=> \E j \in Jobs : Acts(j)
  /\ \A j, k \in Jobs : Acts(j) /\ Acts(k) => j = k

\* A step of a job from and to elsewhere leaves the flag right.
LEMMA NotActing ==
  ASSUME ActionFlag, JobsOK, NEW j \in Jobs, NEW w, Go(j, w), ~Acts(j), w # "acting", inFlight' = inFlight
  PROVE  ActionFlag'
  BY DEF ActionFlag, Acts, JobsOK, Go

LEMMA ActionStep == TypeOK /\ ActionFlag /\ [Next]_vars => ActionFlag'
<1> SUFFICES ASSUME TypeOK, ActionFlag, [Next]_vars PROVE ActionFlag'
  OBVIOUS
<1> USE DEF fields, world, locals, TypeOK
<1>1. ASSUME NEW j \in Jobs, Execute(j) PROVE ActionFlag'
  BY <1>1 DEF Execute, ActionFlag, Acts, JobsOK, Go
<1>2. ASSUME NEW j \in Jobs, Executed(j) PROVE ActionFlag'
  BY <1>2 DEF Executed, ActionFlag, Acts, JobsOK, Go
<1>3. CASE UNCHANGED <<pc, inFlight>>
  BY <1>3 DEF ActionFlag, Acts
<1>4. ASSUME NEW j \in Jobs, Denied(j) PROVE ActionFlag'
  BY <1>4, <1>3 DEF Denied
<1>5. ASSUME NEW j \in Jobs, Open(j) \/ LaunchFails(j) \/ Launched(j) \/ Discarded(j) \/ Opened(j) PROVE ActionFlag'
  BY <1>5, NotActing DEF Open, LaunchFails, Launched, Discarded, Opened, Acts
<1>6. ASSUME NEW j \in Jobs, NewContext(j) \/ NewPage(j) PROVE ActionFlag'
  BY <1>6, NotActing DEF NewContext, NewPage, Throws, Acts
<1>7. ASSUME NEW j \in Jobs, Observe(j) \/ Looked(j) PROVE ActionFlag'
  BY <1>7, NotActing DEF Observe, Looked, Acts
<1>8. ASSUME NEW j \in Jobs, Usable(j) \/ Recovered(j) PROVE ActionFlag'
  BY <1>8, NotActing DEF Usable, Recovered, LookAtPage, Acts
<1>9. ASSUME NEW j \in Jobs, Unusable(j) \/ Awake(j) PROVE ActionFlag'
  BY <1>9, NotActing DEF Unusable, Awake, Recover, BeginContext, LookAtPage, Acts
<1>10. ASSUME NEW j \in Jobs, Close(j) \/ CloseContext(j) \/ CloseBrowser(j) \/ Clear(j) PROVE ActionFlag'
  BY <1>10, NotActing DEF Close, CloseContext, CloseBrowser, Clear, Acts
<1>11. CASE Fault
  BY <1>11, <1>3 DEF Fault
<1>12. CASE UNCHANGED vars
  BY <1>12, <1>3 DEF vars
<1> QED
  BY <1>1, <1>2, <1>4, <1>5, <1>6, <1>7, <1>8, <1>9, <1>10, <1>11, <1>12 DEF Next, Job, Ended

---------------------------------------------------------------------------
(* One recovery at a time, in the same way.                                 *)

RecoveryFlag ==
  /\ recovering <=> \E j \in Jobs : Recovers(j)
  /\ \A j, k \in Jobs : Recovers(j) /\ Recovers(k) => j = k

Others(j) == \A k \in Jobs \ {j} : pc'[k] = pc[k] /\ purpose'[k] = purpose[k]

\* A job that goes on with what it did leaves the flag right; so does the one
\* that ends its recovery and the first that begins one.
LEMMA GoesOn ==
  ASSUME RecoveryFlag, NEW j \in Jobs, Others(j), Recovers(j)' <=> Recovers(j), recovering' <=> recovering
  PROVE  RecoveryFlag'
  BY DEF RecoveryFlag, Others, Recovers

LEMMA EndsRecovery ==
  ASSUME RecoveryFlag, NEW j \in Jobs, Others(j), Recovers(j), ~Recovers(j)', recovering' = FALSE
  PROVE  RecoveryFlag'
  BY DEF RecoveryFlag, Others, Recovers

LEMMA MayBeginRecovery ==
  ASSUME RecoveryFlag, NEW j \in Jobs, Others(j), ~recovering, recovering' <=> Recovers(j)'
  PROVE  RecoveryFlag'
  BY DEF RecoveryFlag, Others, Recovers

LEMMA RecoverFlag ==
  ASSUME RecoveryFlag, JobsOK, NEW j \in Jobs, Recover(j), ~recovering
  PROVE  RecoveryFlag'
<1>1. Others(j)
  BY DEF Recover, BeginContext, Others, Go, JobsOK
<1>2. recovering' <=> Recovers(j)'
  <2>1. CASE Go(j, "reusing")
    BY <2>1 DEF Recover, BeginContext, Recovers, Go, JobsOK, Renewing
  <2>2. CASE Go(j, "discarding")
    BY <2>2 DEF Recover, BeginContext, Recovers, Go, JobsOK, Renewing
  <2>3. CASE Go(j, "closing")
    BY <2>3 DEF Recover, BeginContext, Recovers, Go, JobsOK, Renewing
  <2> QED
    BY <2>1, <2>2, <2>3 DEF Recover, BeginContext
<1> QED
  BY <1>1, <1>2, MayBeginRecovery

LEMMA ThrowsFlag ==
  ASSUME RecoveryFlag, JobsOK, NEW j \in Jobs, pc[j] \in Renewing, Throws(j), purpose' = purpose
  PROVE  RecoveryFlag'
<1>1. Others(j) /\ ~Recovers(j)'
  BY DEF Throws, Go, Others, Recovers, JobsOK, Renewing
<1>2. CASE purpose[j] = "open"
  <2>1. ~Recovers(j) /\ (recovering' <=> recovering)
    BY <1>2 DEF Recovers, Throws, Renewing
  <2> QED
    BY <1>1, <2>1, GoesOn
<1>3. CASE purpose[j] = "recovery"
  BY <1>1, <1>3, EndsRecovery DEF Throws, Recovers
<1> QED
  BY <1>2, <1>3 DEF JobsOK

LEMMA RecoveryStep == TypeOK /\ RecoveryFlag /\ [Next]_vars => RecoveryFlag'
<1> SUFFICES ASSUME TypeOK, RecoveryFlag, [Next]_vars PROVE RecoveryFlag'
  OBVIOUS
<1> USE DEF fields, world, locals, TypeOK
<1>1. ASSUME NEW j \in Jobs, NEW w, Go(j, w), purpose' = purpose, recovering' = recovering,
             \/ pc[j] # "reusing" /\ pc[j] \notin Renewing /\ w # "reusing" /\ w \notin Renewing
             \/ pc[j] \in Renewing /\ w \in Renewing
      PROVE RecoveryFlag'
  BY <1>1, GoesOn DEF Others, Go, Recovers, JobsOK, Renewing
<1>2. CASE UNCHANGED <<pc, purpose, recovering>>
  BY <1>2 DEF RecoveryFlag, Recovers
<1>3. ASSUME NEW j \in Jobs, Open(j) \/ LaunchFails(j) \/ Observe(j) \/ Looked(j) PROVE RecoveryFlag'
  BY <1>3, <1>1 DEF Open, LaunchFails, Observe, Looked, Renewing
<1>4. ASSUME NEW j \in Jobs, Launched(j) PROVE RecoveryFlag'
  <2>1. Others(j) /\ ~Recovers(j) /\ ~Recovers(j)' /\ recovering' = recovering
    BY <1>4 DEF Launched, Others, Go, Recovers, JobsOK, Renewing
  <2> QED
    BY <2>1, GoesOn
<1>5. ASSUME NEW j \in Jobs, Discarded(j) PROVE RecoveryFlag'
  BY <1>5, <1>1 DEF Discarded, Renewing
<1>6. ASSUME NEW j \in Jobs, NewContext(j) \/ NewPage(j) PROVE RecoveryFlag'
  <2>1. CASE Throws(j)
    BY <1>6, <2>1, ThrowsFlag DEF NewContext, NewPage, Renewing
  <2>2. CASE ~Throws(j)
    BY <1>6, <2>2, <1>1 DEF NewContext, NewPage, Renewing
  <2> QED
    BY <2>1, <2>2
<1>7. ASSUME NEW j \in Jobs, Opened(j) PROVE RecoveryFlag'
  <2>1. Others(j) /\ ~Recovers(j) /\ ~Recovers(j)' /\ recovering' = recovering
    BY <1>7 DEF Opened, Others, Go, Recovers, JobsOK, Renewing
  <2> QED
    BY <2>1, GoesOn
<1>8. ASSUME NEW j \in Jobs, Usable(j) PROVE RecoveryFlag'
  BY <1>8, <1>1 DEF Usable, LookAtPage, Renewing
<1>9. ASSUME NEW j \in Jobs, Recovered(j) PROVE RecoveryFlag'
  <2>1. Others(j) /\ Recovers(j) /\ ~Recovers(j)' /\ recovering' = FALSE
    BY <1>9 DEF Recovered, LookAtPage, Others, Go, Recovers, JobsOK, Renewing
  <2> QED
    BY <2>1, EndsRecovery
<1>10. ASSUME NEW j \in Jobs, Unusable(j) PROVE RecoveryFlag'
  <2>1. CASE Recover(j) /\ ~recovering
    BY <2>1, RecoverFlag
  <2>2. CASE ~(Recover(j) /\ ~recovering)
    <3>1. /\ pc[j] = "checking" /\ UNCHANGED <<purpose, recovering>>
          /\ Go(j, "closing") \/ Go(j, "waiting")
      BY <1>10, <2>2 DEF Unusable
    <3> QED
      BY <3>1, <1>1 DEF Renewing
  <2> QED
    BY <2>1, <2>2
<1>11. ASSUME NEW j \in Jobs, Awake(j) PROVE RecoveryFlag'
  <2>1. CASE recovering
    BY <1>11, <2>1, <1>1 DEF Awake, LookAtPage, Renewing
  <2>2. CASE ~recovering
    BY <1>11, <2>2, RecoverFlag DEF Awake
  <2> QED
    BY <2>1, <2>2
<1>12. ASSUME NEW j \in Jobs, Denied(j) PROVE RecoveryFlag'
  BY <1>12, <1>2 DEF Denied
<1>13. ASSUME NEW j \in Jobs, Execute(j) \/ Executed(j) \/ Close(j) \/ CloseContext(j) \/ CloseBrowser(j) \/ Clear(j) PROVE RecoveryFlag'
  BY <1>13, <1>1 DEF Execute, Executed, Close, CloseContext, CloseBrowser, Clear, Renewing
<1>14. CASE Fault
  BY <1>14, <1>2 DEF Fault
<1>15. CASE UNCHANGED vars
  BY <1>15, <1>2 DEF vars
<1> QED
  BY <1>3, <1>4, <1>5, <1>6, <1>7, <1>8, <1>9, <1>10, <1>11, <1>12, <1>13, <1>14, <1>15 DEF Next, Job, Ended

---------------------------------------------------------------------------
(* The theorems.                                                            *)

IInv == TypeOK /\ ActionFlag /\ RecoveryFlag

\* IInv is inductive: the types tell that a job is at one place, and each flag
\* is preserved with them.
THEOREM Invariance == Spec => []IInv
<1>1. Init => IInv
  BY TypeInit DEF Init, Fresh, IInv, ActionFlag, RecoveryFlag, Acts, Recovers, Renewing
<1>2. IInv /\ [Next]_vars => IInv'
  BY TypeStep, ActionStep, RecoveryStep DEF IInv
<1> QED
  BY <1>1, <1>2, PTL DEF Spec

\* The harness keeps its types over any number of runs.
THEOREM TypeCorrect == Spec => []TypeOK
<1>1. IInv => TypeOK
  BY DEF IInv
<1> QED
  BY <1>1, Invariance, PTL

\* A set whose members are all equal has at most one.
LEMMA AtMostOne ==
  ASSUME NEW S, \A x, y \in S : x = y
  PROVE  Cardinality(S) <= 1
<1>1. CASE S = {}
  BY <1>1, FS_EmptySet
<1>2. CASE S # {}
  <2>1. PICK x \in S : S = {x}
    BY <1>2
  <2> QED
    BY <2>1, FS_Singleton
<1> QED
  BY <1>1, <1>2

\* However many runs overlap, execute lets one action through at a time and
\* its flag is up exactly as long.
THEOREM ActionsExclude == Spec => []OneActionAtATime
<1>1. IInv => OneActionAtATime
  BY AtMostOne DEF IInv, ActionFlag, Acts, OneActionAtATime
<1> QED
  BY <1>1, Invariance, PTL

\* However many runs overlap, one of them rebuilds the page at a time and its
\* flag falls on every way out.
THEOREM RecoveriesExclude == Spec => []OneRecoveryAtATime
<1>1. IInv => OneRecoveryAtATime
  BY AtMostOne DEF IInv, RecoveryFlag, OneRecoveryAtATime
<1> QED
  BY <1>1, Invariance, PTL

\* However many runs share the harness, it does one action and one recovery at
\* a time, and both flags are up exactly as long.
THEOREM OneThingAtATime == Spec => []OneAtATime
  BY ActionsExclude, RecoveriesExclude, PTL DEF OneAtATime

---------------------------------------------------------------------------
(* Nothing is left behind.                                                  *)

\* A page is in an open context, and a context in a browser that runs.
Nested ==
  /\ \A c \in contexts : c.of \in alive
  /\ \A p \in pages : p.in \in contexts

\* When no run is under way the fields are cleared.
Cleared == (\A j \in Jobs : ~Active(j)) => fields = <<None, None, None, FALSE>>

\* The contexts a run may still close: the one it holds to discard it, none
\* after that, else the current one.
Closable(j) ==
  IF pc[j] = "discarding" THEN {held[j]} ELSE IF pc[j] = "creating" THEN {} ELSE {context}

\* What a run that has the harness to itself has opened.
Opens(j) ==
  /\ alive \subseteq {j} /\ alive \subseteq {browser}
  /\ pc[j] \in {"launching", "clearing"} => alive = {}
  /\ contexts \subseteq Closable(j)

Alone ==
  ~overlapped =>
    /\ \A j, k \in Jobs : Active(j) /\ Active(k) => j = k
    /\ (\A j \in Jobs : ~Active(j)) => alive = {}
    /\ \A j \in Jobs : Active(j) => Opens(j)

LeftInv == Nested /\ Cleared /\ Alone

LEMMA NestedStep == TypeOK /\ Nested /\ [Next]_vars => Nested'
<1> SUFFICES ASSUME TypeOK, Nested, [Next]_vars PROVE Nested'
  OBVIOUS
<1> USE DEF fields, world, locals, TypeOK, Nested
<1>1. CASE UNCHANGED <<alive, contexts, pages>>
  BY <1>1
<1>2. ASSUME NEW j \in Jobs, Launched(j) PROVE Nested'
  BY <1>2 DEF Launched
<1>3. ASSUME NEW j \in Jobs, Discarded(j) PROVE Nested'
  BY <1>3 DEF Discarded
<1>4. ASSUME NEW j \in Jobs, NewContext(j) PROVE Nested'
  BY <1>4, <1>1 DEF NewContext, Connected
<1>5. ASSUME NEW j \in Jobs, NewPage(j) PROVE Nested'
  BY <1>5, <1>1 DEF NewPage
<1>6. ASSUME NEW j \in Jobs, CloseContext(j) PROVE Nested'
  BY <1>6 DEF CloseContext
<1>7. ASSUME NEW b, Gone(b) PROVE Nested'
  BY <1>7 DEF Gone
<1>8. CASE Fault
  BY <1>8, <1>7 DEF Fault
<1>9. ASSUME NEW j \in Jobs, CloseBrowser(j) PROVE Nested'
  BY <1>9, <1>7 DEF CloseBrowser
<1>10. ASSUME NEW j \in Jobs,
              \/ Open(j) \/ LaunchFails(j) \/ Opened(j) \/ Observe(j) \/ Usable(j) \/ Unusable(j)
              \/ Awake(j) \/ Recovered(j) \/ Looked(j) \/ Denied(j) \/ Execute(j) \/ Executed(j)
              \/ Close(j) \/ Clear(j)
       PROVE  Nested'
  <2>1. UNCHANGED <<alive, contexts, pages>>
    BY <1>10 DEF Open, LaunchFails, Opened, Observe, Usable, Unusable, Awake, Recovered, Looked,
                 Denied, Execute, Executed, Close, Clear
  <2> QED
    BY <2>1, <1>1
<1>11. CASE UNCHANGED vars
  BY <1>11, <1>1 DEF vars
<1> QED
  BY <1>2, <1>3, <1>4, <1>5, <1>6, <1>8, <1>9, <1>10, <1>11 DEF Next, Job, Ended

\* A step of a run leaves the others where they are.
LEMMA OthersStay ==
  ASSUME JobsOK, NEW j \in Jobs, Job(j)
  PROVE  \A k \in Jobs \ {j} : pc'[k] = pc[k] /\ Active(k)' = Active(k)
<1>1. pc' = pc \/ \E w : Go(j, w)
  BY DEF Job, Open, LaunchFails, Launched, Discarded, NewContext, NewPage, Opened, Observe, Usable,
         Unusable, Awake, Recovered, Looked, Denied, Execute, Executed, Close, CloseContext,
         CloseBrowser, Clear, Throws, LookAtPage, Recover, BeginContext
<1> QED
  BY <1>1 DEF JobsOK, Go, Active

\* A run goes on until it clears the fields.
LEMMA GoesOnOrClears ==
  ASSUME JobsOK, NEW j \in Jobs, Job(j), ~Clear(j)
  PROVE  Active(j)'
  BY DEF Active, JobsOK, Go, Job, Open, LaunchFails, Launched, Discarded, NewContext, NewPage,
         Opened, Observe, Usable, Unusable, Awake, Recovered, Looked, Denied, Execute, Executed,
         Close, CloseContext, CloseBrowser, Throws, LookAtPage, Recover, BeginContext

LEMMA OpensKept ==
  ASSUME TypeOK, Nested, NEW j \in Jobs, Active(j), Opens(j), Job(j), ~Clear(j)
  PROVE  Opens(j)'
<1> USE DEF fields, world, locals
<1>0. JobsOK /\ FieldsOK
  BY DEF TypeOK
<1>1. ASSUME NEW w, UNCHANGED <<alive, contexts, browser, context>>, Go(j, w),
             w \notin {"launching", "clearing", "discarding", "creating"},
             pc[j] \notin {"discarding", "creating"}
      PROVE  Opens(j)'
  BY <1>0, <1>1 DEF Opens, Closable, Go, JobsOK
<1>2. CASE \/ LaunchFails(j) \/ Opened(j) \/ Observe(j) \/ Looked(j) \/ Execute(j) \/ Executed(j)
           \/ Close(j)
  BY <1>1, <1>2 DEF LaunchFails, Opened, Observe, Looked, Execute, Executed, Close
<1>3. CASE Usable(j) \/ Recovered(j)
  BY <1>1, <1>3 DEF Usable, Recovered, LookAtPage
<1>4. CASE Denied(j)
  BY <1>0, <1>4 DEF Denied, Opens, Closable
<1>5. CASE Launched(j)
  <2>1. alive = {} /\ contexts = {}
    BY <1>5 DEF Launched, Opens, Nested
  <2> QED
    BY <1>0, <1>5, <2>1 DEF Launched, Opens, Closable, Go, JobsOK
<1>6. CASE Discarded(j)
  BY <1>0, <1>6 DEF Discarded, Opens, Closable, Go, JobsOK
<1>7. CASE NewContext(j)
  <2>1. pc[j] = "creating" /\ contexts = {} /\ UNCHANGED <<alive, browser>>
    BY <1>7 DEF NewContext, Opens, Closable
  <2>2. pc'[j] \in {"paging", "closing"} /\ contexts' \subseteq {context'}
    BY <1>0, <1>7, <2>1 DEF NewContext, Throws, Go, JobsOK
  <2> QED
    BY <2>1, <2>2 DEF Opens, Closable
<1>8. CASE NewPage(j)
  BY <1>1, <1>8 DEF NewPage, Throws
<1>9. ASSUME Recover(j), pc[j] \in {"checking", "waiting"}, UNCHANGED <<world, browser>>
      PROVE  Opens(j)'
  <2>1. CASE Go(j, "reusing") /\ UNCHANGED context
    BY <1>1, <1>9, <2>1
  <2>2. CASE Go(j, "closing") /\ UNCHANGED context
    BY <1>1, <1>9, <2>2
  <2>3. CASE Go(j, "discarding") /\ Hold(j, context)
    <3>1. contexts \subseteq {context}
      BY <1>9 DEF Opens, Closable
    <3>2. held'[j] = context /\ pc'[j] = "discarding"
      BY <1>0, <2>3 DEF Hold, Go, JobsOK
    <3> QED
      BY <1>9, <3>1, <3>2 DEF Opens, Closable
  <2> QED
    BY <1>9, <2>1, <2>2, <2>3 DEF Recover, BeginContext
<1>10. CASE Unusable(j)
  <2>1. pc[j] = "checking" /\ UNCHANGED <<world, browser>>
    BY <1>10 DEF Unusable
  <2>2. Recover(j) \/ (UNCHANGED context /\ (Go(j, "closing") \/ Go(j, "waiting")))
    BY <1>10 DEF Unusable
  <2> QED
    BY <1>1, <1>9, <2>1, <2>2
<1>11. CASE Awake(j)
  <2>1. pc[j] = "waiting" /\ UNCHANGED <<world, browser>>
    BY <1>11 DEF Awake
  <2>2. Recover(j) \/ (UNCHANGED context /\ (Go(j, "closing") \/ Go(j, "looking")))
    BY <1>11 DEF Awake, LookAtPage
  <2> QED
    BY <1>1, <1>9, <2>1, <2>2
<1>12. CASE CloseContext(j)
  BY <1>0, <1>12 DEF CloseContext, Opens, Closable, Go, JobsOK
<1>13. CASE CloseBrowser(j)
  <2>1. alive' = {} /\ pc'[j] = "clearing" /\ UNCHANGED <<browser, context>>
    BY <1>0, <1>13 DEF CloseBrowser, Gone, Opens, Go, JobsOK
  <2>2. contexts' \subseteq contexts /\ contexts \subseteq {context}
    BY <1>13 DEF CloseBrowser, Gone, Opens, Closable
  <2> QED
    BY <2>1, <2>2 DEF Opens, Closable
<1>14. ~Open(j)
  BY DEF Open, Active
<1> QED
  BY <1>2, <1>3, <1>4, <1>5, <1>6, <1>7, <1>8, <1>10, <1>11, <1>12, <1>13, <1>14 DEF Job

\* When a browser, a context or a page goes away there is only less to close.
LEMMA OpensDespiteFault ==
  ASSUME TypeOK, NEW j \in Jobs, Opens(j), Fault
  PROVE  Opens(j)'
<1>1. UNCHANGED <<browser, context, pc, held>> /\ alive' \subseteq alive /\ contexts' \subseteq contexts
  BY DEF Fault, Gone, fields, locals
<1> QED
  BY <1>1 DEF Opens, Closable

LEMMA LeftStep == TypeOK /\ LeftInv /\ [Next]_vars => LeftInv'
<1> SUFFICES ASSUME TypeOK, LeftInv, [Next]_vars PROVE Cleared' /\ Alone'
  BY NestedStep DEF LeftInv
<1>0. JobsOK /\ Nested /\ Cleared /\ Alone
  BY DEF TypeOK, LeftInv
<1>1. ASSUME NEW j \in Jobs, Open(j) PROVE Cleared' /\ Alone'
  <2>1. Job(j) /\ ~Clear(j) /\ Active(j)'
    BY <1>0, <1>1, GoesOnOrClears DEF Job, Open, Clear
  <2>2. Cleared'
    BY <2>1 DEF Cleared
  <2>3. ASSUME ~overlapped' PROVE Alone'
    <3>1. ~overlapped /\ \A k \in Jobs : ~Active(k)
      BY <1>1, <2>3 DEF Open
    <3>2. alive' = {} /\ contexts' = {}
      BY <1>0, <1>1, <3>1 DEF Open, Alone, Nested, world
    <3>3. \A k \in Jobs : Active(k)' => k = j
      BY <1>0, <2>1, <3>1, OthersStay
    <3>4. Opens(j)'
      BY <3>2 DEF Opens
    <3> QED
      BY <2>1, <3>3, <3>4 DEF Alone
  <2> QED
    BY <2>2, <2>3 DEF Alone
<1>2. ASSUME NEW j \in Jobs, Job(j), ~Open(j) PROVE Cleared' /\ Alone'
  <2>1. Active(j) /\ overlapped' = overlapped
    BY <1>2 DEF Active, Renewing, Job, Open, LaunchFails, Launched, Discarded, NewContext, NewPage,
         Opened, Observe, Usable, Unusable, Awake, Recovered, Looked, Denied, Execute, Executed,
         Close, CloseContext, CloseBrowser, Clear
  <2>2. CASE Clear(j)
    <3>1. fields' = <<None, None, None, FALSE>> /\ pc[j] = "clearing" /\ alive' = alive
      BY <2>2 DEF Clear, fields, world
    <3>2. ~Active(j)'
      BY <1>0, <2>2 DEF Clear, Active, Go, JobsOK
    <3>3. ASSUME ~overlapped PROVE alive' = {} /\ \A k \in Jobs : ~Active(k)'
      <4>1. alive = {}
        BY <1>0, <2>1, <3>1, <3>3 DEF Alone, Opens
      <4>2. \A k \in Jobs \ {j} : ~Active(k)
        BY <1>0, <2>1, <3>3 DEF Alone
      <4> QED
        BY <1>0, <1>2, <3>1, <3>2, <4>1, <4>2, OthersStay
    <3> QED
      BY <2>1, <3>1, <3>3 DEF Cleared, Alone
  <2>3. CASE ~Clear(j)
    <3>1. Active(j)'
      BY <1>0, <1>2, <2>3, GoesOnOrClears
    <3>2. ASSUME ~overlapped PROVE Opens(j)' /\ \A k \in Jobs : Active(k)' => k = j
      <4>1. Opens(j) /\ \A k \in Jobs : Active(k) => k = j
        BY <1>0, <2>1, <3>2 DEF Alone
      <4> QED
        BY <1>0, <1>2, <2>1, <2>3, <4>1, OpensKept, OthersStay
    <3> QED
      BY <2>1, <3>1, <3>2 DEF Cleared, Alone
  <2> QED
    BY <2>2, <2>3
<1>3. CASE Fault
  <2>1. UNCHANGED <<fields, pc, overlapped>> /\ alive' \subseteq alive
    BY <1>3 DEF Fault, Gone, locals
  <2>2. \A j \in Jobs : Active(j)' = Active(j)
    BY <2>1 DEF Active
  <2>3. \A j \in Jobs : Opens(j) => Opens(j)'
    BY <1>3, OpensDespiteFault
  <2> QED
    BY <1>0, <2>1, <2>2, <2>3 DEF Cleared, Alone
<1>4. CASE UNCHANGED vars
  BY <1>0, <1>4 DEF vars, fields, world, locals, Cleared, Alone, Active, Opens, Closable
<1> QED
  BY <1>1, <1>2, <1>3, <1>4 DEF Next, Ended

\* However often pages, contexts and browsers go away by themselves, runs that
\* do not overlap leave no context behind while they work, and no browser,
\* context or page when they are over; and runs that do leave the fields as
\* they were before the first of them.
THEOREM NothingIsLeftBehind == Spec => []NothingLeftBehind
<1>1. Init => LeftInv
  BY DEF Init, Fresh, LeftInv, Nested, Cleared, Alone, Active, fields
<1>2. IInv /\ LeftInv => NothingLeftBehind
  <2> SUFFICES ASSUME IInv, LeftInv PROVE OneContext /\ NothingLeft
    BY DEF NothingLeftBehind
  <2>1. TypeOK /\ JobsOK /\ ActionFlag /\ RecoveryFlag /\ Nested /\ Cleared /\ Alone
    BY DEF IInv, TypeOK, LeftInv
  <2>2. ASSUME ~overlapped PROVE \A x, y \in contexts : x = y
    <3>1. CASE \A j \in Jobs : ~Active(j)
      BY <2>1, <2>2, <3>1 DEF Alone, Nested
    <3>2. CASE \E j \in Jobs : Active(j)
      <4>1. PICK j \in Jobs : Active(j)
        BY <3>2
      <4>2. contexts \subseteq Closable(j)
        BY <2>1, <2>2, <4>1 DEF Alone, Opens
      <4> QED
        BY <4>2 DEF Closable
    <3> QED
      BY <3>1, <3>2
  <2>3. ASSUME ~overlapped, NEW j \in Jobs, pc[j] \in {"looking", "ready"}, PageOpen
        PROVE  page.in = context /\ context.of = j
    <3>1. Opens(j)
      BY <2>1, <2>3 DEF Alone, Active
    <3>2. page.in \in contexts /\ contexts \subseteq {context}
      BY <2>1, <2>3, <3>1 DEF PageOpen, Nested, Opens, Closable
    <3>3. context.of \in alive
      BY <2>1, <3>2 DEF Nested
    <3> QED
      BY <3>1, <3>2, <3>3 DEF Opens
  <2>4. OneContext
    BY <2>2, <2>3, AtMostOne DEF OneContext
  <2>5. ASSUME \A j \in Jobs : ~Active(j)
        PROVE  /\ fields = <<None, None, None, FALSE>> /\ ~inFlight /\ ~recovering
               /\ ~overlapped => alive = {} /\ contexts = {} /\ pages = {}
    <3>1. fields = <<None, None, None, FALSE>>
      BY <2>1, <2>5 DEF Cleared
    <3>2. ~inFlight /\ ~recovering
      <4>1. \A j \in Jobs : ~Acts(j) /\ ~Recovers(j)
        BY <2>5 DEF Active, Acts, Recovers, Renewing
      <4> QED
        BY <2>1, <4>1 DEF ActionFlag, RecoveryFlag
    <3>3. ~overlapped => alive = {} /\ contexts = {} /\ pages = {}
      BY <2>1, <2>5 DEF Alone, Nested
    <3> QED
      BY <3>1, <3>2, <3>3
  <2> QED
    BY <2>4, <2>5 DEF NothingLeft
<1>3. TypeOK /\ LeftInv /\ [Next]_vars => LeftInv'
  BY LeftStep
<1>4. IInv => TypeOK
  BY DEF IInv
<1> QED
  BY <1>1, <1>2, <1>3, <1>4, Invariance, PTL DEF Spec

---------------------------------------------------------------------------
(* The tabs of a click.                                                     *)

Phases == {"idle", "clicking", "waiting", "enforcing", "closingExtras", "sweeping", "swept"}

\* What is known of the tabs that opened during a click: a round or the sweep
\* has all of them in hand when it closes, and nothing adds to them afterwards.
TabInv ==
  /\ phase \in Phases /\ enforced \in BOOLEAN
  /\ tabs \subseteq opened /\ early \subseteq opened
  /\ phase \in {"closingExtras", "swept"} => tabs \cap early \subseteq extras
  /\ ClickLeavesNoTab

LEMMA TabStep == TabInv /\ [TabsNext]_tabsVars => TabInv'
<1> SUFFICES ASSUME TabInv, [TabsNext]_tabsVars PROVE TabInv'
  OBVIOUS
<1> USE DEF TabInv, ClickLeavesNoTab, Phases
<1>1. CASE UNCHANGED tabsVars
  BY <1>1 DEF tabsVars
<1>2. ASSUME NEW t \in Popups, Popup(t) PROVE TabInv'
  <2>1. t \notin early
    BY <1>2 DEF Popup
  <2>2. CASE Listening
    BY <1>2, <2>2 DEF Popup, Listening
  <2>3. CASE ~Listening
    <3>1. early' = early /\ tabs' \cap early' = tabs \cap early
      BY <1>2, <2>1, <2>3 DEF Popup
    <3> QED
      BY <1>2, <3>1 DEF Popup
  <2> QED
    BY <2>2, <2>3
<1>3. ASSUME NEW t \in Popups, Dies(t) PROVE TabInv'
  <2>1. tabs' \cap early' \subseteq tabs \cap early
    BY <1>3 DEF Dies
  <2> QED
    BY <1>3, <2>1 DEF Dies
<1>4. CASE Click \/ Clicked \/ Waited
  BY <1>4 DEF Click, Clicked, Waited
<1>5. CASE ClickThrows
  BY <1>5 DEF ClickThrows, Finally
<1>6. CASE Look
  BY <1>6 DEF Look
<1>7. CASE CloseExtras
  <2>1. tabs' \cap early' = {}
    BY <1>7 DEF CloseExtras
  <2>2. phase' \in {"idle", "enforcing", "sweeping"}
    BY <1>7 DEF CloseExtras, Finally
  <2> QED
    BY <1>7, <2>1, <2>2 DEF CloseExtras
<1> QED
  BY <1>1, <1>2, <1>3, <1>4, <1>5, <1>6, <1>7 DEF TabsNext

\* Whatever tabs a click opens, and whenever its handlers close them, none of
\* those that opened while it was under way is open when the action has ended;
\* for any number of tabs and rounds.
THEOREM NoTabOutlivesItsClick == TabsSpec => []ClickLeavesNoTab
<1>1. TabsInit => TabInv
  BY DEF TabsInit, TabInv, ClickLeavesNoTab, Phases
<1>2. TabInv => ClickLeavesNoTab
  BY DEF TabInv
<1> QED
  BY <1>1, <1>2, TabStep, PTL DEF TabsSpec

---------------------------------------------------------------------------
(* The login of a run.                                                      *)

\* Each kind of authentication has its own way through open.
Way ==
  /\ Kind \notin {"formLogin", "ssoRedirect"} => at \in {"closed", "base", "ready", "failed"}
  /\ Kind = "formLogin" =>
       at \in {"closed", "form", "typing", "checking", "base", "ready", "failed"}
  /\ Kind = "ssoRedirect" => at \notin {"form", "typing", "checking"}
  /\ late => Kind \in {"formLogin", "ssoRedirect"}
  /\ asked => at \in {"idpForm", "idpCheck", "settling", "settled", "ready", "failed"}

\* A storage state that was given is neither lost nor written over.
GivenKept ==
  Kind = "storageState" =>
    /\ saved = setup.given
    /\ at \in {"base", "ready"} => visitor = saved

FormProven ==
  Kind = "formLogin" /\ "text" \in setup.told /\ ~renewed =>
    (at \in {"base", "ready"} => visitor = "user")

\* What is proven at the identity provider is saved before the run works.
ProviderProven ==
  Kind = "ssoRedirect" /\ "text" \in setup.told /\ setup.idp /\ asked =>
    /\ at \in {"settling", "settled", "ready"} => visitor = "user"
    /\ at \in {"settled", "ready"} => saved = "user"

SessionInv == SessionTypeOK /\ Way /\ GivenKept /\ FormProven /\ ProviderProven

\* What the assumption says of one setup.
LEMMA SetupType ==
  ASSUME NEW s \in Setups
  PROVE  /\ s.kind \in {"none", "storageState", "formLogin", "ssoRedirect"}
         /\ s.given \in {"unset", "missing", "anonymous", "user"}
  BY SetupsAssumption

\* The invariant holds in the initial states.
LEMMA SessionInitOK == SessionInit => SessionInv
<1> SUFFICES ASSUME SessionInit PROVE SessionInv
  OBVIOUS
<1>1. /\ setup.kind \in {"none", "storageState", "formLogin", "ssoRedirect"}
      /\ setup.given \in {"unset", "missing", "anonymous", "user"}
  BY SetupType DEF SessionInit
<1>2. SessionTypeOK
  <2>1. 0 \in 0 .. MaxRetries /\ 0 \in 0 .. MaxLosses
    BY SessionBoundsAssumption
  <2>2. saved \in {"unset", "missing", "anonymous", "user"}
    BY <1>1 DEF SessionInit
  <2> QED BY <2>1, <2>2 DEF SessionInit, SessionTypeOK
<1>3. Way
  BY <1>1 DEF SessionInit, Way, Kind
<1>4. GivenKept
  BY <1>1 DEF SessionInit, GivenKept, Kind
<1>5. FormProven /\ ProviderProven
  BY DEF SessionInit, FormProven, ProviderProven
<1> QED BY <1>2, <1>3, <1>4, <1>5 DEF SessionInv

\* The steps that open the browser and navigate.
LEMMA OpenStep ==
  ASSUME SessionInv, OpenThrows \/ OpenContext \/ ToBase
  PROVE  SessionInv'
<1> USE SessionBoundsAssumption DEF Kind, history, SessionInv, SessionTypeOK, Way, GivenKept,
                                    FormProven, ProviderProven
<1>1. /\ setup.kind \in {"none", "storageState", "formLogin", "ssoRedirect"}
      /\ setup.given \in {"unset", "missing", "anonymous", "user"}
  BY SetupType
<1>2. CASE OpenThrows
  BY <1>1, <1>2 DEF OpenThrows
<1>3. CASE OpenContext
  BY <1>1, <1>3 DEF OpenContext
<1>4. CASE ToBase
  BY <1>1, <1>4 DEF ToBase, Landing
<1> QED BY <1>2, <1>3, <1>4

\* The steps of a form login.
LEMMA FormStep ==
  ASSUME SessionInv, NoCredentials \/ ToForm \/ Submit \/ AttemptThrows \/ LoggedIn
  PROVE  SessionInv'
<1> USE SessionBoundsAssumption DEF Kind, history, SessionInv, SessionTypeOK, Way, GivenKept,
                                    FormProven, ProviderProven
<1>1. /\ setup.kind \in {"none", "storageState", "formLogin", "ssoRedirect"}
      /\ setup.given \in {"unset", "missing", "anonymous", "user"}
  BY SetupType
<1>2. CASE NoCredentials
  BY <1>1, <1>2 DEF NoCredentials
<1>3. CASE ToForm
  BY <1>1, <1>3 DEF ToForm
<1>4. CASE Submit
  BY <1>1, <1>4 DEF Submit, Accepted, Refused, Delayed
<1>5. CASE AttemptThrows
  BY <1>1, <1>5 DEF AttemptThrows
<1>6. CASE LoggedIn
  BY <1>1, <1>6 DEF LoggedIn, ToldHolds, Holds
<1> QED BY <1>2, <1>3, <1>4, <1>5, <1>6

\* The steps of a login at the identity provider.
LEMMA ProviderStep ==
  ASSUME SessionInv, Ask \/ ToProvider \/ IdpSubmit \/ IdpChecked \/ PersonLogsIn \/ SaveSession \/ AskAgain
  PROVE  SessionInv'
<1> USE SessionBoundsAssumption DEF Kind, history, SessionInv, SessionTypeOK, Way, GivenKept,
                                    FormProven, ProviderProven
<1>1. /\ setup.kind \in {"none", "storageState", "formLogin", "ssoRedirect"}
      /\ setup.given \in {"unset", "missing", "anonymous", "user"}
  BY SetupType
<1>2. CASE Ask
  BY <1>1, <1>2 DEF Ask, NeedsSsoLogin
<1>3. CASE ToProvider
  BY <1>1, <1>3 DEF ToProvider
<1>4. CASE IdpSubmit
  BY <1>1, <1>4 DEF IdpSubmit, Accepted
<1>5. CASE IdpChecked
  BY <1>1, <1>5 DEF IdpChecked, ToldHolds, Holds
<1>6. CASE PersonLogsIn
  BY <1>1, <1>6 DEF PersonLogsIn, Accepted
<1>7. CASE SaveSession
  BY <1>1, <1>7 DEF SaveSession
<1>8. CASE AskAgain
  BY <1>1, <1>8 DEF AskAgain, NeedsSsoLogin
<1> QED BY <1>2, <1>3, <1>4, <1>5, <1>6, <1>7, <1>8

\* A late answer, and what is lost while the run works.
LEMMA LossStep ==
  ASSUME SessionInv, Settle \/ KeepContext \/ RenewContext
  PROVE  SessionInv'
<1> USE SessionBoundsAssumption DEF Kind, history, SessionInv, SessionTypeOK, Way, GivenKept,
                                    FormProven, ProviderProven
<1>1. /\ setup.kind \in {"none", "storageState", "formLogin", "ssoRedirect"}
      /\ setup.given \in {"unset", "missing", "anonymous", "user"}
  BY SetupType
<1>2. CASE Settle
  BY <1>1, <1>2 DEF Settle, Accepted
<1>3. CASE KeepContext
  BY <1>1, <1>3 DEF KeepContext, Landing
<1>4. CASE RenewContext
  <2>1. /\ UNCHANGED <<setup, at, saved, attempt, asked>>
        /\ renewed' = TRUE /\ late' = FALSE /\ at = "ready"
        /\ losses' \in 0 .. MaxLosses
        /\ visitor' = Restored
    BY <1>4 DEF RenewContext
  <2>2. visitor' \in {"anonymous", "user"}
    BY <1>1, <2>1 DEF Restored
  <2>3. place' \in {"blank", "app", "login"}
    BY <1>4 DEF RenewContext, Landing
  <2>4. SessionTypeOK' /\ Way' /\ FormProven'
    BY <2>1, <2>2, <2>3
  <2>5. GivenKept' /\ ProviderProven'
    BY <1>1, <2>1 DEF Restored
  <2> QED BY <2>4, <2>5
<1> QED BY <1>2, <1>3, <1>4

\* For every setup, number of retries and number of losses: a run whose login
\* was proven works as the user (PlaywrightHarness.open, recoverPage).
THEOREM ProvenLoginLasts == SessionSpec => []LoginLasts
<1>1. SessionInv /\ [SessionNext]_sessionVars => SessionInv'
  <2> SUFFICES ASSUME SessionInv, [SessionNext]_sessionVars PROVE SessionInv'
    OBVIOUS
  <2>1. CASE SessionNext
    BY <2>1, OpenStep, FormStep, ProviderStep, LossStep DEF SessionNext
  <2>2. CASE UNCHANGED sessionVars
    BY <2>2 DEF sessionVars, history, SessionInv, SessionTypeOK, Way, GivenKept, FormProven,
                ProviderProven, Kind
  <2> QED BY <2>1, <2>2
<1>2. SessionInv => LoginLasts
  BY DEF SessionInv, Way, GivenKept, FormProven, ProviderProven, LoginLasts, Proven
<1> QED BY SessionInitOK, <1>1, <1>2, PTL DEF SessionSpec

=============================================================================
