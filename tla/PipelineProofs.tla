--------------------------- MODULE PipelineProofs --------------------------
(***************************************************************************)
(* Proofs about the gates and the exit code of the pipeline, for any       *)
(* number of jobs, one after the other or at once, with any number of      *)
(* errors and kills; and about the files of a job that has the directory   *)
(* for itself: for which demand it plans, and what its OK stands for.      *)
(***************************************************************************)
EXTENDS Pipeline, WellFoundedInduction, TLAPS

(* The part of the types the records of the stages rest on.                 *)
RecordsOK ==
  /\ mode \in [Jobs -> Modes]
  /\ stage \in [Jobs -> Stages \cup {"idle", "ended", "killed"}]
  /\ steps \in [Jobs -> Seq([name : Stages, exitCode : ExitCodes])]

(* A job that has not started has no records.                               *)
IdleIsUnrecorded == \A j \in Jobs : stage[j] = "idle" => steps[j] = <<>>

(* What is inductive: that the record of a failed gate is the last one      *)
(* holds after a start only because an idle job has no record at all.       *)
GateInv == RecordsOK /\ IdleIsUnrecorded /\ StopsAtGates

(* A record appended by a stage that may go on: of a gate only with OK.     *)
Harmless(j, code) ==
  Active(j) /\ code \in ExitCodes
    /\ (stage[j] \in Gates \cup {"auto-config"} => code = "OK")

(* The stage after a stage is a stage, or the end.                          *)
LEMMA NextStageType ==
  ASSUME RecordsOK, NEW j \in Jobs, Active(j)
  PROVE  NextStage(j) \in Stages \cup {"ended"}
BY DEF RecordsOK, Active, NextStage, Stages, Gates, Modes

(* A sequence with an element more is a sequence, and not empty.            *)
LEMMA AppendType ==
  ASSUME NEW S, NEW s \in Seq(S), NEW e \in S
  PROVE  Append(s, e) \in Seq(S) /\ Append(s, e) # <<>>
<1>1. Append(s, e) \in Seq(S) /\ Len(Append(s, e)) = Len(s) + 1
  OBVIOUS
<1>2. Len(s) \in Nat /\ Len(<<>>) = 0
  OBVIOUS
<1> QED BY <1>1, <1>2

(* The elements of a sequence over a set are in the set.                    *)
LEMMA ElementType ==
  ASSUME NEW S, NEW s \in Seq(S)
  PROVE  \A i \in 1..Len(s) : s[i] \in S
OBVIOUS

(* The variables of the records change for one job at most.                 *)
LEMMA RecordKeepsOthers ==
  ASSUME RecordsOK, NEW j \in Jobs, Active(j), NEW code \in ExitCodes,
         Record(j, code)
  PROVE  /\ mode' \in [Jobs -> Modes]
         /\ steps'[j] # <<>>
         /\ steps' \in [Jobs -> Seq([name : Stages, exitCode : ExitCodes])]
         /\ steps'[j] = Append(steps[j], [name |-> stage[j], exitCode |-> code])
         /\ \A k \in Jobs \ {j} : steps'[k] = steps[k]
<1> DEFINE r == [name |-> stage[j], exitCode |-> code]
<1>1. r \in [name : Stages, exitCode : ExitCodes]
  BY DEF Active
<1>2. /\ Append(steps[j], r) \in Seq([name : Stages, exitCode : ExitCodes])
      /\ Append(steps[j], r) # <<>>
  <2>1. steps[j] \in Seq([name : Stages, exitCode : ExitCodes])
    BY DEF RecordsOK
  <2> HIDE DEF r
  <2> QED BY <1>1, <2>1, AppendType
<1>3. steps' = [steps EXCEPT ![j] = Append(steps[j], r)] /\ mode' = mode
  BY DEF Record
<1> QED BY <1>2, <1>3 DEF RecordsOK

(* A stage that goes on leaves the invariant as it found it.                *)
LEMMA GoingOn ==
  ASSUME GateInv, NEW j \in Jobs, NEW code, Harmless(j, code), GoOn(j, code)
  PROVE  GateInv'
<1>1. RecordsOK /\ Active(j) /\ code \in ExitCodes /\ Record(j, code)
  BY DEF GateInv, Harmless, GoOn
<1>2. stage' = [stage EXCEPT ![j] = NextStage(j)] /\ NextStage(j) \in Stages \cup {"ended"}
  BY <1>1, NextStageType DEF GoOn
<1>3. RecordsOK'
  BY <1>1, <1>2, RecordKeepsOthers DEF RecordsOK
<1>4. IdleIsUnrecorded'
  <2> SUFFICES ASSUME NEW k \in Jobs, stage'[k] = "idle" PROVE steps'[k] = <<>>
    BY DEF IdleIsUnrecorded
  <2>1. k # j
    BY <1>1, <1>2 DEF RecordsOK, Stages, Gates
  <2> QED BY <1>1, <1>2, <2>1, RecordKeepsOthers DEF GateInv, IdleIsUnrecorded, RecordsOK
<1>5. StopsAtGates'
  <2> SUFFICES ASSUME NEW k \in Jobs, NEW i \in DOMAIN steps'[k],
                      steps'[k][i].name \in Gates \cup {"auto-config"},
                      steps'[k][i].exitCode # "OK"
               PROVE  i = Len(steps'[k]) /\ ~Active(k)'
    BY DEF StopsAtGates
  <2>1. CASE k # j
    <3>1. steps'[k] = steps[k] /\ stage'[k] = stage[k]
      BY <1>1, <1>2, <2>1, RecordKeepsOthers DEF RecordsOK
    <3> QED BY <3>1 DEF GateInv, StopsAtGates, Active
  <2>2. CASE k = j
    <3> DEFINE r == [name |-> stage[j], exitCode |-> code]
    <3>1. steps'[j] = Append(steps[j], r) /\ steps[j] \in Seq([name : Stages, exitCode : ExitCodes])
      BY <1>1, RecordKeepsOthers DEF RecordsOK
    <3>2. (i \in DOMAIN steps[j] /\ steps'[j][i] = steps[j][i]) \/ steps'[j][i] = r
      BY <2>2, <3>1
    <3>3. ~(i \in DOMAIN steps[j] /\ steps'[j][i] = steps[j][i])
      BY <1>1, <2>2 DEF GateInv, StopsAtGates
    <3>4. r.name \in Gates \cup {"auto-config"} => r.exitCode = "OK"
      BY DEF Harmless
    <3> QED BY <2>2, <3>2, <3>3, <3>4
  <2> QED BY <2>1, <2>2
<1> QED BY <1>3, <1>4, <1>5 DEF GateInv

(* So does one that ends the job, whatever its code.                        *)
LEMMA Stopping ==
  ASSUME GateInv, NEW j \in Jobs, Active(j), NEW code \in ExitCodes, Stop(j, code)
  PROVE  GateInv'
<1>1. RecordsOK /\ Record(j, code) /\ stage' = [stage EXCEPT ![j] = "ended"]
  BY DEF GateInv, Stop
<1>2. RecordsOK'
  BY <1>1, RecordKeepsOthers DEF RecordsOK
<1>3. IdleIsUnrecorded'
  BY <1>1, RecordKeepsOthers DEF GateInv, IdleIsUnrecorded, RecordsOK
<1>4. StopsAtGates'
  <2> SUFFICES ASSUME NEW k \in Jobs, NEW i \in DOMAIN steps'[k],
                      steps'[k][i].name \in Gates \cup {"auto-config"},
                      steps'[k][i].exitCode # "OK"
               PROVE  i = Len(steps'[k]) /\ ~Active(k)'
    BY DEF StopsAtGates
  <2>1. CASE k # j
    <3>1. steps'[k] = steps[k] /\ stage'[k] = stage[k]
      BY <1>1, <2>1, RecordKeepsOthers DEF RecordsOK
    <3> QED BY <3>1 DEF GateInv, StopsAtGates, Active
  <2>2. CASE k = j
    <3> DEFINE r == [name |-> stage[j], exitCode |-> code]
    <3>1. steps'[j] = Append(steps[j], r) /\ steps[j] \in Seq([name : Stages, exitCode : ExitCodes])
      BY <1>1, RecordKeepsOthers DEF RecordsOK
    <3>2. (i \in DOMAIN steps[j] /\ steps'[j][i] = steps[j][i]) \/ i = Len(steps'[j])
      BY <2>2, <3>1
    <3>3. ~(i \in DOMAIN steps[j] /\ steps'[j][i] = steps[j][i])
      BY <2>2 DEF GateInv, StopsAtGates
    <3>4. stage'[j] = "ended"
      BY <1>1 DEF RecordsOK
    <3> QED BY <2>2, <3>2, <3>3, <3>4 DEF Active, Stages, Gates
  <2> QED BY <2>1, <2>2
<1> QED BY <1>2, <1>3, <1>4 DEF GateInv

(* The invariant holds initially and is kept by every step.                 *)
THEOREM GateInvInit == Init => GateInv
<1> SUFFICES ASSUME Init PROVE GateInv
  OBVIOUS
<1>1. RecordsOK
  BY DEF Init, RecordsOK, ExitCodes
<1>2. IdleIsUnrecorded /\ StopsAtGates
  BY DEF Init, IdleIsUnrecorded, StopsAtGates
<1> QED BY <1>1, <1>2 DEF GateInv

(* A step that changes nothing the invariant speaks of keeps it.            *)
LEMMA Untouched ==
  ASSUME GateInv, mode' = mode, steps' = steps,
         \/ stage' = stage
         \/ \E j \in Jobs : /\ Active(j)
                           /\ stage' = [stage EXCEPT ![j] = "killed"]
  PROVE  GateInv'
<1>1. RecordsOK'
  BY DEF GateInv, RecordsOK
<1>2. \A k \in Jobs : stage'[k] = stage[k] \/ stage'[k] = "killed"
  BY DEF GateInv, RecordsOK
<1>3. IdleIsUnrecorded'
  BY <1>2 DEF GateInv, IdleIsUnrecorded
<1>4. StopsAtGates'
  <2>1. \A k \in Jobs : Active(k)' => Active(k)
    BY <1>2 DEF Active, Stages, Gates
  <2> QED BY <2>1 DEF GateInv, StopsAtGates
<1> QED BY <1>1, <1>3, <1>4 DEF GateInv

(* No step of any job breaks the invariant.                                 *)
THEOREM GateInvStep == GateInv /\ [Next]_vars => GateInv'
<1> SUFFICES ASSUME GateInv, [Next]_vars PROVE GateInv'
  OBVIOUS
<1> USE DEF ExitCodes, ThrownCodes
<1>1. CASE UNCHANGED vars \/ AllOver \/ Expire
  BY <1>1, Untouched DEF vars, AllOver, Expire
<1>2. ASSUME NEW j \in Jobs, Start(j) PROVE GateInv'
  <2>1. /\ mode' = mode /\ steps' = steps
        /\ stage' = [stage EXCEPT ![j] = IF mode[j] = "correlate" THEN "correlate" ELSE "prepare"]
    BY <1>2 DEF Start
  <2>2. RecordsOK'
    BY <2>1 DEF GateInv, RecordsOK, Stages, Gates
  <2>3. steps[j] = <<>>
    BY <1>2 DEF Start, GateInv, IdleIsUnrecorded
  <2>4. \A k \in Jobs \ {j} : stage'[k] = stage[k]
    BY <2>1 DEF GateInv, RecordsOK
  <2>5. stage'[j] # "idle"
    BY <2>1 DEF GateInv, RecordsOK
  <2>6. IdleIsUnrecorded' /\ StopsAtGates'
    BY <2>1, <2>3, <2>4, <2>5 DEF GateInv, IdleIsUnrecorded, StopsAtGates, Active
  <2> QED BY <2>2, <2>6 DEF GateInv
<1>3. ASSUME NEW j \in Jobs, Prepare(j) PROVE GateInv'
  <2>1. Active(j)
    BY <1>3 DEF Prepare, Active, Stages, Gates
  <2>2. GoOn(j, "OK") \/ \E c \in ExitCodes : Stop(j, c)
    BY <1>3 DEF Prepare, Block
  <2>3. Harmless(j, "OK")
    BY <2>1 DEF Harmless
  <2> QED BY <2>1, <2>2, <2>3, GoingOn, Stopping
<1>4. ASSUME NEW j \in Jobs, CorrelateBegin(j) \/ CorrelateEnd(j) PROVE GateInv'
  <2>1. Active(j)
    BY <1>4 DEF CorrelateBegin, CorrelateEnd, Active, Stages, Gates
  <2>2. \/ GoOn(j, "OK") \/ \E c \in ExitCodes : Stop(j, c)
        \/ UNCHANGED <<mode, stage, steps>>
    BY <1>4 DEF CorrelateBegin, CorrelateEnd, Block
  <2>3. Harmless(j, "OK")
    BY <2>1 DEF Harmless
  <2> QED BY <2>1, <2>2, <2>3, GoingOn, Stopping, Untouched
<1>5. ASSUME NEW j \in Jobs, AutoConfig(j) PROVE GateInv'
  <2>1. Active(j)
    BY <1>5 DEF AutoConfig, Active, Stages, Gates
  <2>2. GoOn(j, "OK") \/ \E c \in ExitCodes : Stop(j, c)
    BY <1>5 DEF AutoConfig
  <2>3. Harmless(j, "OK")
    BY <2>1 DEF Harmless
  <2> QED BY <2>1, <2>2, <2>3, GoingOn, Stopping
<1>6. ASSUME NEW j \in Jobs,
             \/ StageFails(j) \/ Risk(j) \/ GeneratePlanBegin(j) \/ GeneratePlanEnd(j)
             \/ ExecuteBegin(j) \/ ExecuteEnd(j) \/ Report(j) \/ Learning(j)
             \/ PromoteLearning(j)
      PROVE  GateInv'
  <2>1. Active(j) /\ stage[j] \notin Gates \cup {"auto-config"}
    BY <1>6 DEF StageFails, Risk, GeneratePlanBegin, GeneratePlanEnd, ExecuteBegin,
                ExecuteEnd, Report, Learning, PromoteLearning, Active, Stages, Gates
  <2>2. (\E c \in ExitCodes : GoOn(j, c)) \/ UNCHANGED <<mode, stage, steps>>
    BY <1>6 DEF StageFails, Risk, GeneratePlanBegin, GeneratePlanEnd, ExecuteBegin,
                ExecuteEnd, Report, Learning, PromoteLearning, PlanAnswered
  <2>3. \A c \in ExitCodes : Harmless(j, c)
    BY <2>1 DEF Harmless
  <2> QED BY <2>2, <2>3, GoingOn, Untouched
<1>7. ASSUME NEW j \in Jobs, Kill(j) PROVE GateInv'
  BY <1>7, Untouched DEF Kill
<1> QED BY <1>1, <1>2, <1>3, <1>4, <1>5, <1>6, <1>7 DEF Next, Step

(* For any number of jobs, required scenarios, errors and kills, no stage   *)
(* of a job runs after a gate or an auto-config of it that failed.          *)
THEOREM GatesStop == Spec => []StopsAtGates
<1>1. GateInv => StopsAtGates
  BY DEF GateInv
<1> QED BY <1>1, GateInvInit, GateInvStep, PTL DEF Spec

-----------------------------------------------------------------------------
(* The exit code.                                                           *)

(* A non-empty set of naturals has a least one.                             *)
LEMMA LeastNatural ==
  ASSUME NEW T \in SUBSET Nat, T # {}
  PROVE  \E m \in T : \A n \in T : m <= n
<1> DEFINE R == OpToRel(<, Nat)
<1>1. IsWellFoundedOn(R, Nat)
  BY NatLessThanWellFounded
<1>2. \A x, y \in Nat : y < x => <<y, x>> \in R
  BY DEF OpToRel
<1> HIDE DEF R
<1>3. PICK m \in T : \A n \in T : ~(<<n, m>> \in R)
  BY <1>1, WFMin
<1>4. ASSUME NEW n \in T PROVE m <= n
  <2>1. m \in Nat /\ n \in Nat
    OBVIOUS
  <2>2. ~(n < m)
    BY <1>2, <1>3, <2>1
  <2> QED BY <2>1, <2>2
<1> QED BY <1>4

(* The summary of some codes is one of them, and none is more severe.       *)
LEMMA MostSevere ==
  ASSUME NEW codes \in Seq(ExitCodes), codes # <<>>
  PROVE  \E i \in DOMAIN codes :
           /\ MostSevereExitCode(codes) = codes[i]
           /\ \A k \in DOMAIN codes : SeverityRank[codes[k]] <= SeverityRank[codes[i]]
<1> DEFINE Rank(i) == SeverityRank[codes[i]]
           Worst == {i \in DOMAIN codes : \A k \in DOMAIN codes : Rank(k) <= Rank(i)}
           Least == {5 - Rank(i) : i \in DOMAIN codes}
<1>1. DOMAIN codes = 1..Len(codes) /\ Len(codes) \in Nat /\ 1 \in DOMAIN codes
  OBVIOUS
<1>2. \A i \in DOMAIN codes : Rank(i) \in 0..5
  <2> TAKE i \in DOMAIN codes
  <2>1. codes[i] \in ExitCodes
    OBVIOUS
  <2> QED BY <2>1 DEF ExitCodes, SeverityRank
<1> HIDE DEF Rank
<1>3. Worst # {}
  <2>1. Least \subseteq Nat /\ Least # {}
    BY <1>1, <1>2
  <2>2. PICK m \in Least : \A n \in Least : m <= n
    BY <2>1, LeastNatural
  <2>3. PICK i \in DOMAIN codes : m = 5 - Rank(i)
    BY <2>2
  <2>4. ASSUME NEW k \in DOMAIN codes PROVE Rank(k) <= Rank(i)
    <3>1. 5 - Rank(i) <= 5 - Rank(k)
      BY <2>2, <2>3
    <3> QED BY <1>2, <3>1
  <2> QED BY <2>4
<1>4. \E i \in Worst : \A k \in Worst : i <= k
  <2>1. Worst \subseteq Nat
    BY <1>1
  <2> QED BY <1>3, <2>1, LeastNatural
<1> DEFINE first == CHOOSE i \in Worst : \A k \in Worst : i <= k
<1>5. first \in Worst
  BY <1>4
<1>6. MostSevereExitCode(codes) = codes[first]
  BY DEF MostSevereExitCode, Rank
<1> QED BY <1>5, <1>6 DEF Rank

(* A job that ended by itself has a record.                                 *)
EndedIsRecorded == \A j \in Jobs : stage[j] = "ended" => steps[j] # <<>>

EndInv == RecordsOK /\ EndedIsRecorded

(* The end of a stage leaves a record, so an ended job has one.             *)
LEMMA Recording ==
  ASSUME EndInv, NEW j \in Jobs, Active(j), NEW code \in ExitCodes,
         GoOn(j, code) \/ Stop(j, code)
  PROVE  EndInv'
<1>1. Record(j, code) /\ RecordsOK
  BY DEF GoOn, Stop, EndInv
<1>2. \E next \in Stages \cup {"ended"} : stage' = [stage EXCEPT ![j] = next]
  BY <1>1, NextStageType DEF GoOn, Stop
<1>3. RecordsOK'
  BY <1>1, <1>2, RecordKeepsOthers DEF RecordsOK
<1>4. steps'[j] # <<>>
  BY <1>1, RecordKeepsOthers
<1>5. \A k \in Jobs \ {j} : stage'[k] = stage[k] /\ steps'[k] = steps[k]
  BY <1>1, <1>2, RecordKeepsOthers DEF RecordsOK
<1> QED BY <1>3, <1>4, <1>5 DEF EndInv, EndedIsRecorded

(* A step that ends no job keeps the invariant.                             *)
LEMMA NotEnding ==
  ASSUME EndInv, mode' = mode, steps' = steps,
         \/ stage' = stage
         \/ \E j \in Jobs, next \in Stages \cup {"killed"} : stage' = [stage EXCEPT ![j] = next]
  PROVE  EndInv'
<1>1. RecordsOK'
  BY DEF EndInv, RecordsOK
<1>2. \A k \in Jobs : stage'[k] = "ended" => stage[k] = "ended"
  BY DEF EndInv, RecordsOK, Stages, Gates
<1> QED BY <1>1, <1>2 DEF EndInv, EndedIsRecorded

(* No step of any job ends a job without a record.                          *)
THEOREM EndInvStep == EndInv /\ [Next]_vars => EndInv'
<1> SUFFICES ASSUME EndInv, [Next]_vars PROVE EndInv'
  OBVIOUS
<1>1. CASE UNCHANGED vars \/ AllOver \/ Expire
  BY <1>1, NotEnding DEF vars, AllOver, Expire
<1>2. ASSUME NEW j \in Jobs, Start(j) \/ Kill(j) PROVE EndInv'
  <2>1. /\ mode' = mode /\ steps' = steps
        /\ \E next \in Stages \cup {"killed"} : stage' = [stage EXCEPT ![j] = next]
    BY <1>2 DEF Start, Kill, Stages, Gates
  <2> QED BY <2>1, NotEnding
<1>3. ASSUME NEW j \in Jobs, Step(j), ~Start(j), ~Kill(j) PROVE EndInv'
  <2>1. Active(j)
    BY <1>3 DEF Step, StageFails, Prepare, CorrelateBegin, CorrelateEnd, AutoConfig, Risk,
                GeneratePlanBegin, GeneratePlanEnd, ExecuteBegin, ExecuteEnd, Report,
                Learning, PromoteLearning, Active, Stages, Gates
  <2>2. \/ \E c \in ExitCodes : GoOn(j, c) \/ Stop(j, c)
        \/ UNCHANGED <<mode, stage, steps>>
    BY <1>3 DEF Step, StageFails, Prepare, CorrelateBegin, CorrelateEnd, AutoConfig, Risk,
                GeneratePlanBegin, GeneratePlanEnd, ExecuteBegin, ExecuteEnd, Report,
                Learning, PromoteLearning, PlanAnswered, Block, ExitCodes, ThrownCodes
  <2> QED BY <2>1, <2>2, Recording, NotEnding
<1> QED BY <1>1, <1>2, <1>3 DEF Next

(* What a job that ended answers follows from its records.                  *)
LEMMA EndInvSummed == EndInv => ExitIsMostSevere
<1> SUFFICES ASSUME EndInv, NEW j \in Jobs, stage[j] = "ended"
             PROVE  LET codes == {steps[j][i].exitCode : i \in DOMAIN steps[j]}
                        code == FinalExitCode(j)
                    IN  /\ code \in codes
                        /\ code = "OK" => codes = {"OK"}
                        /\ "HARNESS_FATAL" \in codes => code = "HARNESS_FATAL"
                        /\ "BUGS_FOUND" \in codes => code \notin {"OK", "CONFIG_ERROR"}
  BY DEF ExitIsMostSevere
<1> DEFINE cs == Codes(j)
<1>1. steps[j] \in Seq([name : Stages, exitCode : ExitCodes]) /\ steps[j] # <<>>
  BY DEF EndInv, RecordsOK, EndedIsRecorded
<1>2. /\ DOMAIN cs = DOMAIN steps[j] /\ cs \in Seq(ExitCodes) /\ cs # <<>>
      /\ \A i \in DOMAIN steps[j] : cs[i] = steps[j][i].exitCode /\ cs[i] \in ExitCodes
  <2> DEFINE n == Len(steps[j])
  <2>1. n \in Nat /\ n # 0 /\ DOMAIN steps[j] = 1..n
    BY <1>1
  <2>2. \A i \in 1..n : steps[j][i].exitCode \in ExitCodes
    <3>1. \A i \in 1..n : steps[j][i] \in [name : Stages, exitCode : ExitCodes]
      BY <1>1, ElementType
    <3> QED BY <3>1
  <2>3. cs = [i \in 1..n |-> steps[j][i].exitCode]
    BY <2>1 DEF Codes
  <2> HIDE DEF cs, n
  <2>4. cs \in [1..n -> ExitCodes]
    BY <2>2, <2>3
  <2>5. cs \in Seq(ExitCodes) /\ Len(cs) = n
    BY <2>1, <2>4
  <2> QED BY <2>1, <2>2, <2>3, <2>5
<1> HIDE DEF cs
<1>3. PICK i \in DOMAIN cs :
        /\ MostSevereExitCode(cs) = cs[i]
        /\ \A k \in DOMAIN cs : SeverityRank[cs[k]] <= SeverityRank[cs[i]]
  BY <1>2, MostSevere
<1>4. FinalExitCode(j) = cs[i]
  BY <1>3 DEF FinalExitCode, cs
<1>5. \A k \in DOMAIN cs :
        /\ cs[i] = "OK" => cs[k] = "OK"
        /\ cs[k] = "HARNESS_FATAL" => cs[i] = "HARNESS_FATAL"
        /\ cs[k] = "BUGS_FOUND" => cs[i] \notin {"OK", "CONFIG_ERROR"}
  BY <1>2, <1>3 DEF ExitCodes, SeverityRank
<1> QED BY <1>2, <1>3, <1>4, <1>5

(* Whatever the stages of whatever number of jobs report, the exit code is  *)
(* that of one of them and hides nothing more severe.                       *)
THEOREM ExitCodeIsMostSevere == Spec => []ExitIsMostSevere
<1>1. Init => EndInv
  BY DEF Init, EndInv, RecordsOK, EndedIsRecorded
<1> QED BY <1>1, EndInvStep, EndInvSummed, PTL DEF Spec

-----------------------------------------------------------------------------
(* The files of a job that has the directory for itself.                    *)

ShapesOK ==
  /\ RecordsOK
  /\ DOMAIN dir = Artifacts /\ DOMAIN input = Jobs /\ DOMAIN demandId = Jobs

(* A file is in work only in an active job.                                 *)
Held == \A k \in Jobs : input[k] # NoFile => Active(k)

(* Nothing in the directory, the configs or the cache stems from a job that *)
(* has not started.                                                         *)
Unheard(j) ==
  /\ \A a \in Artifacts : dir[a] # NoFile => dir[a].by # j /\ dir[a].of # j
  /\ \A k \in Jobs : demandId[k] # j /\ (input[k] # NoFile => input[k].of # j)
  /\ \A key \in DOMAIN cache : key[1] # j

IdleIsUnheard == \A j \in Jobs : stage[j] = "idle" => Unheard(j)

(* Scenarios of the memory, and required ones, are labelled as such.        *)
Labelled ==
  /\ dir["selected-scenarios"] # NoFile =>
       \A s \in dir["selected-scenarios"].about : s.of = Memory
  /\ dir["required-scenarios"] # NoFile =>
       \A s \in dir["required-scenarios"].about : s.of = dir["required-scenarios"].of

Ours(j, about) == \A s \in about : s.of \in {j, Memory}

Planning == {"risk", "generate-plan", "execute", "report", "learning", "promote-learning"}

(* What the stages of such a job have established, if it has an auto-config.*)
Settled(j) ==
  /\ stage[j] # "prepare" => dir["pr-diff-context"].of = j
  /\ stage[j] = "correlate" /\ input[j] # NoFile => input[j].of = j
  /\ stage[j] \in Planning \cup {"auto-config"} =>
       dir["demand-context"].of = j /\ dir["required-scenarios"].of = j
  /\ stage[j] \in Planning => demandId[j] = j
  /\ stage[j] = "generate-plan" /\ input[j] # NoFile => Ours(j, input[j].about)

(* What a job that was never active together with another one can rely on.  *)
Own(j) ==
  /\ \A k \in Jobs \ {j} : ~Active(k) /\ demandId[k] # j
  /\ \A key \in DOMAIN cache : key[1] = j /\ cache[key] # NoPlan => Ours(j, cache[key])
  /\ stage[j] = "auto-config" \/ demandId[j] = j => mode[j] = "all with auto-config"
  /\ mode[j] = "all with auto-config" => Settled(j)

OwnedByItsJob == \A j \in Jobs \ shared : Active(j) => Own(j)

DirInv == ShapesOK /\ Held /\ IdleIsUnheard /\ Labelled /\ OwnedByItsJob /\ PlanIsForItsDemand

(* The end of a stage.                                                      *)
LEMMA StageEnds ==
  ASSUME ShapesOK, NEW j \in Jobs, Active(j), NEW code \in ExitCodes, GoOn(j, code) \/ Stop(j, code)
  PROVE  /\ RecordsOK' /\ UNCHANGED <<mode, shared>>
         /\ input' = [input EXCEPT ![j] = NoFile]
         /\ \E next \in Stages \cup {"ended"} : stage' = [stage EXCEPT ![j] = next]
         /\ stage'[j] \in Stages \cup {"ended"}
         /\ GoOn(j, code) => stage'[j] = NextStage(j)
         /\ Stop(j, code) => stage'[j] = "ended"
         /\ \A k \in Jobs \ {j} : stage'[k] = stage[k] /\ Active(k)' = Active(k)
<1>1. RecordsOK /\ Record(j, code)
  BY DEF ShapesOK, GoOn, Stop
<1>2. NextStage(j) \in Stages \cup {"ended"}
  BY <1>1, NextStageType
<1>3. PICK next \in Stages \cup {"ended"} : stage' = [stage EXCEPT ![j] = next]
  BY <1>2 DEF GoOn, Stop
<1>4. RecordsOK'
  BY <1>1, <1>3, RecordKeepsOthers DEF RecordsOK
<1>5. UNCHANGED <<mode, shared>> /\ input' = [input EXCEPT ![j] = NoFile]
  BY <1>1 DEF Record
<1>6. /\ GoOn(j, code) => stage'[j] = NextStage(j)
      /\ Stop(j, code) => stage'[j] = "ended"
  BY <1>1 DEF GoOn, Stop, RecordsOK
<1>7. \A k \in Jobs \ {j} : stage'[k] = stage[k] /\ Active(k)' = Active(k)
  BY <1>1, <1>3 DEF RecordsOK, Active
<1>8. stage'[j] \in Stages \cup {"ended"}
  BY <1>1, <1>3 DEF RecordsOK
<1> QED BY <1>3, <1>4, <1>5, <1>6, <1>7, <1>8

(* What a step of an active job must show for the invariant to be kept: the *)
(* other jobs are as they were, and cannot be active if j was never shared. *)
LEMMA Assembled ==
  ASSUME DirInv, NEW j \in Jobs, Active(j), ShapesOK', UNCHANGED <<mode, shared>>,
         \A k \in Jobs \ {j} : /\ stage'[k] = stage[k] /\ input'[k] = input[k]
                               /\ demandId'[k] = demandId[k],
         stage'[j] # "idle", input'[j] # NoFile => Active(j)',
         \A k \in Jobs \ {j} : stage[k] = "idle" => Unheard(k)',
         Labelled', PlanIsForItsDemand',
         j \notin shared /\ Own(j) /\ Active(j)' =>
           /\ \A key \in DOMAIN cache' :
                key[1] = j /\ cache'[key] # NoPlan => Ours(j, cache'[key])
           /\ stage'[j] = "auto-config" \/ demandId'[j] = j => mode[j] = "all with auto-config"
           /\ mode[j] = "all with auto-config" => Settled(j)'
  PROVE  DirInv'
<1>1. \A k \in Jobs \ {j} : Active(k)' = Active(k)
  BY DEF Active
<1>2. Held'
  BY <1>1 DEF DirInv, Held
<1>3. IdleIsUnheard'
  BY DEF IdleIsUnheard
<1>4. ASSUME NEW k \in Jobs \ shared', Active(k)' PROVE Own(k)'
  <2>1. CASE k # j
    <3>1. Active(k) /\ k \notin shared
      BY <1>1, <1>4, <2>1
    <3>2. ~Active(j)
      BY <2>1, <3>1 DEF DirInv, OwnedByItsJob, Own
    <3> QED BY <3>2
  <2>2. CASE k = j
    <3>1. j \notin shared /\ Own(j)
      BY <1>4, <2>2 DEF DirInv, OwnedByItsJob
    <3>2. \A i \in Jobs \ {j} : ~Active(i)' /\ demandId'[i] # j
      BY <1>1, <3>1 DEF Own
    <3> QED BY <1>4, <2>2, <3>1, <3>2 DEF Own
  <2> QED BY <2>1, <2>2
<1> QED BY <1>2, <1>3, <1>4 DEF DirInv, OwnedByItsJob

(* The stages after the gates follow each other to the end.                 *)
LEMMA NextOfPlanning ==
  ASSUME NEW j \in Jobs, stage[j] \in Planning, mode[j] \notin Gates
  PROVE  NextStage(j) \in Planning \cup {"ended"}
BY DEF Planning, NextStage

(* A stage that ends and changes no file, no config and no cache.           *)
LEMMA Passing ==
  ASSUME DirInv, NEW j \in Jobs, Active(j), NEW code \in ExitCodes,
         (GoOn(j, code) /\ stage[j] \in Planning) \/ Stop(j, code),
         UNCHANGED <<dir, cache, demandId>>
  PROVE  DirInv'
<1>1. ShapesOK /\ (GoOn(j, code) \/ Stop(j, code))
  BY DEF DirInv
<1>2. /\ RecordsOK' /\ UNCHANGED <<mode, shared>>
      /\ input' = [input EXCEPT ![j] = NoFile]
      /\ stage'[j] \in Stages \cup {"ended"}
      /\ \A k \in Jobs \ {j} : stage'[k] = stage[k]
  BY <1>1, StageEnds
<1>3. ShapesOK'
  BY <1>1, <1>2 DEF ShapesOK
<1>4. \A k \in Jobs \ {j} : input'[k] = input[k] /\ demandId'[k] = demandId[k]
  BY <1>1, <1>2 DEF ShapesOK
<1>5. stage'[j] # "idle" /\ input'[j] = NoFile
  BY <1>1, <1>2 DEF Stages, Gates, ShapesOK
<1>6. ASSUME NEW k \in Jobs \ {j}, stage[k] = "idle" PROVE Unheard(k)'
  <2>1. Unheard(k)
    BY <1>6 DEF DirInv, IdleIsUnheard
  <2>2. \A i \in Jobs : input'[i] # NoFile => input'[i] = input[i]
    BY <1>4, <1>5
  <2> QED BY <2>1, <2>2 DEF Unheard
<1>7. Labelled'
  BY DEF DirInv, Labelled
<1>8. PlanIsForItsDemand'
  BY <1>2 DEF DirInv, PlanIsForItsDemand
<1>9. ASSUME j \notin shared, Own(j), Active(j)'
      PROVE  /\ \A key \in DOMAIN cache' :
                  key[1] = j /\ cache'[key] # NoPlan => Ours(j, cache'[key])
             /\ stage'[j] = "auto-config" \/ demandId'[j] = j => mode[j] = "all with auto-config"
             /\ mode[j] = "all with auto-config" => Settled(j)'
  <2>1. ~Stop(j, code)
    BY <1>1, <1>9, StageEnds DEF Active, Stages, Gates
  <2>2. stage[j] \in Planning /\ stage'[j] = NextStage(j)
    BY <1>1, <2>1, StageEnds
  <2>3. mode[j] = "all with auto-config" => stage'[j] \in Planning
    <3>1. "ended" \notin Stages
      BY DEF Stages, Gates
    <3> QED BY <1>9, <2>2, <3>1, NextOfPlanning DEF Active, Gates
  <2>4. NextStage(j) # "auto-config"
    BY <2>2 DEF NextStage, Planning
  <2>5. mode[j] = "all with auto-config" => Settled(j)'
    BY <1>5, <1>9, <2>2, <2>3 DEF Own, Settled, Planning
  <2> QED BY <1>9, <2>2, <2>4, <2>5 DEF Own
<1> QED BY <1>2, <1>3, <1>4, <1>5, <1>6, <1>7, <1>8, <1>9, Assembled

(* A job starts: if no other is active, nothing of it is anywhere yet.      *)
LEMMA Starting ==
  ASSUME DirInv, NEW j \in Jobs, Start(j)
  PROVE  DirInv'
<1> DEFINE others == {k \in Jobs : Active(k)}
<1>1. /\ stage[j] = "idle" /\ UNCHANGED <<dir, cache, mode, input, steps, demandId>>
      /\ stage' = [stage EXCEPT ![j] = IF mode[j] = "correlate" THEN "correlate"
                                       ELSE "prepare"]
      /\ shared' = IF others = {} THEN shared ELSE shared \cup others \cup {j}
  BY DEF Start
<1>2. ShapesOK /\ Unheard(j)
  BY <1>1 DEF DirInv, IdleIsUnheard
<1>3. /\ stage' \in [Jobs -> Stages \cup {"idle", "ended", "killed"}]
      /\ stage'[j] = IF mode[j] = "correlate" THEN "correlate" ELSE "prepare"
      /\ \A k \in Jobs \ {j} : stage'[k] = stage[k]
  BY <1>1, <1>2 DEF ShapesOK, RecordsOK, Stages, Gates
<1>4. ShapesOK'
  BY <1>1, <1>2, <1>3 DEF ShapesOK, RecordsOK
<1>5. Active(j)' /\ ~Active(j) /\ \A k \in Jobs \ {j} : Active(k)' = Active(k)
  BY <1>1, <1>3 DEF Active, Stages, Gates
<1>6. Held'
  BY <1>1, <1>5 DEF DirInv, Held
<1>7. IdleIsUnheard'
  BY <1>1, <1>3 DEF DirInv, IdleIsUnheard, Unheard
<1>8. Labelled'
  BY <1>1 DEF DirInv, Labelled
<1>9. shared \subseteq shared'
  BY <1>1
<1>10. PlanIsForItsDemand'
  BY <1>1, <1>9 DEF DirInv, PlanIsForItsDemand
<1>11. ASSUME NEW k \in Jobs \ shared', Active(k)' PROVE Own(k)'
  <2>1. k = j /\ others = {}
    <3>1. CASE k = j
      BY <1>1, <1>11, <3>1
    <3>2. CASE k # j
      <4>1. k \in others
        BY <1>5, <1>11, <3>2
      <4> QED BY <1>1, <1>11, <4>1
    <3> QED BY <3>1, <3>2
  <2>2. \A i \in Jobs \ {j} : ~Active(i)' /\ demandId'[i] # j
    BY <1>1, <1>2, <1>5, <2>1 DEF Unheard
  <2>3. (\A key \in DOMAIN cache' : key[1] # j) /\ demandId'[j] # j
    BY <1>1, <1>2 DEF Unheard
  <2>4. input'[j] = NoFile
    BY <1>1, <1>5 DEF DirInv, Held
  <2>5. stage'[j] \in {"prepare", "correlate"}
        /\ (stage'[j] = "correlate" => mode'[j] = "correlate")
    BY <1>1, <1>3
  <2>6. mode'[j] = "all with auto-config" => Settled(j)'
    BY <2>4, <2>5 DEF Settled, Planning
  <2> QED BY <2>1, <2>2, <2>3, <2>5, <2>6 DEF Own
<1> QED BY <1>4, <1>6, <1>7, <1>8, <1>10, <1>11 DEF DirInv, OwnedByItsJob

(* A job is killed: nothing is left to show but that the files are safe.    *)
LEMMA Killing ==
  ASSUME DirInv, NEW j \in Jobs, Kill(j)
  PROVE  DirInv'
<1>1. /\ Active(j) /\ UNCHANGED <<dir, cache, mode, steps, demandId, shared>>
      /\ stage' = [stage EXCEPT ![j] = "killed"] /\ input' = [input EXCEPT ![j] = NoFile]
  BY DEF Kill
<1>2. ShapesOK
  BY DEF DirInv
<1>3. ShapesOK'
  BY <1>1, <1>2 DEF ShapesOK, RecordsOK
<1>4. \A k \in Jobs \ {j} : stage'[k] = stage[k] /\ input'[k] = input[k]
  BY <1>1, <1>2 DEF ShapesOK, RecordsOK
<1>5. stage'[j] = "killed" /\ input'[j] = NoFile
  BY <1>1, <1>2 DEF ShapesOK, RecordsOK
<1>6. ~Active(j)'
  BY <1>5 DEF Active, Stages, Gates
<1>7. ASSUME NEW k \in Jobs \ {j}, stage[k] = "idle" PROVE Unheard(k)'
  <2>1. Unheard(k)
    BY <1>7 DEF DirInv, IdleIsUnheard
  <2>2. \A i \in Jobs : input'[i] # NoFile => input'[i] = input[i]
    BY <1>4, <1>5
  <2> QED BY <1>1, <2>1, <2>2 DEF Unheard
<1>8. Labelled' /\ PlanIsForItsDemand'
  BY <1>1 DEF DirInv, Labelled, PlanIsForItsDemand
<1> QED BY <1>1, <1>3, <1>4, <1>5, <1>6, <1>7, <1>8, Assembled

(* A stage takes the file it works on.                                      *)
LEMMA Taking ==
  ASSUME DirInv, NEW j \in Jobs, Active(j), NEW a \in Artifacts, dir[a] # NoFile,
         input' = [input EXCEPT ![j] = dir[a]],
         UNCHANGED <<dir, cache, mode, stage, steps, demandId, shared>>,
         stage[j] = "correlate" => a = "pr-diff-context",
         (stage[j] = "generate-plan" /\ Own(j) /\ mode[j] = "all with auto-config")
           => Ours(j, dir[a].about)
  PROVE  DirInv'
<1>1. ShapesOK
  BY DEF DirInv
<1>2. ShapesOK'
  BY <1>1 DEF ShapesOK, RecordsOK
<1>3. \A k \in Jobs \ {j} : input'[k] = input[k]
  BY <1>1 DEF ShapesOK
<1>4. input'[j] = dir[a]
  BY <1>1 DEF ShapesOK
<1>5. stage[j] # "idle" /\ Active(j)'
  BY DEF Active, Stages, Gates
<1>6. ASSUME NEW k \in Jobs \ {j}, stage[k] = "idle" PROVE Unheard(k)'
  <2>1. Unheard(k)
    BY <1>6 DEF DirInv, IdleIsUnheard
  <2> QED BY <1>3, <1>4, <2>1 DEF Unheard
<1>7. Labelled' /\ PlanIsForItsDemand'
  BY DEF DirInv, Labelled, PlanIsForItsDemand
<1>8. ASSUME Own(j), mode[j] = "all with auto-config" PROVE Settled(j)'
  <2>1. stage[j] = "correlate" => dir[a].of = j
    BY <1>8 DEF Own, Settled
  <2>2. stage[j] = "generate-plan" => Ours(j, dir[a].about)
    BY <1>8
  <2> QED BY <1>4, <1>8, <2>1, <2>2 DEF Own, Settled
<1>9. ASSUME Own(j)
      PROVE  /\ \A key \in DOMAIN cache' :
                  key[1] = j /\ cache'[key] # NoPlan => Ours(j, cache'[key])
             /\ stage'[j] = "auto-config" \/ demandId'[j] = j => mode[j] = "all with auto-config"
  BY <1>9 DEF Own
<1> QED BY <1>2, <1>3, <1>5, <1>6, <1>7, <1>8, <1>9, Assembled

(* What the end of a stage must show that writes a file or names a demand.  *)
LEMMA Ending ==
  ASSUME DirInv, NEW j \in Jobs, Active(j), NEW code \in ExitCodes,
         GoOn(j, code) \/ Stop(j, code),
         DOMAIN dir' = Artifacts, DOMAIN demandId' = Jobs,
         \A k \in Jobs \ {j} : demandId'[k] = demandId[k],
         \A k \in Jobs \ {j} : Unheard(k) =>
           /\ \A a \in Artifacts : dir'[a] # NoFile => dir'[a].by # k /\ dir'[a].of # k
           /\ demandId'[j] # k
           /\ \A key \in DOMAIN cache' : key[1] # k,
         Labelled', PlanIsForItsDemand',
         j \notin shared /\ Own(j) =>
           /\ \A key \in DOMAIN cache' :
                key[1] = j /\ cache'[key] # NoPlan => Ours(j, cache'[key])
           /\ demandId'[j] = j => mode[j] = "all with auto-config",
         (j \notin shared /\ Own(j) /\ mode[j] = "all with auto-config" /\ GoOn(j, code)
           /\ stage'[j] = NextStage(j) /\ Active(j)' /\ input'[j] = NoFile) => Settled(j)'
  PROVE  DirInv'
<1>1. ShapesOK
  BY DEF DirInv
<1>2. /\ RecordsOK' /\ UNCHANGED <<mode, shared>>
      /\ input' = [input EXCEPT ![j] = NoFile]
      /\ stage'[j] \in Stages \cup {"ended"}
      /\ \A k \in Jobs \ {j} : stage'[k] = stage[k]
  <2>1. PICK next \in Stages \cup {"ended"} : stage' = [stage EXCEPT ![j] = next]
    BY <1>1, StageEnds
  <2>2. stage'[j] = next
    BY <1>1, <2>1 DEF RecordsOK, ShapesOK
  <2> QED BY <1>1, <2>2, StageEnds
<1>3. ShapesOK'
  BY <1>1, <1>2 DEF ShapesOK
<1>4. \A k \in Jobs \ {j} : input'[k] = input[k]
  BY <1>1, <1>2 DEF ShapesOK
<1>5. stage'[j] # "idle" /\ input'[j] = NoFile
  BY <1>1, <1>2 DEF Stages, Gates, ShapesOK
<1>6. ASSUME NEW k \in Jobs \ {j}, stage[k] = "idle" PROVE Unheard(k)'
  <2>1. Unheard(k)
    BY <1>6 DEF DirInv, IdleIsUnheard
  <2>2. \A i \in Jobs : input'[i] # NoFile => input'[i] = input[i]
    BY <1>4, <1>5
  <2>3. \A i \in Jobs : demandId'[i] # k
    BY <2>1 DEF Unheard
  <2> QED BY <2>1, <2>2, <2>3 DEF Unheard
<1>7. ASSUME j \notin shared, Own(j), Active(j)'
      PROVE  /\ stage'[j] = "auto-config" => mode[j] = "all with auto-config"
             /\ mode[j] = "all with auto-config" => Settled(j)'
  <2>1. ~Stop(j, code)
    BY <1>1, <1>7, StageEnds DEF Active, Stages, Gates
  <2>2. GoOn(j, code) /\ stage'[j] = NextStage(j)
    BY <1>1, <2>1, StageEnds
  <2>3. stage'[j] = "auto-config" => mode[j] = "all with auto-config"
    <3>1. mode[j] \in Modes /\ "ended" # "auto-config"
      BY <1>1 DEF ShapesOK, RecordsOK
    <3>2. NextStage(j) = "auto-config" => mode[j] \notin Gates /\ mode[j] # "all"
      <4>1. stage[j] \in Stages
        BY DEF Active
      <4> QED BY <4>1 DEF NextStage, Stages, Gates
    <3> QED BY <2>2, <3>1, <3>2 DEF Modes
  <2> QED BY <1>5, <1>7, <2>2, <2>3
<1> QED BY <1>2, <1>3, <1>4, <1>5, <1>6, <1>7, Assembled

(* Only the file a step writes changes.                                     *)
LEMMA Written ==
  ASSUME ShapesOK, NEW j \in Jobs, NEW a \in Artifacts, NEW of, NEW about, NEW ok,
         Write(j, a, of, about, ok)
  PROVE  /\ DOMAIN dir' = Artifacts
         /\ dir'[a].by = j /\ dir'[a].of = of /\ dir'[a].about = about /\ dir'[a].ok = ok
         /\ \A b \in Artifacts \ {a} : dir'[b] = dir[b]
<1>1. dir' = [dir EXCEPT ![a] = [by |-> j, of |-> of, about |-> about, ok |-> ok]]
  BY DEF Write
<1>2. dir'[a] = [by |-> j, of |-> of, about |-> about, ok |-> ok]
  BY <1>1 DEF ShapesOK
<1> QED BY <1>1, <1>2 DEF ShapesOK

(* What an answer of the planner writes.                                    *)
LEMMA PlanWritten ==
  ASSUME ShapesOK, NEW j \in Jobs, NEW source, NEW answer, PlanAnswered(j, source, answer)
  PROVE  /\ DOMAIN dir' = Artifacts
         /\ \A a \in Artifacts \ {"execution-plan"} : dir'[a] = dir[a]
         /\ \/ dir'["execution-plan"] = dir["execution-plan"]
            \/ /\ answer # NoPlan /\ dir'["execution-plan"].by = j
               /\ dir'["execution-plan"].of = source.of /\ dir'["execution-plan"].about = answer
<1> DEFINE of == source.of
           ok == TRUE
<1>1. CASE answer = NoPlan
  BY <1>1 DEF PlanAnswered, ShapesOK
<1>2. CASE answer # NoPlan
  <2>1. Write(j, "execution-plan", of, answer, ok) /\ "execution-plan" \in Artifacts
    BY <1>2 DEF PlanAnswered, Artifacts
  <2> HIDE DEF of, ok
  <2>2. /\ DOMAIN dir' = Artifacts
        /\ dir'["execution-plan"].by = j /\ dir'["execution-plan"].of = of
        /\ dir'["execution-plan"].about = answer
        /\ \A a \in Artifacts \ {"execution-plan"} : dir'[a] = dir[a]
    BY <2>1, Written
  <2> QED BY <1>2, <2>2 DEF of
<1> QED BY <1>1, <1>2

(* An answer of the planner, be it cached or new.                           *)
LEMMA Answering ==
  ASSUME DirInv, NEW j \in Jobs, stage[j] = "generate-plan", NEW source, NEW answer,
         PlanAnswered(j, source, answer), UNCHANGED demandId,
         \A k \in Jobs \ {j} : Unheard(k) =>
           source.of # k /\ \A key \in DOMAIN cache' : key[1] # k,
         (j \notin shared /\ Own(j)) =>
           /\ \A key \in DOMAIN cache' :
                key[1] = j /\ cache'[key] # NoPlan => Ours(j, cache'[key])
           /\ mode[j] = "all with auto-config" /\ answer # NoPlan => Ours(j, answer)
  PROVE  DirInv'
<1>1. ShapesOK /\ Active(j) /\ UNCHANGED <<mode, shared>>
  BY DEF DirInv, Active, Stages, PlanAnswered, GoOn, Record
<1>2. \E code \in ExitCodes : GoOn(j, code)
  BY DEF PlanAnswered, ExitCodes, ThrownCodes
<1>3. (j \notin shared) => Own(j)
  BY <1>1 DEF DirInv, OwnedByItsJob
<1>4. /\ DOMAIN dir' = Artifacts
      /\ \A a \in Artifacts \ {"execution-plan"} : dir'[a] = dir[a]
      /\ \/ dir'["execution-plan"] = dir["execution-plan"]
         \/ /\ answer # NoPlan /\ dir'["execution-plan"].by = j
            /\ dir'["execution-plan"].of = source.of /\ dir'["execution-plan"].about = answer
  <2>1. ShapesOK
    BY DEF DirInv
  <2> QED BY <2>1, PlanWritten
<1>5. ASSUME NEW k \in Jobs \ {j}, Unheard(k)
      PROVE  /\ \A a \in Artifacts : dir'[a] # NoFile => dir'[a].by # k /\ dir'[a].of # k
             /\ demandId'[j] # k
             /\ \A key \in DOMAIN cache' : key[1] # k
  <2>1. ASSUME NEW a \in Artifacts, dir'[a] # NoFile PROVE dir'[a].by # k /\ dir'[a].of # k
    <3>1. CASE dir'[a] = dir[a]
      BY <1>5, <2>1, <3>1 DEF Unheard
    <3>2. CASE dir'[a] # dir[a]
      <4>1. dir'[a].by = j /\ dir'[a].of = source.of
        BY <1>4, <3>2
      <4> QED BY <1>5, <4>1
    <3> QED BY <3>1, <3>2
  <2> QED BY <1>5, <2>1 DEF Unheard
<1>6. Labelled'
  <2>1. /\ dir'["selected-scenarios"] = dir["selected-scenarios"]
        /\ dir'["required-scenarios"] = dir["required-scenarios"]
    BY <1>4 DEF Artifacts
  <2> QED BY <2>1 DEF DirInv, Labelled
<1>7. PlanIsForItsDemand'
  <2>1. CASE dir'["execution-plan"] = dir["execution-plan"]
    BY <1>1, <2>1 DEF DirInv, PlanIsForItsDemand
  <2>2. CASE dir'["execution-plan"] # dir["execution-plan"]
    <3>1. answer # NoPlan /\ dir'["execution-plan"].by = j /\ dir'["execution-plan"].about = answer
      BY <1>4, <2>2
    <3> QED BY <1>1, <1>3, <3>1 DEF PlanIsForItsDemand, Ours
  <2> QED BY <2>1, <2>2
<1>8. ASSUME Own(j), mode[j] = "all with auto-config", stage'[j] = NextStage(j)
      PROVE  Settled(j)'
  <2>1. stage'[j] = "execute"
    BY <1>8 DEF NextStage, Gates
  <2>2. /\ dir'["pr-diff-context"] = dir["pr-diff-context"]
        /\ dir'["demand-context"] = dir["demand-context"]
        /\ dir'["required-scenarios"] = dir["required-scenarios"]
    BY <1>4 DEF Artifacts
  <2> QED BY <1>8, <2>1, <2>2 DEF Own, Settled, Planning
<1>9. Own(j) => (demandId'[j] = j => mode[j] = "all with auto-config")
  BY DEF Own
<1>10. DOMAIN demandId' = Jobs /\ \A k \in Jobs \ {j} : demandId'[k] = demandId[k]
  BY <1>1 DEF ShapesOK
<1> QED BY <1>1, <1>2, <1>4, <1>5, <1>6, <1>7, <1>8, <1>9, <1>10, Ending

(* The planner is asked for scenarios, which a job with an auto-config has  *)
(* from its own correlation or from the memory.                             *)
LEMMA ResolvedAreOurs ==
  ASSUME DirInv, NEW j \in Jobs, Own(j), mode[j] = "all with auto-config",
         stage[j] \in Planning, ResolveScenarios # NoFile
  PROVE  Ours(j, ResolveScenarios.about)
<1>1. dir["required-scenarios"].of = j
  BY DEF Own, Settled
<1> QED BY <1>1 DEF DirInv, Labelled, ResolveScenarios, Ours

LEMMA GeneratingPlan ==
  ASSUME DirInv, NEW j \in Jobs, GeneratePlanBegin(j) \/ GeneratePlanEnd(j)
  PROVE  DirInv'
<1>1. stage[j] = "generate-plan" /\ UNCHANGED demandId
  BY DEF GeneratePlanBegin, GeneratePlanEnd
<1>2. Active(j) /\ stage[j] \in Planning
  BY <1>1 DEF Active, Stages, Planning
<1> DEFINE scenarios == ResolveScenarios
           key == CacheKey(j, scenarios.about)
           key1 == CacheKey(j, input[j].about)
<1>3. \E a \in {"selected-scenarios", "required-scenarios"} : scenarios = dir[a]
  BY DEF ResolveScenarios
<1>4. key[1] = demandId[j] /\ key1[1] = demandId[j]
  BY DEF CacheKey
<1>5. CASE GeneratePlanBegin(j)
  <2>1. CASE scenarios = NoFile
    <3>1. GoOn(j, "CONFIG_ERROR") /\ UNCHANGED <<dir, cache, demandId>>
      BY <1>5, <2>1 DEF GeneratePlanBegin
    <3>2. "CONFIG_ERROR" \in ExitCodes
      BY DEF ExitCodes, ThrownCodes
    <3> QED BY <1>2, <3>1, <3>2, Passing
  <2>2. CASE scenarios # NoFile /\ key \in DOMAIN cache
    <3>1. PlanAnswered(j, scenarios, cache[key]) /\ UNCHANGED cache
      BY <1>5, <2>2 DEF GeneratePlanBegin
    <3>2. \A k \in Jobs \ {j} : Unheard(k) =>
            scenarios.of # k /\ \A q \in DOMAIN cache' : q[1] # k
      BY <1>3, <2>2, <3>1 DEF Unheard, Artifacts
    <3>3. ASSUME Own(j)
          PROVE  \A q \in DOMAIN cache' :
                   q[1] = j /\ cache'[q] # NoPlan => Ours(j, cache'[q])
      BY <3>1, <3>3 DEF Own
    <3>4. ASSUME Own(j), mode[j] = "all with auto-config", cache[key] # NoPlan
          PROVE  Ours(j, cache[key])
      <4>1. demandId[j] = j
        BY <1>2, <3>4 DEF Own, Settled
      <4> HIDE DEF key
      <4> QED BY <1>4, <2>2, <3>4, <4>1 DEF Own
    <3> HIDE DEF key, scenarios
    <3> QED BY <1>1, <3>1, <3>2, <3>3, <3>4, Answering
  <2>3. CASE scenarios # NoFile /\ key \notin DOMAIN cache
    <3>1. /\ input' = [input EXCEPT ![j] = scenarios]
          /\ UNCHANGED <<dir, cache, mode, stage, steps, demandId, shared>>
      BY <1>5, <2>3 DEF GeneratePlanBegin
    <3>2. PICK a \in Artifacts : scenarios = dir[a]
      BY <1>3 DEF Artifacts
    <3>3. Own(j) /\ mode[j] = "all with auto-config" => Ours(j, dir[a].about)
      BY <1>2, <2>3, <3>2, ResolvedAreOurs
    <3> HIDE DEF scenarios
    <3> QED BY <1>1, <1>2, <2>3, <3>1, <3>2, <3>3, Taking
  <2> QED BY <2>1, <2>2, <2>3
<1>6. CASE GeneratePlanEnd(j)
  <2>1. input[j] # NoFile
    BY <1>6 DEF GeneratePlanEnd
  <2>2. PICK answer : /\ PlanAnswered(j, input[j], answer)
                      /\ \/ UNCHANGED cache
                         \/ cache' = [k \in DOMAIN cache \cup {key1} |->
                                        IF k = key1 THEN answer ELSE cache[k]]
                      /\ answer # NoPlan => answer \subseteq input[j].about
    BY <1>6 DEF GeneratePlanEnd
  <2>3. \A q \in DOMAIN cache' : \/ q \in DOMAIN cache /\ cache'[q] = cache[q]
                                 \/ q = key1 /\ cache'[q] = answer
    <3> HIDE DEF key1
    <3> QED BY <2>2
  <2>4. \A k \in Jobs \ {j} : Unheard(k) =>
          input[j].of # k /\ \A q \in DOMAIN cache' : q[1] # k
    <3> HIDE DEF key1
    <3> QED BY <1>4, <2>1, <2>3 DEF Unheard
  <2>5. ASSUME Own(j), mode[j] = "all with auto-config", answer # NoPlan
        PROVE  Ours(j, answer)
    <3>1. Ours(j, input[j].about)
      BY <1>1, <2>1, <2>5 DEF Own, Settled
    <3> QED BY <2>2, <2>5, <3>1 DEF Ours
  <2>6. ASSUME Own(j)
        PROVE  \A q \in DOMAIN cache' :
                 q[1] = j /\ cache'[q] # NoPlan => Ours(j, cache'[q])
    <3>1. demandId[j] = j => mode[j] = "all with auto-config"
      BY <2>6 DEF Own
    <3> HIDE DEF key1
    <3> QED BY <1>4, <2>3, <2>5, <2>6, <3>1 DEF Own
  <2> QED BY <1>1, <2>2, <2>4, <2>5, <2>6, Answering
<1> QED BY <1>5, <1>6

(* A stage that writes the diff, the result or the candidates.              *)
LEMMA Writing ==
  ASSUME DirInv, NEW j \in Jobs, NEW code \in ExitCodes, GoOn(j, code),
         NEW a \in {"pr-diff-context", "execution-result", "learning-candidates"},
         NEW of, NEW about, NEW ok, Write(j, a, of, about, ok), UNCHANGED <<cache, demandId>>,
         \A k \in Jobs \ {j} : Unheard(k) => of # k,
         IF a = "pr-diff-context" THEN stage[j] = "prepare" /\ of = j
         ELSE stage[j] \in Planning
  PROVE  DirInv'
<1>1. ShapesOK /\ Active(j) /\ UNCHANGED <<mode, shared>>
  BY DEF DirInv, Active, Stages, Gates, Planning, GoOn, Record
<1>2. a \in Artifacts
  BY DEF Artifacts
<1>3. /\ DOMAIN dir' = Artifacts /\ dir'[a].by = j /\ dir'[a].of = of
      /\ \A b \in Artifacts \ {a} : dir'[b] = dir[b]
  BY <1>1, <1>2, Written
<1>4. /\ dir'["selected-scenarios"] = dir["selected-scenarios"]
      /\ dir'["required-scenarios"] = dir["required-scenarios"]
      /\ dir'["demand-context"] = dir["demand-context"]
      /\ dir'["execution-plan"] = dir["execution-plan"]
      /\ a # "pr-diff-context" => dir'["pr-diff-context"] = dir["pr-diff-context"]
  BY <1>3 DEF Artifacts
<1>5. ASSUME NEW k \in Jobs \ {j}, Unheard(k)
      PROVE  /\ \A b \in Artifacts : dir'[b] # NoFile => dir'[b].by # k /\ dir'[b].of # k
             /\ demandId'[j] # k
             /\ \A key \in DOMAIN cache' : key[1] # k
  <2>1. ASSUME NEW b \in Artifacts, dir'[b] # NoFile PROVE dir'[b].by # k /\ dir'[b].of # k
    BY <1>3, <1>5, <2>1 DEF Unheard
  <2> QED BY <1>5, <2>1 DEF Unheard
<1>6. Labelled' /\ PlanIsForItsDemand'
  BY <1>1, <1>4 DEF DirInv, Labelled, PlanIsForItsDemand
<1>7. ASSUME Own(j)
      PROVE  /\ \A key \in DOMAIN cache' :
                  key[1] = j /\ cache'[key] # NoPlan => Ours(j, cache'[key])
             /\ demandId'[j] = j => mode[j] = "all with auto-config"
  BY <1>7 DEF Own
<1>8. ASSUME Own(j), mode[j] = "all with auto-config", stage'[j] = NextStage(j), Active(j)',
             input'[j] = NoFile
      PROVE  Settled(j)'
  <2>1. CASE a = "pr-diff-context"
    <3>1. stage'[j] = "correlate"
      BY <1>8, <2>1 DEF NextStage, Gates
    <3> QED BY <1>3, <1>8, <2>1, <3>1 DEF Settled, Planning
  <2>2. CASE a # "pr-diff-context"
    <3>1. stage[j] \in Planning /\ "ended" \notin Stages
      BY <2>2 DEF Stages, Gates
    <3>2. stage'[j] \in Planning
      BY <1>8, <3>1, NextOfPlanning DEF Active, Gates
    <3> QED BY <1>4, <1>8, <2>2, <3>1, <3>2 DEF Own, Settled, Planning
  <2> QED BY <2>1, <2>2
<1>9. DOMAIN demandId' = Jobs /\ \A k \in Jobs \ {j} : demandId'[k] = demandId[k]
  BY <1>1 DEF ShapesOK
<1> QED BY <1>1, <1>3, <1>5, <1>6, <1>7, <1>8, <1>9, Ending

LEMMA Preparing ==
  ASSUME DirInv, NEW j \in Jobs, Prepare(j)
  PROVE  DirInv'
<1>1. stage[j] = "prepare" /\ Active(j) /\ UNCHANGED <<cache, demandId>>
  BY DEF Prepare, Active, Stages, Gates
<1>2. \/ Write(j, "pr-diff-context", j, {}, TRUE) /\ GoOn(j, "OK")
      \/ UNCHANGED dir /\ \E c \in ExitCodes : Stop(j, c)
  BY DEF Prepare, Block, ExitCodes, ThrownCodes
<1>3. "OK" \in ExitCodes
  BY DEF ExitCodes, ThrownCodes
<1>4. CASE Write(j, "pr-diff-context", j, {}, TRUE) /\ GoOn(j, "OK")
  <2> DEFINE a == "pr-diff-context"
  <2>1. a \in {"pr-diff-context", "execution-result", "learning-candidates"}
    OBVIOUS
  <2>2. \A k \in Jobs \ {j} : Unheard(k) => j # k
    OBVIOUS
  <2> QED BY <1>1, <1>3, <1>4, <2>1, <2>2, Writing
<1> QED BY <1>1, <1>2, <1>4, Passing

LEMMA Executing ==
  ASSUME DirInv, NEW j \in Jobs, ExecuteBegin(j) \/ ExecuteEnd(j)
  PROVE  DirInv'
<1>1. stage[j] = "execute" /\ Active(j) /\ stage[j] \in Planning /\ UNCHANGED <<cache, demandId>>
  BY DEF ExecuteBegin, ExecuteEnd, Active, Stages, Planning
<1>2. {"OK", "BUGS_FOUND", "CONFIG_ERROR"} \subseteq ExitCodes
  BY DEF ExitCodes, ThrownCodes
<1>3. CASE ExecuteBegin(j)
  <2>1. \/ dir["execution-plan"] # NoFile /\ UNCHANGED <<stage, steps, mode, shared>>
             /\ input' = [input EXCEPT ![j] = dir["execution-plan"]]
        \/ GoOn(j, "CONFIG_ERROR")
    BY <1>3 DEF ExecuteBegin
  <2>2. UNCHANGED dir /\ "execution-plan" \in Artifacts
    BY <1>3 DEF ExecuteBegin, Artifacts
  <2>3. CASE GoOn(j, "CONFIG_ERROR")
    BY <1>1, <1>2, <2>2, <2>3, Passing
  <2>4. CASE ~GoOn(j, "CONFIG_ERROR")
    <3>1. stage[j] # "correlate" /\ stage[j] # "generate-plan"
      BY <1>1
    <3> DEFINE a == "execution-plan"
    <3>2. /\ a \in Artifacts /\ dir[a] # NoFile /\ input' = [input EXCEPT ![j] = dir[a]]
          /\ UNCHANGED <<dir, cache, mode, stage, steps, demandId, shared>>
      BY <1>1, <2>1, <2>2, <2>4
    <3>3. Active(j) /\ (stage[j] = "correlate" => a = "pr-diff-context")
      BY <1>1, <3>1
    <3>4. (stage[j] = "generate-plan" /\ Own(j) /\ mode[j] = "all with auto-config")
            => Ours(j, dir[a].about)
      BY <3>1
    <3> HIDE DEF a
    <3> QED BY <3>2, <3>3, <3>4, Taking
  <2> QED BY <2>3, <2>4
<1>4. CASE ExecuteEnd(j)
  <2>1. PICK ok \in BOOLEAN, code \in {"OK", "BUGS_FOUND"} :
           /\ Write(j, "execution-result", input[j].of, input[j].about, ok)
           /\ GoOn(j, code)
    BY <1>4 DEF ExecuteEnd
  <2>2. input[j] # NoFile
    BY <1>4 DEF ExecuteEnd
  <2>3. \A k \in Jobs \ {j} : Unheard(k) => input[j].of # k
    BY <2>2 DEF Unheard
  <2> DEFINE a == "execution-result"
  <2>4. /\ a \in {"pr-diff-context", "execution-result", "learning-candidates"}
        /\ a # "pr-diff-context"
    OBVIOUS
  <2>5. Write(j, a, input[j].of, input[j].about, ok)
    BY <2>1
  <2> HIDE DEF a
  <2> QED BY <1>1, <1>2, <2>1, <2>3, <2>4, <2>5, Writing
<1> QED BY <1>3, <1>4

LEMMA LearningFrom ==
  ASSUME DirInv, NEW j \in Jobs, Learning(j)
  PROVE  DirInv'
<1>1. stage[j] = "learning" /\ stage[j] \in Planning /\ UNCHANGED <<cache, demandId>>
  BY DEF Learning, Planning
<1>2. "OK" \in ExitCodes /\ GoOn(j, "OK")
  BY DEF Learning, ExitCodes, ThrownCodes
<1>3. PICK of, about, ok : /\ Write(j, "learning-candidates", of, about, ok)
                           /\ \/ of = j
                              \/ /\ dir["execution-result"] # NoFile
                                 /\ of = dir["execution-result"].by
  <2>1. CASE dir["execution-result"] = NoFile
    BY <2>1 DEF Learning
  <2>2. CASE dir["execution-result"] # NoFile
    BY <2>2 DEF Learning
  <2> QED BY <2>1, <2>2
<1>4. \A k \in Jobs \ {j} : Unheard(k) => of # k
  BY <1>3 DEF Unheard, Artifacts
<1> DEFINE a == "learning-candidates"
<1>5. /\ a \in {"pr-diff-context", "execution-result", "learning-candidates"}
      /\ a # "pr-diff-context" /\ Write(j, a, of, about, ok)
  BY <1>3
<1> HIDE DEF a
<1> QED BY <1>1, <1>2, <1>4, <1>5, Writing

(* What a correlation has written, whenever it ends, and what it leaves.    *)
Correlated(j, d) ==
  /\ DOMAIN d = Artifacts
  /\ \A a \in Artifacts \ {"demand-context", "required-scenarios", "selected-scenarios"} :
       d[a] = dir[a]
  /\ \A a \in {"demand-context", "required-scenarios", "selected-scenarios"} :
       d[a] = dir[a] \/ (d[a].by = j /\ d[a].of = input[j].of)
  /\ \/ d["required-scenarios"] = dir["required-scenarios"]
     \/ \A s \in d["required-scenarios"].about : s.of = d["required-scenarios"].of
  /\ \/ d["selected-scenarios"] = dir["selected-scenarios"]
     \/ \A s \in d["selected-scenarios"].about : s.of = Memory

LEMMA DemandIsCorrelated ==
  ASSUME ShapesOK, NEW j \in Jobs
  PROVE  /\ Correlated(j, dir) /\ Correlated(j, Demand(j))
         /\ Demand(j)["demand-context"].of = input[j].of
<1>1. Correlated(j, dir)
  BY DEF Correlated, ShapesOK
<1> DEFINE f == [by |-> j, of |-> input[j].of, about |-> {}, ok |-> TRUE]
<1>2. Demand(j) = [dir EXCEPT !["demand-context"] = f] /\ f.by = j /\ f.of = input[j].of
  BY DEF Demand
<1> HIDE DEF f
<1>3. DOMAIN Demand(j) = Artifacts /\ Demand(j)["demand-context"] = f
      /\ \A a \in Artifacts \ {"demand-context"} : Demand(j)[a] = dir[a]
  BY <1>2 DEF ShapesOK, Artifacts
<1> QED BY <1>1, <1>2, <1>3 DEF Correlated, Artifacts

LEMMA RequiredIsCorrelated ==
  ASSUME ShapesOK, NEW j \in Jobs, NEW k \in 1..MaxRequired
  PROVE  /\ Correlated(j, DemandAndRequired(j, k))
         /\ DemandAndRequired(j, k)["demand-context"].of = input[j].of
         /\ DemandAndRequired(j, k)["required-scenarios"].of = input[j].of
<1> DEFINE f == [by |-> j, of |-> input[j].of, about |-> Required(input[j].of, k), ok |-> TRUE]
           d == DemandAndRequired(j, k)
<1>1. d = [Demand(j) EXCEPT !["required-scenarios"] = f]
  BY DEF DemandAndRequired
<1>2. f.by = j /\ f.of = input[j].of /\ f.about = Required(input[j].of, k)
  OBVIOUS
<1>3. \A s \in f.about : s.of = f.of
  BY <1>2 DEF Required
<1> HIDE DEF f, d
<1>4. Correlated(j, Demand(j)) /\ Demand(j)["demand-context"].of = input[j].of
  BY DemandIsCorrelated
<1>5. DOMAIN d = Artifacts /\ d["required-scenarios"] = f
      /\ \A a \in Artifacts \ {"required-scenarios"} : d[a] = Demand(j)[a]
  BY <1>1, <1>4 DEF Correlated, Artifacts
<1>6. Correlated(j, d)
  BY <1>2, <1>3, <1>4, <1>5 DEF Correlated, Artifacts
<1>7. d["demand-context"].of = input[j].of /\ d["required-scenarios"].of = input[j].of
  BY <1>2, <1>4, <1>5 DEF Artifacts
<1> QED BY <1>6, <1>7 DEF d

LEMMA CorrelationIsCorrelated ==
  ASSUME ShapesOK, NEW j \in Jobs, NEW k \in 1..MaxRequired, NEW matched
  PROVE  /\ Correlated(j, Correlation(j, k, matched))
         /\ Correlation(j, k, matched)["demand-context"].of = input[j].of
         /\ Correlation(j, k, matched)["required-scenarios"].of = input[j].of
<1> DEFINE f == [by |-> j, of |-> input[j].of, about |-> [of : {Memory}, n : matched],
                 ok |-> TRUE]
           r == DemandAndRequired(j, k)
           d == [r EXCEPT !["selected-scenarios"] = f]
<1>1. Correlation(j, k, matched) = IF matched = {} THEN r ELSE d
  BY DEF Correlation
<1>2. f.by = j /\ f.of = input[j].of /\ f.about = [of : {Memory}, n : matched]
  OBVIOUS
<1>3. \A s \in f.about : s.of = Memory
  BY <1>2
<1> HIDE DEF f, r
<1>4. /\ Correlated(j, r) /\ r["demand-context"].of = input[j].of
      /\ r["required-scenarios"].of = input[j].of
  BY RequiredIsCorrelated DEF r
<1>5. DOMAIN d = Artifacts /\ d["selected-scenarios"] = f
      /\ \A a \in Artifacts \ {"selected-scenarios"} : d[a] = r[a]
  BY <1>4 DEF Correlated, Artifacts
<1> HIDE DEF d
<1>6. Correlated(j, d)
  BY <1>2, <1>3, <1>4, <1>5 DEF Correlated, Artifacts
<1>7. d["demand-context"].of = input[j].of /\ d["required-scenarios"].of = input[j].of
  BY <1>4, <1>5 DEF Artifacts
<1> QED BY <1>1, <1>4, <1>6, <1>7

(* The correlation begins with a diff and ends with a demand of it, and     *)
(* then, if it is not blocked, with the required scenarios of that.         *)
LEMMA Correlating ==
  ASSUME DirInv, NEW j \in Jobs, CorrelateBegin(j) \/ CorrelateEnd(j)
  PROVE  DirInv'
<1>1. stage[j] = "correlate" /\ Active(j) /\ UNCHANGED <<cache, demandId>>
  BY DEF CorrelateBegin, CorrelateEnd, Active, Stages, Gates
<1>2. {"OK", "PREFLIGHT_BLOCKED", "HARNESS_FATAL"} \subseteq ExitCodes
  BY DEF ExitCodes, ThrownCodes
<1>3. CASE CorrelateBegin(j)
  <2>1. CASE dir["pr-diff-context"] = NoFile
    BY <1>1, <1>2, <1>3, <2>1, Passing DEF CorrelateBegin, Block
  <2>2. CASE dir["pr-diff-context"] # NoFile
    <3> DEFINE a == "pr-diff-context"
    <3>1. /\ a \in Artifacts /\ dir[a] # NoFile /\ input' = [input EXCEPT ![j] = dir[a]]
          /\ UNCHANGED <<dir, cache, mode, stage, steps, demandId, shared>>
      BY <1>3, <2>2 DEF CorrelateBegin, Artifacts
    <3>2. Active(j) /\ (stage[j] = "correlate" => a = "pr-diff-context")
      BY <1>1
    <3>3. (stage[j] = "generate-plan" /\ Own(j) /\ mode[j] = "all with auto-config")
            => Ours(j, dir[a].about)
      BY <1>1
    <3> HIDE DEF a
    <3> QED BY <3>1, <3>2, <3>3, Taking
  <2> QED BY <2>1, <2>2
<1>4. CASE CorrelateEnd(j)
  <2>1. input[j] # NoFile /\ ShapesOK
    BY <1>4 DEF CorrelateEnd, DirInv
  <2>2. /\ Correlated(j, dir')
        /\ \/ \E code \in ExitCodes : Stop(j, code)
           \/ /\ GoOn(j, "OK") /\ dir'["demand-context"].of = input[j].of
              /\ dir'["required-scenarios"].of = input[j].of
    <3>1. CASE Block(j) /\ dir' \in {dir, Demand(j)}
      BY <1>2, <2>1, <3>1, DemandIsCorrelated DEF Block
    <3>2. CASE Stop(j, "HARNESS_FATAL")
               /\ dir' \in {dir} \cup {DemandAndRequired(j, k) : k \in 1..MaxRequired}
      BY <1>2, <2>1, <3>2, DemandIsCorrelated, RequiredIsCorrelated
    <3>3. CASE GoOn(j, "OK") /\ \E k \in 1..MaxRequired : \E matched \in SUBSET (1..k) :
                 dir' = Correlation(j, k, matched)
      BY <2>1, <3>3, CorrelationIsCorrelated
    <3> QED BY <1>4, <3>1, <3>2, <3>3 DEF CorrelateEnd
  <2>3. UNCHANGED <<mode, shared>>
    BY <2>2 DEF GoOn, Stop, Record
  <2>4. ASSUME NEW k \in Jobs \ {j}, Unheard(k)
        PROVE  /\ \A a \in Artifacts : dir'[a] # NoFile => dir'[a].by # k /\ dir'[a].of # k
               /\ demandId'[j] # k
               /\ \A key \in DOMAIN cache' : key[1] # k
    <3>1. ASSUME NEW a \in Artifacts, dir'[a] # NoFile PROVE dir'[a].by # k /\ dir'[a].of # k
      <4>1. dir'[a] = dir[a] \/ (dir'[a].by = j /\ dir'[a].of = input[j].of)
        BY <2>2 DEF Correlated
      <4> QED BY <2>1, <2>4, <3>1, <4>1 DEF Unheard
    <3> QED BY <1>1, <2>4, <3>1 DEF Unheard
  <2>5. Labelled'
    BY <2>2 DEF DirInv, Labelled, Correlated
  <2>6. PlanIsForItsDemand'
    <3>1. dir'["execution-plan"] = dir["execution-plan"]
      BY <2>2 DEF Correlated, Artifacts
    <3> QED BY <2>3, <3>1 DEF DirInv, PlanIsForItsDemand
  <2>7. ASSUME Own(j)
        PROVE  /\ \A key \in DOMAIN cache' :
                    key[1] = j /\ cache'[key] # NoPlan => Ours(j, cache'[key])
               /\ demandId'[j] = j => mode[j] = "all with auto-config"
    BY <1>1, <2>7 DEF Own
  <2>8. ASSUME Own(j), mode[j] = "all with auto-config", input'[j] = NoFile,
               GoOn(j, "OK"), stage'[j] = NextStage(j),
               dir'["demand-context"].of = input[j].of,
               dir'["required-scenarios"].of = input[j].of
        PROVE  Settled(j)'
    <3>1. stage'[j] = "auto-config"
      BY <1>1, <2>8 DEF NextStage, Gates
    <3>2. input[j].of = j /\ dir["pr-diff-context"].of = j
      BY <1>1, <2>1, <2>8 DEF Own, Settled
    <3>3. dir'["pr-diff-context"] = dir["pr-diff-context"]
      BY <2>2 DEF Correlated, Artifacts
    <3> QED BY <2>8, <3>1, <3>2, <3>3 DEF Settled, Planning
  <2>9. /\ DOMAIN dir' = Artifacts /\ DOMAIN demandId' = Jobs
        /\ \A k \in Jobs \ {j} : demandId'[k] = demandId[k]
    BY <1>1, <2>1, <2>2 DEF ShapesOK, Correlated
  <2>10. CASE \E code \in ExitCodes : Stop(j, code)
    <3>1. PICK code \in ExitCodes : Stop(j, code)
      BY <2>10
    <3>2. ~Active(j)'
      BY <1>1, <2>1, <3>1, StageEnds DEF Active, Stages, Gates
    <3> QED BY <1>1, <2>4, <2>5, <2>6, <2>7, <2>9, <3>1, <3>2, Ending
  <2>11. CASE ~\E code \in ExitCodes : Stop(j, code)
    <3>1. "OK" \in ExitCodes /\ GoOn(j, "OK")
      BY <1>2, <2>2, <2>11
    <3> QED BY <1>1, <2>2, <2>4, <2>5, <2>6, <2>7, <2>8, <2>9, <2>11, <3>1, Ending
  <2> QED BY <2>10, <2>11
<1> QED BY <1>3, <1>4

(* The config names the demand its job has correlated.                      *)
LEMMA Configuring ==
  ASSUME DirInv, NEW j \in Jobs, AutoConfig(j)
  PROVE  DirInv'
<1>1. stage[j] = "auto-config" /\ Active(j) /\ UNCHANGED <<dir, cache>> /\ ShapesOK
  BY DEF AutoConfig, Active, Stages, DirInv
<1>2. \A c \in ThrownCodes \cup {"OK"} : c \in ExitCodes
  BY DEF ExitCodes, ThrownCodes
<1>3. CASE \E c \in ThrownCodes : Stop(j, c) /\ UNCHANGED demandId
  BY <1>1, <1>2, <1>3, Passing
<1>4. CASE /\ NoFile \notin {dir["pr-diff-context"], dir["demand-context"]}
           /\ demandId' = [demandId EXCEPT ![j] = dir["demand-context"].of]
           /\ GoOn(j, "OK")
  <2> DEFINE of == dir["demand-context"].of
  <2>1. /\ DOMAIN demandId' = Jobs /\ demandId'[j] = of
        /\ \A k \in Jobs \ {j} : demandId'[k] = demandId[k]
    BY <1>1, <1>4 DEF ShapesOK
  <2>2. UNCHANGED <<mode, shared>>
    BY <1>4 DEF GoOn, Record
  <2>3. ASSUME NEW k \in Jobs \ {j}, Unheard(k)
        PROVE  /\ \A a \in Artifacts : dir'[a] # NoFile => dir'[a].by # k /\ dir'[a].of # k
               /\ demandId'[j] # k
               /\ \A key \in DOMAIN cache' : key[1] # k
    <3>1. "demand-context" \in Artifacts
      BY DEF Artifacts
    <3>2. of # k
      BY <1>4, <2>3, <3>1 DEF Unheard
    <3> QED BY <1>1, <2>1, <2>3, <3>2 DEF Unheard
  <2>4. Labelled' /\ PlanIsForItsDemand'
    BY <1>1, <2>2 DEF DirInv, Labelled, PlanIsForItsDemand
  <2>5. ASSUME Own(j)
        PROVE  /\ \A key \in DOMAIN cache' :
                    key[1] = j /\ cache'[key] # NoPlan => Ours(j, cache'[key])
               /\ demandId'[j] = j => mode[j] = "all with auto-config"
    BY <1>1, <2>5 DEF Own
  <2>6. ASSUME Own(j), mode[j] = "all with auto-config", stage'[j] = NextStage(j)
        PROVE  Settled(j)'
    <3>1. stage'[j] = "risk"
      BY <1>1, <2>6 DEF NextStage, Gates
    <3>2. of = j /\ dir["required-scenarios"].of = j /\ dir["pr-diff-context"].of = j
      BY <1>1, <2>6 DEF Own, Settled
    <3> QED BY <1>1, <2>1, <3>1, <3>2 DEF Settled
  <2>7. DOMAIN dir' = Artifacts
    BY <1>1 DEF ShapesOK
  <2> HIDE DEF of
  <2> QED BY <1>1, <1>2, <1>4, <2>1, <2>3, <2>4, <2>5, <2>6, <2>7, Ending
<1> QED BY <1>3, <1>4 DEF AutoConfig

(* An entry of the cache is lost.                                           *)
LEMMA Expiring ==
  ASSUME DirInv, Expire \/ AllOver \/ UNCHANGED vars
  PROVE  DirInv'
<1>1. /\ UNCHANGED <<dir, mode, stage, input, steps, demandId, shared>>
      /\ \A key \in DOMAIN cache' : key \in DOMAIN cache /\ cache'[key] = cache[key]
  BY DEF Expire, AllOver, vars
<1>2. ShapesOK' /\ Held' /\ Labelled' /\ PlanIsForItsDemand'
  BY <1>1 DEF DirInv, ShapesOK, RecordsOK, Held, Active, Labelled, PlanIsForItsDemand
<1>3. IdleIsUnheard'
  BY <1>1 DEF DirInv, IdleIsUnheard, Unheard
<1>4. ASSUME NEW j \in Jobs \ shared', Active(j)' PROVE Own(j)'
  <2>1. Own(j)
    BY <1>1, <1>4 DEF DirInv, OwnedByItsJob, Active
  <2>2. Settled(j)' = Settled(j) /\ \A k \in Jobs : Active(k)' = Active(k)
    BY <1>1 DEF Settled, Active
  <2> QED BY <1>1, <2>1, <2>2 DEF Own
<1> QED BY <1>2, <1>3, <1>4 DEF DirInv, OwnedByItsJob

THEOREM DirInvInit == Init => DirInv
<1> SUFFICES ASSUME Init PROVE DirInv
  OBVIOUS
<1>1. ShapesOK
  BY DEF Init, ShapesOK, RecordsOK, ExitCodes
<1>2. Held /\ Labelled /\ PlanIsForItsDemand
  BY DEF Init, Held, Labelled, PlanIsForItsDemand, Artifacts
<1>3. IdleIsUnheard
  BY JobsAssumption DEF Init, IdleIsUnheard, Unheard
<1>4. OwnedByItsJob
  BY DEF Init, OwnedByItsJob, Active, Stages, Gates
<1> QED BY <1>1, <1>2, <1>3, <1>4 DEF DirInv

THEOREM DirInvStep == DirInv /\ [Next]_vars => DirInv'
<1> SUFFICES ASSUME DirInv, [Next]_vars PROVE DirInv'
  OBVIOUS
<1>1. CASE UNCHANGED vars \/ AllOver \/ Expire
  BY <1>1, Expiring
<1>2. ASSUME NEW j \in Jobs, Start(j) \/ Kill(j) PROVE DirInv'
  BY <1>2, Starting, Killing
<1>3. ASSUME NEW j \in Jobs, Prepare(j) PROVE DirInv'
  BY <1>3, Preparing
<1>4. ASSUME NEW j \in Jobs, CorrelateBegin(j) \/ CorrelateEnd(j) PROVE DirInv'
  BY <1>4, Correlating
<1>5. ASSUME NEW j \in Jobs, AutoConfig(j) PROVE DirInv'
  BY <1>5, Configuring
<1>6. ASSUME NEW j \in Jobs, StageFails(j) \/ Risk(j) \/ Report(j) \/ PromoteLearning(j)
      PROVE  DirInv'
  <2>1. Active(j) /\ stage[j] \in Planning /\ UNCHANGED <<dir, cache, demandId>>
    BY <1>6 DEF StageFails, Risk, Report, PromoteLearning, Active, Stages, Gates, Planning
  <2>2. \E c \in ExitCodes : GoOn(j, c)
    BY <1>6 DEF StageFails, Risk, Report, PromoteLearning, ExitCodes, ThrownCodes
  <2> QED BY <2>1, <2>2, Passing
<1>7. ASSUME NEW j \in Jobs, GeneratePlanBegin(j) \/ GeneratePlanEnd(j) PROVE DirInv'
  BY <1>7, GeneratingPlan
<1>8. ASSUME NEW j \in Jobs, ExecuteBegin(j) \/ ExecuteEnd(j) PROVE DirInv'
  BY <1>8, Executing
<1>9. ASSUME NEW j \in Jobs, Learning(j) PROVE DirInv'
  BY <1>9, LearningFrom
<1> QED BY <1>1, <1>2, <1>3, <1>4, <1>5, <1>6, <1>7, <1>8, <1>9 DEF Next, Step

(* However many pipelines have used the directory and the cache before, and *)
(* however they ended, a pipeline with an auto-config that has them for     *)
(* itself never leaves a plan about the required scenarios of another       *)
(* demand.                                                                  *)
THEOREM PlansAreForTheirDemand == Spec => []PlanIsForItsDemand
<1>1. DirInv => PlanIsForItsDemand
  BY DEF DirInv
<1> QED BY <1>1, DirInvInit, DirInvStep, PTL DEF Spec

-----------------------------------------------------------------------------
(* What an exit code of OK stands for.                                      *)

Clean(j) == \A i \in DOMAIN steps[j] : steps[j][i].exitCode = "OK"

Planned(j) == dir["execution-plan"].by = j
Passed(j) ==
  /\ dir["execution-result"].by = j /\ dir["execution-result"].ok = TRUE
  /\ dir["execution-result"].about = dir["execution-plan"].about
Learned(j) == dir["learning-candidates"].by = j /\ dir["learning-candidates"].of = j

(* What the stages that ended with OK have left in the directory.           *)
Tested(j) ==
  /\ stage[j] \in {"execute", "report", "learning", "promote-learning"} => Planned(j)
  /\ stage[j] = "execute" /\ input[j] # NoFile =>
       input[j].about = dir["execution-plan"].about
  /\ stage[j] \in {"report", "learning", "promote-learning"} => Passed(j)
  /\ stage[j] = "promote-learning" => Learned(j)

TestedUnlessTold ==
  \A j \in Jobs \ shared : Active(j) /\ mode[j] \notin Gates /\ Clean(j) => Tested(j)

TestInv == DirInv /\ TestedUnlessTold

(* A job with no record but OK had none before, and gets none.              *)
LEMMA CleanBefore ==
  ASSUME RecordsOK, NEW j \in Jobs, Active(j), NEW code \in ExitCodes,
         GoOn(j, code) \/ Stop(j, code), Clean(j)'
  PROVE  Clean(j) /\ code = "OK"
<1> DEFINE r == [name |-> stage[j], exitCode |-> code]
<1>1. steps'[j] = Append(steps[j], r)
  BY RecordKeepsOthers DEF GoOn, Stop
<1>2. steps[j] \in Seq([name : Stages, exitCode : ExitCodes])
  BY DEF RecordsOK
<1>3. /\ \A i \in DOMAIN steps[j] : i \in DOMAIN steps'[j] /\ steps'[j][i] = steps[j][i]
      /\ Len(steps'[j]) \in DOMAIN steps'[j] /\ steps'[j][Len(steps'[j])] = r
  <2> HIDE DEF r
  <2> QED BY <1>1, <1>2
<1>4. r.exitCode = code
  OBVIOUS
<1> QED BY <1>3, <1>4 DEF Clean

(* The others of a job that was never shared are not active, so what a step *)
(* of theirs does to the directory is nothing it relies on.                 *)
LEMMA OnlyOwnStep ==
  ASSUME TestInv, NEW j \in Jobs, Active(j), DirInv', shared \subseteq shared',
         \A k \in Jobs \ {j} : stage'[k] = stage[k],
         j \notin shared /\ Active(j)' /\ mode'[j] \notin Gates /\ Clean(j)' => Tested(j)'
  PROVE  TestInv'
<1>1. ASSUME NEW k \in Jobs \ shared', k # j, Active(k)' PROVE FALSE
  <2>1. Active(k) /\ k \notin shared
    BY <1>1 DEF Active
  <2> QED BY <1>1, <2>1 DEF TestInv, DirInv, OwnedByItsJob, Own
<1>2. ASSUME NEW k \in Jobs \ shared', Active(k)', mode'[k] \notin Gates, Clean(k)'
      PROVE  Tested(k)'
  <2>1. k = j
    BY <1>1, <1>2
  <2> QED BY <1>2, <2>1
<1> QED BY <1>2 DEF TestInv, TestedUnlessTold

(* What the end of a stage of such a job leaves, stage by stage.            *)
LEMMA EndsTested ==
  ASSUME TestInv, DirInv', NEW j \in Jobs, Active(j), NEW code \in ExitCodes,
         GoOn(j, code) \/ Stop(j, code),
         (j \notin shared /\ mode[j] \notin Gates /\ Tested(j) /\ GoOn(j, "OK")
           /\ stage'[j] = NextStage(j) /\ Active(j)' /\ input'[j] = NoFile) => Tested(j)'
  PROVE  TestInv'
<1>1. ShapesOK /\ RecordsOK
  BY DEF TestInv, DirInv, ShapesOK
<1>2. /\ UNCHANGED <<mode, shared>> /\ input'[j] = NoFile
      /\ \A k \in Jobs \ {j} : stage'[k] = stage[k]
  BY <1>1, StageEnds DEF ShapesOK
<1>3. ASSUME j \notin shared, Active(j)', mode'[j] \notin Gates, Clean(j)'
      PROVE  Tested(j)'
  <2>1. Clean(j) /\ code = "OK"
    BY <1>1, <1>3, CleanBefore
  <2>2. Tested(j)
    BY <1>2, <1>3, <2>1 DEF TestInv, TestedUnlessTold
  <2>3. ~Stop(j, code)
    BY <1>1, <1>3, StageEnds DEF Active, Stages, Gates
  <2>4. GoOn(j, "OK") /\ stage'[j] = NextStage(j)
    BY <1>1, <2>1, <2>3, StageEnds
  <2> QED BY <1>2, <1>3, <2>2, <2>4
<1> QED BY <1>2, <1>3, OnlyOwnStep

THEOREM TestInvInit == Init => TestInv
<1> SUFFICES ASSUME Init PROVE TestedUnlessTold
  BY DirInvInit DEF TestInv
<1> QED BY DEF Init, TestedUnlessTold, Active, Stages, Gates

THEOREM TestInvStep == TestInv /\ [Next]_vars => TestInv'
<1> SUFFICES ASSUME TestInv, [Next]_vars PROVE TestInv'
  OBVIOUS
<1>1. DirInv' /\ ShapesOK /\ RecordsOK
  BY DirInvStep DEF TestInv, DirInv, ShapesOK
<1>2. CASE UNCHANGED vars \/ AllOver \/ Expire
  <2>1. UNCHANGED <<dir, mode, stage, input, steps, demandId, shared>>
    BY <1>2 DEF Expire, AllOver, vars
  <2>2. \A j \in Jobs : /\ Active(j)' = Active(j) /\ Clean(j)' = Clean(j)
                        /\ Tested(j) => Tested(j)'
    BY <2>1 DEF Active, Clean, Tested, Planned, Passed, Learned
  <2> QED BY <1>1, <2>1, <2>2 DEF TestInv, TestedUnlessTold
<1>3. ASSUME NEW j \in Jobs, Start(j) PROVE TestInv'
  <2>1. ASSUME NEW k \in Jobs \ shared', Active(k)' PROVE stage'[k] \in Gates
    <3>1. /\ shared' = IF {i \in Jobs : Active(i)} = {} THEN shared
                       ELSE shared \cup {i \in Jobs : Active(i)} \cup {j}
          /\ stage' = [stage EXCEPT ![j] = IF mode[j] = "correlate" THEN "correlate"
                                           ELSE "prepare"]
      BY <1>3 DEF Start
    <3>2. CASE k = j
      BY <1>1, <3>1, <3>2 DEF RecordsOK, Gates
    <3>3. CASE k # j
      <4>1. Active(k)
        BY <1>1, <2>1, <3>1, <3>3 DEF RecordsOK, Active
      <4> QED BY <2>1, <3>1, <4>1
    <3> QED BY <3>2, <3>3
  <2>2. \A k \in Jobs : stage'[k] \in Gates => Tested(k)'
    BY DEF Tested, Gates
  <2> QED BY <1>1, <2>1, <2>2 DEF TestInv, TestedUnlessTold
<1>4. ASSUME NEW j \in Jobs, Kill(j) PROVE TestInv'
  <2>1. /\ Active(j) /\ UNCHANGED shared /\ ~Active(j)'
        /\ \A k \in Jobs \ {j} : stage'[k] = stage[k]
    BY <1>1, <1>4 DEF Kill, RecordsOK, Active, Stages, Gates
  <2> QED BY <1>1, <2>1, OnlyOwnStep
<1>5. ASSUME NEW j \in Jobs,
             \/ Prepare(j) \/ CorrelateBegin(j) \/ CorrelateEnd(j) \/ AutoConfig(j) \/ Risk(j)
      PROVE  TestInv'
  <2>1. Active(j) /\ stage[j] \in {"prepare", "correlate", "auto-config", "risk"}
    BY <1>5 DEF Prepare, CorrelateBegin, CorrelateEnd, AutoConfig, Risk, Active, Stages, Gates
  <2>2. \/ \E c \in ExitCodes : GoOn(j, c) \/ Stop(j, c)
        \/ UNCHANGED <<stage, shared>>
    BY <1>5 DEF Prepare, CorrelateBegin, CorrelateEnd, AutoConfig, Risk, Block, ExitCodes,
                ThrownCodes
  <2>3. CASE \E c \in ExitCodes : GoOn(j, c) \/ Stop(j, c)
    <3>1. ASSUME mode[j] \notin Gates, stage'[j] = NextStage(j) PROVE Tested(j)'
      <4>1. NextStage(j) \in {"correlate", "auto-config", "risk", "generate-plan"}
        BY <2>1, <3>1 DEF NextStage
      <4> QED BY <3>1, <4>1 DEF Tested
    <3> QED BY <1>1, <2>1, <2>3, <3>1, EndsTested
  <2>4. CASE UNCHANGED <<stage, shared>>
    <3>1. Tested(j)'
      BY <2>1, <2>4 DEF Tested
    <3> QED BY <1>1, <2>1, <2>4, <3>1, OnlyOwnStep
  <2> QED BY <2>2, <2>3, <2>4
<1>6. ASSUME NEW j \in Jobs,
             \/ StageFails(j) \/ Report(j) \/ PromoteLearning(j)
      PROVE  TestInv'
  <2>1. Active(j) /\ stage[j] \in Planning /\ UNCHANGED dir
    BY <1>6 DEF StageFails, Report, PromoteLearning, Active, Stages, Gates, Planning
  <2>2. PICK c \in ExitCodes : /\ GoOn(j, c)
                               /\ c = "OK" => stage[j] \in {"report", "promote-learning"}
    BY <1>6 DEF StageFails, Report, PromoteLearning, ExitCodes, ThrownCodes
  <2>3. ASSUME c = "OK", mode[j] \notin Gates, Tested(j), stage'[j] = NextStage(j)
        PROVE  Tested(j)'
    <3>1. \/ stage[j] = "report" /\ stage'[j] = "learning"
          \/ stage'[j] = "ended"
      BY <2>2, <2>3 DEF NextStage
    <3> QED BY <2>1, <2>3, <3>1 DEF Tested, Planned, Passed
  <2>4. ASSUME j \notin shared, Active(j)', mode'[j] \notin Gates, Clean(j)'
        PROVE  Tested(j)'
    <3>1. Clean(j) /\ c = "OK"
      BY <1>1, <2>1, <2>2, <2>4, CleanBefore
    <3>2. UNCHANGED mode /\ stage'[j] = NextStage(j)
      BY <1>1, <2>1, <2>2, StageEnds
    <3>3. Tested(j)
      BY <2>1, <2>4, <3>1, <3>2 DEF TestInv, TestedUnlessTold
    <3> QED BY <2>3, <2>4, <3>1, <3>2, <3>3
  <2>5. UNCHANGED shared /\ \A k \in Jobs \ {j} : stage'[k] = stage[k]
    BY <1>1, <2>1, <2>2, StageEnds
  <2> QED BY <1>1, <2>1, <2>4, <2>5, OnlyOwnStep
<1>7. ASSUME NEW j \in Jobs, GeneratePlanBegin(j) \/ GeneratePlanEnd(j) PROVE TestInv'
  <2>1. Active(j) /\ stage[j] = "generate-plan"
    BY <1>7 DEF GeneratePlanBegin, GeneratePlanEnd, Active, Stages
  <2>2. \/ UNCHANGED <<stage, shared>>
        \/ GoOn(j, "CONFIG_ERROR")
        \/ \E of, about : Write(j, "execution-plan", of, about, TRUE) /\ GoOn(j, "OK")
    BY <1>7 DEF GeneratePlanBegin, GeneratePlanEnd, PlanAnswered
  <2>3. CASE UNCHANGED <<stage, shared>>
    <3>1. Tested(j)'
      BY <2>1, <2>3 DEF Tested
    <3> QED BY <1>1, <2>1, <2>3, <3>1, OnlyOwnStep
  <2>4. CASE GoOn(j, "CONFIG_ERROR")
    <3>1. "CONFIG_ERROR" \in ExitCodes /\ "CONFIG_ERROR" # "OK"
      BY DEF ExitCodes, ThrownCodes
    <3>2. ~Clean(j)'
      BY <1>1, <2>1, <2>4, <3>1, CleanBefore
    <3>3. UNCHANGED shared /\ \A k \in Jobs \ {j} : stage'[k] = stage[k]
      BY <1>1, <2>1, <2>4, <3>1, StageEnds
    <3> QED BY <1>1, <2>1, <3>2, <3>3, OnlyOwnStep
  <2>5. CASE \E of, about : Write(j, "execution-plan", of, about, TRUE) /\ GoOn(j, "OK")
    <3>1. Planned(j)'
      <4>1. "execution-plan" \in Artifacts
        BY DEF Artifacts
      <4> QED BY <1>1, <2>5, <4>1, Written DEF Planned
    <3>2. ASSUME mode[j] \notin Gates, stage'[j] = NextStage(j), input'[j] = NoFile
          PROVE  Tested(j)'
      <4>1. stage'[j] = "execute"
        BY <2>1, <3>2 DEF NextStage
      <4> QED BY <3>1, <3>2, <4>1 DEF Tested
    <3>3. "OK" \in ExitCodes
      BY DEF ExitCodes, ThrownCodes
    <3> QED BY <1>1, <2>1, <2>5, <3>2, <3>3, EndsTested
  <2> QED BY <2>2, <2>3, <2>4, <2>5
<1>8. ASSUME NEW j \in Jobs, ExecuteBegin(j) PROVE TestInv'
  <2>1. Active(j) /\ stage[j] = "execute" /\ UNCHANGED dir
    BY <1>8 DEF ExecuteBegin, Active, Stages
  <2>2. CASE GoOn(j, "CONFIG_ERROR")
    <3>1. "CONFIG_ERROR" \in ExitCodes /\ "CONFIG_ERROR" # "OK"
      BY DEF ExitCodes, ThrownCodes
    <3>2. ~Clean(j)'
      BY <1>1, <2>1, <2>2, <3>1, CleanBefore
    <3>3. UNCHANGED shared /\ \A k \in Jobs \ {j} : stage'[k] = stage[k]
      BY <1>1, <2>1, <2>2, <3>1, StageEnds
    <3> QED BY <1>1, <2>1, <3>2, <3>3, OnlyOwnStep
  <2>3. CASE /\ input' = [input EXCEPT ![j] = dir["execution-plan"]]
             /\ UNCHANGED <<stage, steps, mode, shared>>
    <3>1. input'[j] = dir["execution-plan"]
      BY <1>1, <2>3 DEF ShapesOK
    <3>2. ASSUME j \notin shared, mode'[j] \notin Gates, Clean(j)' PROVE Tested(j)'
      <4>1. Tested(j)
        BY <2>1, <2>3, <3>2 DEF TestInv, TestedUnlessTold, Clean
      <4> QED BY <2>1, <2>3, <3>1, <4>1 DEF Tested, Planned
    <3> QED BY <1>1, <2>1, <2>3, <3>2, OnlyOwnStep
  <2> QED BY <1>8, <2>2, <2>3 DEF ExecuteBegin
<1>9. ASSUME NEW j \in Jobs, ExecuteEnd(j) PROVE TestInv'
  <2>1. Active(j) /\ stage[j] = "execute" /\ input[j] # NoFile
    BY <1>9 DEF ExecuteEnd, Active, Stages
  <2>2. PICK ok \in BOOLEAN :
           /\ Write(j, "execution-result", input[j].of, input[j].about, ok)
           /\ GoOn(j, IF ok THEN "OK" ELSE "BUGS_FOUND")
    BY <1>9 DEF ExecuteEnd
  <2>3. "execution-result" \in Artifacts /\ "execution-plan" \in Artifacts \ {"execution-result"}
    BY DEF Artifacts
  <2>4. /\ dir'["execution-result"].by = j /\ dir'["execution-result"].ok = ok
        /\ dir'["execution-result"].about = input[j].about
        /\ dir'["execution-plan"] = dir["execution-plan"]
    BY <1>1, <2>2, <2>3, Written
  <2>5. CASE ok
    <3>1. ok = TRUE /\ "OK" \in ExitCodes /\ GoOn(j, "OK")
      BY <2>2, <2>5 DEF ExitCodes, ThrownCodes
    <3>2. ASSUME mode[j] \notin Gates, Tested(j), stage'[j] = NextStage(j) PROVE Tested(j)'
      <4>1. stage'[j] = "report"
        BY <2>1, <3>2 DEF NextStage
      <4>2. Planned(j)' /\ Passed(j)'
        BY <2>1, <2>4, <3>1, <3>2 DEF Tested, Planned, Passed
      <4> QED BY <4>1, <4>2 DEF Tested
    <3> QED BY <1>1, <2>1, <3>1, <3>2, EndsTested
  <2>6. CASE ~ok
    <3>1. "BUGS_FOUND" \in ExitCodes /\ "BUGS_FOUND" # "OK" /\ GoOn(j, "BUGS_FOUND")
      BY <2>2, <2>6 DEF ExitCodes, ThrownCodes
    <3>2. ~Clean(j)'
      BY <1>1, <2>1, <3>1, CleanBefore
    <3>3. UNCHANGED shared /\ \A k \in Jobs \ {j} : stage'[k] = stage[k]
      BY <1>1, <2>1, <3>1, StageEnds
    <3> QED BY <1>1, <2>1, <3>2, <3>3, OnlyOwnStep
  <2> QED BY <2>5, <2>6
<1>10. ASSUME NEW j \in Jobs, Learning(j) PROVE TestInv'
  <2>1. Active(j) /\ stage[j] = "learning" /\ GoOn(j, "OK") /\ "OK" \in ExitCodes
    BY <1>10 DEF Learning, Active, Stages, ExitCodes, ThrownCodes
  <2>2. PICK of, about, ok : /\ Write(j, "learning-candidates", of, about, ok)
                             /\ of = j \/ of = dir["execution-result"].by
    <3>1. CASE dir["execution-result"] = NoFile
      BY <1>10, <3>1 DEF Learning
    <3>2. CASE dir["execution-result"] # NoFile
      BY <1>10, <3>2 DEF Learning
    <3> QED BY <3>1, <3>2
  <2>3. /\ "learning-candidates" \in Artifacts
        /\ "execution-plan" \in Artifacts \ {"learning-candidates"}
        /\ "execution-result" \in Artifacts \ {"learning-candidates"}
    BY DEF Artifacts
  <2>4. /\ dir'["learning-candidates"].by = j /\ dir'["learning-candidates"].of = of
        /\ dir'["execution-plan"] = dir["execution-plan"]
        /\ dir'["execution-result"] = dir["execution-result"]
    BY <1>1, <2>2, <2>3, Written
  <2>5. ASSUME mode[j] \notin Gates, Tested(j), stage'[j] = NextStage(j) PROVE Tested(j)'
    <3>1. stage'[j] = "promote-learning"
      BY <2>1, <2>5 DEF NextStage
    <3>2. Planned(j)' /\ Passed(j)' /\ Learned(j)'
      BY <2>1, <2>2, <2>4, <2>5 DEF Tested, Planned, Passed, Learned
    <3> QED BY <3>1, <3>2 DEF Tested
  <2> QED BY <1>1, <2>1, <2>5, EndsTested
<1> QED BY <1>2, <1>3, <1>4, <1>5, <1>6, <1>7, <1>8, <1>9, <1>10 DEF Next, Step

(* A job ends with a record other than OK unless it is by its last stage.   *)
LEMMA EndsAfterPromotion ==
  ASSUME RecordsOK, NEW j \in Jobs, Active(j), mode[j] \notin Gates, Step(j),
         stage'[j] = "ended", Clean(j)'
  PROVE  /\ stage[j] = "promote-learning" /\ UNCHANGED <<dir, mode>>
         /\ Clean(j)
<1>1. ~Start(j) /\ ~Kill(j)
  BY DEF Start, Kill, Active, Stages, Gates, RecordsOK
<1>2. stage'[j] # stage[j]
  BY DEF Active, Stages, Gates
<1>3. PICK code \in ExitCodes : GoOn(j, code) \/ (Stop(j, code) /\ code # "OK")
  BY <1>1, <1>2 DEF Step, StageFails, Prepare, CorrelateBegin, CorrelateEnd, AutoConfig, Risk,
                    GeneratePlanBegin, GeneratePlanEnd, ExecuteBegin, ExecuteEnd, Report,
                    Learning, PromoteLearning, PlanAnswered, Block, ExitCodes, ThrownCodes
<1>4. Clean(j) /\ code = "OK"
  BY <1>3, CleanBefore
<1>5. GoOn(j, "OK")
  BY <1>3, <1>4
<1>6. stage'[j] = NextStage(j) /\ UNCHANGED mode
  BY <1>5 DEF GoOn, Record, RecordsOK
<1>7. stage[j] = "promote-learning"
  BY <1>6 DEF NextStage, Active, Stages, Gates
<1>8. UNCHANGED dir
  BY <1>1, <1>7 DEF Step, StageFails, Prepare, CorrelateBegin, CorrelateEnd, AutoConfig, Risk,
                    GeneratePlanBegin, GeneratePlanEnd, ExecuteBegin, ExecuteEnd, Report,
                    Learning, PromoteLearning
<1> QED BY <1>4, <1>6, <1>7, <1>8


(* A pipeline that had the directory for itself, whatever was left in it    *)
(* and however often the jobs before it were killed, exits with OK only if  *)
(* it has planned, executed its plan with success and learned from that.    *)
THEOREM OkPipelinesHaveTested == Spec => OkMeansTested
<1> DEFINE Told(j) ==
      (/\ Active(j) /\ stage'[j] = "ended" /\ mode[j] \notin Gates
       /\ FinalExitCode(j)' = "OK")
        => /\ dir'["execution-plan"].by = j
           /\ dir'["execution-result"].by = j /\ dir'["execution-result"].ok
           /\ dir'["execution-result"].about = dir'["execution-plan"].about
           /\ dir'["learning-candidates"].by = j
           /\ dir'["learning-candidates"].of = j
<1>1. EndInv' => ExitIsMostSevere'
  BY EndInvSummed, PTL
<1>2. ASSUME TestInv, EndInv', [Next]_vars PROVE [\A j \in Jobs \ shared : Told(j)]_vars
  <2> SUFFICES ASSUME Next, NEW j \in Jobs \ shared, Active(j), stage'[j] = "ended",
                      mode[j] \notin Gates, FinalExitCode(j)' = "OK"
               PROVE  /\ dir'["execution-plan"].by = j
                      /\ dir'["execution-result"].by = j /\ dir'["execution-result"].ok
                      /\ dir'["execution-result"].about = dir'["execution-plan"].about
                      /\ dir'["learning-candidates"].by = j
                      /\ dir'["learning-candidates"].of = j
    BY <1>2
  <2>1. RecordsOK /\ stage[j] # "ended"
    BY <1>2 DEF TestInv, DirInv, ShapesOK, Active, Stages, Gates
  <2>2. Clean(j)'
    <3>1. {steps'[j][i].exitCode : i \in DOMAIN steps'[j]} = {"OK"}
      BY <1>1, <1>2 DEF ExitIsMostSevere
    <3> QED BY <3>1 DEF Clean
  <2>3. Step(j)
    <3>1. ASSUME NEW k \in Jobs, k # j, Step(k) PROVE FALSE
      <4>1. (UNCHANGED stage) \/ \E next : stage' = [stage EXCEPT ![k] = next]
        BY <3>1 DEF Step, Start, Kill, StageFails, Prepare, CorrelateBegin, CorrelateEnd,
                    AutoConfig, Risk, GeneratePlanBegin, GeneratePlanEnd, ExecuteBegin,
                    ExecuteEnd, Report, Learning, PromoteLearning, PlanAnswered, Block, GoOn,
                    Stop
      <4> QED BY <2>1, <3>1, <4>1 DEF RecordsOK
    <3>2. ~Expire /\ ~AllOver
      BY <2>1 DEF Expire, AllOver, vars
    <3> QED BY <3>1, <3>2 DEF Next
  <2>4. stage[j] = "promote-learning" /\ UNCHANGED <<dir, mode>> /\ Clean(j)
    BY <2>1, <2>2, <2>3, EndsAfterPromotion
  <2>5. Planned(j) /\ Passed(j) /\ Learned(j)
    BY <1>2, <2>4 DEF TestInv, TestedUnlessTold, Tested
  <2> QED BY <2>4, <2>5 DEF Planned, Passed, Learned
<1>3. Init => EndInv
  BY DEF Init, EndInv, RecordsOK, EndedIsRecorded
<1> QED BY <1>2, <1>3, TestInvInit, TestInvStep, EndInvStep, PTL DEF Spec, OkMeansTested

=============================================================================
