---------------------------- MODULE MemoryProofs ----------------------------
(***************************************************************************)
(* Proofs about what a project keeps, for any number of jobs, builds and   *)
(* faults: LearnedMemory, where failures are counted and promoted lessons  *)
(* kept, and AutoConfig, where nothing that is known of an application is  *)
(* forgotten and a run logs in only as an analysis told; and about PrDiff, *)
(* which reads the diff of a pull request, for any paths and any lines.    *)
(***************************************************************************)
EXTENDS LearnedMemory, AutoConfig, PrDiff, TLAPS

---------------------------------------------------------------------------
(* The shape of the variables of learning and promoting.                    *)

Places == {"idle", "stopped", "find", "record", "truncate_prints", "fill_prints",
           "truncate_memory", "fill_memory", "upsert", "log"}

ShapesOK ==
  /\ at \in [Jobs -> Places] /\ clean \in BOOLEAN
  /\ DOMAIN gap = Jobs /\ DOMAIN learned = Jobs /\ DOMAIN artifact = Jobs
  /\ DOMAIN buffer = Jobs /\ (\A j \in Jobs : DOMAIN buffer[j] = {"chunks", "prints"})
  /\ DOMAIN approved = Jobs /\ DOMAIN verdicts = Jobs
  /\ DOMAIN log = Jobs

---------------------------------------------------------------------------
(* The recordings of failures.                                              *)

\* What the table of fingerprints must be.
Table(counts) ==
  [f \in DOMAIN counts |-> [occurrences |-> counts[f], linked |-> f \in LinkedGaps]]

CountsOK == LinkedGaps \subseteq DOMAIN recorded /\ recorded \in [DOMAIN recorded -> Nat]

\* In the database every recording is one step; in the file, as long as the
\* recordings were undisturbed, only one job writes, and holds what the table
\* must be when it has written.
PrintsKept ==
  /\ ~PrintsInFile => prints = Table(recorded) /\ \A j \in Jobs : at[j] \notin WritingPrints
  /\ PrintsInFile /\ clean =>
       /\ \A j, k \in Jobs : at[j] \in WritingPrints /\ at[k] \in WritingPrints => j = k
       /\ \A j \in Jobs : at[j] \in WritingPrints =>
            buffer[j].prints = Counted(Table(recorded), GapAt(j))
       /\ (\A j \in Jobs : at[j] # "fill_prints") => prints = Table(recorded)

PrintsInv == ShapesOK /\ CountsOK /\ PrintsKept

---------------------------------------------------------------------------
(* The promotion of lessons.                                                *)

\* The candidates of one job come from one run.
IsLesson(c) == DOMAIN c = {"run", "no", "kind", "step", "text", "known"}
OneRun(s) ==
  /\ \A i \in DOMAIN s : IsLesson(s[i])
  /\ \A i, k \in DOMAIN s : s[i].run = s[k].run

\* Two chunks with the same title come from the same run.
Once(chunks) ==
  \A c, d \in chunks : c.run # d.run /\ Title(c) = Title(d) => IsEscaped(c) \/ IsEscaped(d)

LessonsOnce ==
  /\ \A j \in Jobs : OneRun(learned[j]) /\ OneRun(artifact[j])
  /\ Once(memory)
  /\ \A j \in Jobs : at[j] \in WritingMemory => Once(buffer[j].chunks)

\* As long as promotions were undisturbed, only one job writes, and it holds
\* all there ever was in memory.md.
ChunksKept ==
  clean =>
    /\ \A j, k \in Jobs : at[j] \in WritingMemory /\ at[k] \in WritingMemory => j = k
    /\ \A j \in Jobs : at[j] \in WritingMemory => written \subseteq buffer[j].chunks
    /\ (\A j \in Jobs : at[j] # "fill_memory") => written \subseteq memory

HasRow(rows, c) == \E row \in rows : Content(row.chunk) = Content(c)

\* What the running promotion of j has approved is on its way.
OnItsWay(j) ==
  LET good == {i \in DOMAIN artifact[j] : verdicts[j][i] = "approved"}
  IN /\ at[j] \in WritingMemory =>
          good = approved[j] /\ \A i \in good : artifact[j][i] \in buffer[j].chunks
     /\ at[j] = "upsert" =>
          /\ WritesDatabase /\ approved[j] \subseteq DOMAIN artifact[j]
          /\ \A i \in approved[j] : artifact[j][i] \in written
          /\ \A i \in good : /\ artifact[j][i] \in written
                             /\ HasRow(database, artifact[j][i]) \/ i \in approved[j]
     /\ at[j] = "log" =>
          \A i \in good : /\ artifact[j][i] \in written
                          /\ WritesDatabase => HasRow(database, artifact[j][i])

PromotionInv ==
  /\ ShapesOK /\ LessonsOnce /\ ChunksKept /\ LogMeansStored
  /\ \A j \in Jobs : OnItsWay(j)

---------------------------------------------------------------------------
(* The knowledge of an application.                                         *)

AcPlaces ==
  {"idle", "load", "analyse", "save", "configure", "enrich", "write", "done", "failed"}

IsKnowledge(r) ==
  /\ DOMAIN r = {"known", "stale", "auth", "protected", "facts", "noise"}
  /\ r.known \in BOOLEAN /\ r.stale \in BOOLEAN

AcTypes ==
  /\ buildAt \in [Builds -> AcPlaces]
  /\ DOMAIN change = Builds /\ DOMAIN made = Builds
  /\ DOMAIN existing = Builds /\ DOMAIN knowledge = Builds
  /\ \A j \in Builds : IsKnowledge(existing[j]) /\ IsKnowledge(knowledge[j])
  /\ \A j \in Builds : DOMAIN made[j] = {"auth", "routes", "noise", "scenarios"}
  /\ DOMAIN stored = Keys /\ \A k \in Keys : IsKnowledge(stored[k])
  /\ DOMAIN told = Keys
  /\ analyses \in [Keys -> Nat]
  /\ \A j \in Builds : buildAt[j] # "idle" => Key(j) \in Keys

Placed == {"analyse", "save", "configure", "enrich", "write", "done"}

\* The login methods among answers.
Auths(answers) == {m \in {a.auth : a \in answers} : m.kind # "unknown"}

\* What a record knows of the login is what answers told.
Told(answers, r) ==
  /\ r.auth.kind = "unknown" \/ r.auth \in Auths(answers)
  /\ r.protected \subseteq UNION {a.protected : a \in answers}

AllTold ==
  /\ \A k \in Keys : Told(told[k], stored[k])
  /\ \A j \in Builds : buildAt[j] \in Placed =>
       Told(told[Key(j)], existing[j]) /\ Told(told[Key(j)], knowledge[j])

\* A config logs in as one of the answers says, where one of them says so.
LoginFrom(answers, c, auth) ==
  auth.kind \in {"formLogin", "ssoRedirect"} =>
    /\ \E a \in Auths(answers) :
         /\ a.kind = auth.kind
         /\ auth.selectors \subseteq a.selectors
         /\ \/ a.module \cap c.paths # {}
            \/ \E b \in answers : b.protected \cap c.routes # {}
    /\ IF auth.kind = "formLogin"
       THEN auth.selectors = FormSelectors
       ELSE auth.selectors \cap IdpSelectors \in {{}, IdpSelectors}

LoginInv ==
  /\ AcTypes /\ AllTold
  /\ \A j \in Builds : buildAt[j] \in {"enrich", "write", "done"} =>
       LoginFrom(told[Key(j)], change[j], made[j].auth)

\* r is all that answers told.
IsAll(answers, r) ==
  /\ answers # {} => r.known
  /\ r.facts = UNION {a.facts : a \in answers}
  /\ r.noise = UNION {a.noise : a \in answers}
  /\ r.protected = UNION {a.protected : a \in answers}
  /\ IF Auths(answers) = {} THEN r.auth.kind = "unknown" ELSE r.auth \in Auths(answers)

\* One build at most analyses a key that was not disturbed, and has what is stored.
KeyKept(k) ==
  /\ \A i, j \in Builds : i \in Analysing(k) /\ j \in Analysing(k) => i = j
  /\ ~Saving(k) => IsAll(told[k], stored[k]) /\ (analyses[k] > 0 => stored[k].known /\ ~stored[k].stale)
  /\ \A j \in Builds : Key(j) = k =>
       /\ buildAt[j] = "analyse" => IsAll(told[k], existing[j]) /\ analyses[k] = 0
       /\ buildAt[j] = "save" => /\ IsAll(told[k], knowledge[j]) /\ knowledge[j].known
                                 /\ analyses[k] > 0 => ~knowledge[j].stale
  /\ analyses[k] <= 1

KeptInv == AcTypes /\ \A k \in Keys : k \notin disturbed => KeyKept(k)

---------------------------------------------------------------------------
(* What a step of learning and promoting changes.                           *)

\* Each step keeps the shape of the variables, and moves one job.
LEMMA LearningShapes ==
  ASSUME ShapesOK, NEW j \in Jobs, NEW events, Learn(j, events)
  PROVE  ShapesOK'
  BY DEF ShapesOK, Places, Learn, store, history

\* The steps that count failures.
LEMMA DedupShapes ==
  ASSUME ShapesOK, NEW j \in Jobs,
         \/ FindFingerprint(j) \/ UpsertFingerprint(j) \/ ReadFingerprints(j)
         \/ TruncateFingerprints(j) \/ FillFingerprints(j) \/ WriteCandidates(j)
  PROVE  ShapesOK'
<1> USE DEF ShapesOK, Places, Goes, store, counters, history
<1>1. CASE FindFingerprint(j)
  BY <1>1 DEF FindFingerprint
<1>2. CASE UpsertFingerprint(j)
  BY <1>2 DEF UpsertFingerprint, Recorded
<1>3. CASE ReadFingerprints(j)
  BY <1>3 DEF ReadFingerprints, Overlaps
<1>4. CASE TruncateFingerprints(j)
  BY <1>4 DEF TruncateFingerprints
<1>5. CASE FillFingerprints(j)
  BY <1>5 DEF FillFingerprints, Recorded
<1>6. CASE WriteCandidates(j)
  BY <1>6 DEF WriteCandidates
<1> QED
  BY <1>1, <1>2, <1>3, <1>4, <1>5, <1>6

\* The steps of a promotion, and the faults.
LEMMA PromotionShapes ==
  ASSUME ShapesOK, NEW j \in Jobs,
         \/ \E auto \in BOOLEAN : Promote(j, auto)
         \/ TruncateMemory(j) \/ FillMemory(j)
         \/ UpsertChunk(j) \/ UpsertRefused(j) \/ WriteLog(j)
         \/ DatabaseFails(j) \/ Kill(j)
  PROVE  ShapesOK'
<1> USE DEF ShapesOK, Places, Goes, store, counters, history
<1>1. CASE \E auto \in BOOLEAN : Promote(j, auto)
  BY <1>1 DEF Promote, Overlaps
<1>2. CASE TruncateMemory(j)
  BY <1>2 DEF TruncateMemory
<1>3. CASE FillMemory(j)
  BY <1>3 DEF FillMemory
<1>4. CASE UpsertChunk(j)
  BY <1>4 DEF UpsertChunk, Passed
<1>5. CASE UpsertRefused(j)
  BY <1>5 DEF UpsertRefused
<1>6. CASE WriteLog(j)
  BY <1>6 DEF WriteLog
<1>7. CASE DatabaseFails(j)
  BY <1>7 DEF DatabaseFails
<1>8. CASE Kill(j)
  BY <1>8 DEF Kill
<1> QED
  BY <1>1, <1>2, <1>3, <1>4, <1>5, <1>6, <1>7, <1>8

---------------------------------------------------------------------------
(* Failures are counted.                                                    *)

\* What recorded becomes when f is recorded once more.
OneMore(counts, f) ==
  [x \in DOMAIN counts \cup {f} |->
     (IF x \in DOMAIN counts THEN counts[x] ELSE 0) + (IF x = f THEN 1 ELSE 0)]

\* Merging a recording into the table counts it, and leaves the links.
LEMMA CountedIsOneMore ==
  ASSUME NEW counts, counts \in [DOMAIN counts -> Nat], LinkedGaps \subseteq DOMAIN counts, NEW f
  PROVE  /\ Counted(Table(counts), f) = Table(OneMore(counts, f))
         /\ LinkedGaps \subseteq DOMAIN OneMore(counts, f)
         /\ OneMore(counts, f) \in [DOMAIN OneMore(counts, f) -> Nat]
<1>1. DOMAIN OneMore(counts, f) = DOMAIN counts \cup {f}
  BY DEF OneMore
<1>2. \A x \in DOMAIN OneMore(counts, f) :
        OneMore(counts, f)[x] = (IF x \in DOMAIN counts THEN counts[x] ELSE 0)
                                + (IF x = f THEN 1 ELSE 0)
  BY DEF OneMore
<1>3. OneMore(counts, f) \in [DOMAIN OneMore(counts, f) -> Nat]
  BY <1>1, <1>2 DEF OneMore
<1>4. ASSUME NEW x \in DOMAIN counts \cup {f}
      PROVE  Counted(Table(counts), f)[x]
               = [occurrences |-> OneMore(counts, f)[x], linked |-> x \in LinkedGaps]
  <2>1. CASE x # f
    <3>1. OneMore(counts, f)[x] = counts[x]
      BY <1>1, <1>2, <2>1
    <3>2. Counted(Table(counts), f)[x] = Table(counts)[x]
      BY <2>1 DEF Counted, Table
    <3> QED
      BY <2>1, <3>1, <3>2 DEF Table
  <2>2. CASE x = f /\ f \in DOMAIN counts
    <3>1. OneMore(counts, f)[x] = counts[x] + 1
      BY <1>1, <1>2, <2>2
    <3>2. Counted(Table(counts), f)[x] = [Table(counts)[x] EXCEPT !.occurrences = @ + 1]
      BY <2>2 DEF Counted, Table
    <3>3. Table(counts)[x] = [occurrences |-> counts[x], linked |-> x \in LinkedGaps]
      BY <2>2 DEF Table
    <3>4. [Table(counts)[x] EXCEPT !.occurrences = @ + 1]
            = [occurrences |-> counts[x] + 1, linked |-> x \in LinkedGaps]
      BY <3>3
    <3> QED
      BY <3>1, <3>2, <3>4
  <2>3. CASE x = f /\ f \notin DOMAIN counts
    <3>1. OneMore(counts, f)[x] = 1
      BY <1>1, <1>2, <2>3
    <3>2. Counted(Table(counts), f)[x] = [occurrences |-> 1, linked |-> FALSE]
      BY <2>3 DEF Counted, Table
    <3>3. (x \in LinkedGaps) = FALSE
      BY <2>3
    <3>4. [occurrences |-> 1, linked |-> FALSE]
            = [occurrences |-> OneMore(counts, f)[x], linked |-> x \in LinkedGaps]
      BY <3>1, <3>3, Zenon
    <3> QED
      BY <3>2, <3>4, Zenon
  <2> QED
    BY <2>1, <2>2, <2>3
<1>5. Counted(Table(counts), f) = Table(OneMore(counts, f))
  <2>1. Counted(Table(counts), f)
          = [x \in DOMAIN counts \cup {f} |-> Counted(Table(counts), f)[x]]
    BY DEF Counted, Table
  <2> QED
    BY <1>1, <1>4, <2>1 DEF Table
<1> QED
  BY <1>1, <1>3, <1>5

\* The invariant holds in the initial states.
LEMMA PrintsInitially == Init => PrintsInv
<1> SUFFICES ASSUME Init PROVE PrintsInv
  OBVIOUS
<1>1. ShapesOK
  BY DEF Init, ShapesOK, Places
<1>2. CountsOK
  BY DEF Init, CountsOK
<1>3. prints = Table(recorded)
  <2>1. \A f \in LinkedGaps :
          [occurrences |-> 1, linked |-> TRUE] = [occurrences |-> 1, linked |-> f \in LinkedGaps]
    <3> SUFFICES ASSUME NEW f \in LinkedGaps
                 PROVE  [occurrences |-> 1, linked |-> TRUE]
                          = [occurrences |-> 1, linked |-> f \in LinkedGaps]
      OBVIOUS
    <3>1. (f \in LinkedGaps) = TRUE
      OBVIOUS
    <3> QED
      BY <3>1, Zenon
  <2>2. recorded = [f \in LinkedGaps |-> 1]
    BY DEF Init
  <2>3. DOMAIN recorded = LinkedGaps /\ \A f \in LinkedGaps : recorded[f] = 1
    BY <2>2
  <2>4. Table(recorded) = [f \in LinkedGaps |-> [occurrences |-> 1, linked |-> f \in LinkedGaps]]
    BY <2>3, Zenon DEF Table
  <2> QED
    BY <2>1, <2>4, Zenon DEF Init
<1>4. PrintsKept
  <2>1. \A j \in Jobs : at[j] = "idle"
    BY DEF Init
  <2> QED
    BY <1>3, <2>1 DEF PrintsKept, WritingPrints
<1> QED
  BY <1>1, <1>2, <1>4 DEF PrintsInv

\* A step of job j that writes neither fingerprints nor their counts, and
\* leaves, if at all, the places where they are written.
LEMMA PrintsUntouched ==
  ASSUME PrintsInv, NEW j \in Jobs,
         UNCHANGED <<config, prints, recorded>>,
         at' \in [Jobs -> Places],
         \A k \in Jobs \ {j} : at'[k] = at[k],
         \A k \in Jobs : at'[k] \in WritingPrints =>
            /\ at'[k] = at[k] /\ GapAt(k)' = GapAt(k) /\ buffer'[k].prints = buffer[k].prints,
         clean' \in BOOLEAN, clean' => clean,
         at[j] = "fill_prints" => at'[j] = "fill_prints" \/ ~clean'
  PROVE  CountsOK' /\ PrintsKept'
<1>1. CountsOK'
  BY DEF PrintsInv, CountsOK
<1>2. CASE ~PrintsInFile
  <2>1. ~PrintsInFile'
    BY <1>2 DEF PrintsInFile
  <2>2. prints' = Table(recorded)' /\ \A k \in Jobs : at'[k] \notin WritingPrints
    BY <1>2 DEF PrintsInv, PrintsKept, Table
  <2> QED
    BY <1>1, <2>1, <2>2 DEF PrintsKept, WritingPrints
<1>3. CASE PrintsInFile
  <2>1. PrintsInFile'
    BY <1>3 DEF PrintsInFile
  <2> SUFFICES ASSUME clean'
               PROVE  /\ \A i, k \in Jobs :
                           at'[i] \in WritingPrints /\ at'[k] \in WritingPrints => i = k
                      /\ \A k \in Jobs : at'[k] \in WritingPrints =>
                           buffer'[k].prints = Counted(Table(recorded'), GapAt(k)')
                      /\ (\A k \in Jobs : at'[k] # "fill_prints") => prints' = Table(recorded')
    BY <1>1, <2>1 DEF PrintsKept, WritingPrints
  <2>2. /\ \A i, k \in Jobs : at[i] \in WritingPrints /\ at[k] \in WritingPrints => i = k
        /\ \A k \in Jobs : at[k] \in WritingPrints =>
             buffer[k].prints = Counted(Table(recorded), GapAt(k))
        /\ (\A k \in Jobs : at[k] # "fill_prints") => prints = Table(recorded)
    BY <1>3 DEF PrintsInv, PrintsKept
  <2>3. (\A k \in Jobs : at'[k] # "fill_prints") => (\A k \in Jobs : at[k] # "fill_prints")
    OBVIOUS
  <2> QED
    BY <2>2, <2>3
<1> QED
  BY <1>1, <1>2, <1>3

\* Recording a failure in the database is one step.
LEMMA PrintsUpsert ==
  ASSUME PrintsInv, NEW j \in Jobs, UpsertFingerprint(j)
  PROVE  CountsOK' /\ PrintsKept'
<1> DEFINE f == GapAt(j)
<1>1. /\ ~PrintsInFile /\ config' = config
      /\ at[j] = "record" /\ at' = [at EXCEPT ![j] = "find"]
      /\ prints' = Counted(prints, f) /\ recorded' = OneMore(recorded, f)
  BY DEF UpsertFingerprint, Recorded, OneMore, Goes
<1> HIDE DEF f
<1>2. prints = Table(recorded) /\ \A k \in Jobs : at[k] \notin WritingPrints
  BY <1>1 DEF PrintsInv, PrintsKept
<1>3. /\ Counted(Table(recorded), f) = Table(OneMore(recorded, f))
      /\ LinkedGaps \subseteq DOMAIN OneMore(recorded, f)
      /\ OneMore(recorded, f) \in [DOMAIN OneMore(recorded, f) -> Nat]
  BY CountedIsOneMore DEF PrintsInv, CountsOK
<1>4. CountsOK'
  BY <1>1, <1>3 DEF CountsOK
<1>5. prints' = Table(recorded')
  BY <1>1, <1>2, <1>3
<1>6. \A k \in Jobs : at'[k] \notin WritingPrints
  BY <1>1, <1>2 DEF PrintsInv, ShapesOK, WritingPrints
<1>7. ~PrintsInFile'
  BY <1>1 DEF PrintsInFile
<1> QED
  BY <1>4, <1>5, <1>6, <1>7 DEF PrintsKept, WritingPrints

\* Reading the file, the job takes what the table must be with its failure.
LEMMA PrintsRead ==
  ASSUME PrintsInv, NEW j \in Jobs, ReadFingerprints(j)
  PROVE  CountsOK' /\ PrintsKept'
<1>1. /\ PrintsInFile /\ PrintsInFile'
      /\ at[j] = "record" /\ at' = [at EXCEPT ![j] = "truncate_prints"]
      /\ buffer' = [buffer EXCEPT ![j].prints = Counted(prints, GapAt(j))]
      /\ clean' = (clean /\ ~Overlaps(j, WritingPrints))
      /\ UNCHANGED <<prints, learned, gap, recorded>>
  BY DEF ReadFingerprints, Goes, PrintsInFile, store
<1>2. CountsOK'
  BY <1>1 DEF PrintsInv, CountsOK
<1> SUFFICES ASSUME clean'
             PROVE  /\ \A i, k \in Jobs :
                         at'[i] \in WritingPrints /\ at'[k] \in WritingPrints => i = k
                    /\ \A k \in Jobs : at'[k] \in WritingPrints =>
                         buffer'[k].prints = Counted(Table(recorded'), GapAt(k)')
                    /\ (\A k \in Jobs : at'[k] # "fill_prints") => prints' = Table(recorded')
  BY <1>1, <1>2 DEF PrintsKept, WritingPrints
<1>3. clean /\ \A k \in Jobs \ {j} : at[k] \notin WritingPrints
  BY <1>1 DEF Overlaps
<1>4. \A k \in Jobs : at[k] # "fill_prints"
  BY <1>1, <1>3 DEF WritingPrints
<1>5. prints = Table(recorded)
  BY <1>1, <1>3, <1>4 DEF PrintsInv, PrintsKept
<1>6. \A k \in Jobs \ {j} : at'[k] \notin WritingPrints
  BY <1>1, <1>3 DEF PrintsInv, ShapesOK
<1>7. GapAt(j)' = GapAt(j)
  BY <1>1 DEF GapAt, NextGap
<1>8. buffer'[j].prints = Counted(Table(recorded'), GapAt(j)')
  <2>1. buffer'[j].prints = Counted(prints, GapAt(j))
    BY <1>1 DEF PrintsInv, ShapesOK
  <2> QED
    BY <1>1, <1>5, <1>7, <2>1
<1> QED
  BY <1>1, <1>5, <1>6, <1>8

\* Only a job that is alone with the file truncates it without harm.
LEMMA PrintsTruncate ==
  ASSUME PrintsInv, NEW j \in Jobs, TruncateFingerprints(j)
  PROVE  CountsOK' /\ PrintsKept'
<1>1. /\ config' = config
      /\ at[j] = "truncate_prints" /\ at' = [at EXCEPT ![j] = "fill_prints"]
      /\ UNCHANGED <<buffer, clean, learned, gap, recorded>>
  BY DEF TruncateFingerprints, Goes, history
<1>2. CountsOK'
  BY <1>1 DEF PrintsInv, CountsOK
<1>3. PrintsInFile /\ PrintsInFile'
  BY <1>1 DEF PrintsInv, PrintsKept, PrintsInFile, WritingPrints
<1>4. at'[j] = "fill_prints" /\ \A k \in Jobs \ {j} : at'[k] = at[k]
  BY <1>1 DEF PrintsInv, ShapesOK
<1>5. \A k \in Jobs : GapAt(k)' = GapAt(k)
  BY <1>1 DEF GapAt, NextGap
<1> SUFFICES ASSUME clean'
             PROVE  /\ \A i, k \in Jobs :
                         at'[i] \in WritingPrints /\ at'[k] \in WritingPrints => i = k
                    /\ \A k \in Jobs : at'[k] \in WritingPrints =>
                         buffer'[k].prints = Counted(Table(recorded'), GapAt(k)')
  BY <1>2, <1>3, <1>4 DEF PrintsKept, WritingPrints
<1>6. /\ \A i, k \in Jobs : at[i] \in WritingPrints /\ at[k] \in WritingPrints => i = k
      /\ \A k \in Jobs : at[k] \in WritingPrints =>
           buffer[k].prints = Counted(Table(recorded), GapAt(k))
  BY <1>1, <1>3 DEF PrintsInv, PrintsKept
<1>7. \A k \in Jobs : at'[k] \in WritingPrints => at[k] \in WritingPrints
  BY <1>1, <1>4 DEF WritingPrints
<1> QED
  BY <1>1, <1>5, <1>6, <1>7

\* Filling the file, the job completes its recording.
LEMMA PrintsFill ==
  ASSUME PrintsInv, NEW j \in Jobs, FillFingerprints(j)
  PROVE  CountsOK' /\ PrintsKept'
<1> DEFINE f == GapAt(j)
<1>1. /\ config' = config
      /\ at[j] = "fill_prints" /\ at' = [at EXCEPT ![j] = "find"]
      /\ prints' = buffer[j].prints /\ recorded' = OneMore(recorded, f)
      /\ clean' = clean
  BY DEF FillFingerprints, Recorded, OneMore, Goes
<1>2. buffer[j].prints = Counted(Table(recorded), f)  \/ ~clean
  BY <1>1 DEF PrintsInv, PrintsKept, WritingPrints
<1> HIDE DEF f
<1>3. /\ Counted(Table(recorded), f) = Table(OneMore(recorded, f))
      /\ LinkedGaps \subseteq DOMAIN OneMore(recorded, f)
      /\ OneMore(recorded, f) \in [DOMAIN OneMore(recorded, f) -> Nat]
  BY CountedIsOneMore DEF PrintsInv, CountsOK
<1>4. CountsOK'
  BY <1>1, <1>3 DEF CountsOK
<1>5. PrintsInFile /\ PrintsInFile'
  BY <1>1 DEF PrintsInv, PrintsKept, PrintsInFile, WritingPrints
<1> SUFFICES ASSUME clean'
             PROVE  /\ \A k \in Jobs : at'[k] \notin WritingPrints
                    /\ prints' = Table(recorded')
  BY <1>4, <1>5 DEF PrintsKept, WritingPrints
<1>6. \A k \in Jobs : at[k] \in WritingPrints => k = j
  BY <1>1, <1>5 DEF PrintsInv, PrintsKept, WritingPrints
<1>7. \A k \in Jobs : at'[k] \notin WritingPrints
  BY <1>1, <1>6 DEF PrintsInv, ShapesOK, WritingPrints
<1> QED
  BY <1>1, <1>2, <1>3, <1>7

\* Every other step leaves the fingerprints alone.
LEMMA PrintsOther ==
  ASSUME PrintsInv, ShapesOK', NEW j \in Jobs,
         \/ \E events \in Executions : Learn(j, events)
         \/ FindFingerprint(j) \/ WriteCandidates(j)
         \/ \E auto \in BOOLEAN : Promote(j, auto)
         \/ TruncateMemory(j) \/ FillMemory(j)
         \/ UpsertChunk(j) \/ UpsertRefused(j) \/ WriteLog(j)
         \/ DatabaseFails(j) \/ Kill(j)
  PROVE  CountsOK' /\ PrintsKept'
<1> USE DEF store, counters, history, Goes, WritingPrints, ShapesOK, Places
<1>1. at \in [Jobs -> Places] /\ at' \in [Jobs -> Places] /\ clean \in BOOLEAN /\ clean' \in BOOLEAN
  BY DEF PrintsInv
<1>2. UNCHANGED <<config, prints, recorded>>
  <2>1. CASE \E events \in Executions : Learn(j, events)
    BY <2>1 DEF Learn
  <2>2. CASE FindFingerprint(j) \/ WriteCandidates(j)
    BY <2>2 DEF FindFingerprint, WriteCandidates
  <2>3. CASE \E auto \in BOOLEAN : Promote(j, auto)
    BY <2>3 DEF Promote
  <2>4. CASE TruncateMemory(j) \/ FillMemory(j) \/ UpsertChunk(j) \/ UpsertRefused(j) \/ WriteLog(j)
    BY <2>4 DEF TruncateMemory, FillMemory, UpsertChunk, UpsertRefused, WriteLog
  <2>5. CASE DatabaseFails(j) \/ Kill(j)
    BY <2>5 DEF DatabaseFails, Kill
  <2> QED
    BY <2>1, <2>2, <2>3, <2>4, <2>5
<1>3. /\ \A k \in Jobs \ {j} : at'[k] = at[k]
      /\ clean' => clean
      /\ at'[j] \notin WritingPrints
      /\ at[j] = "fill_prints" => ~clean'
      /\ \A k \in Jobs \ {j} : learned'[k] = learned[k] /\ gap'[k] = gap[k]
      /\ \A k \in Jobs : buffer'[k].prints = buffer[k].prints
  <2>0. DOMAIN learned = Jobs /\ DOMAIN gap = Jobs /\ DOMAIN buffer = Jobs
        /\ \A k \in Jobs : DOMAIN buffer[k] = {"chunks", "prints"}
    BY DEF PrintsInv
  <2>1. CASE \E events \in Executions : Learn(j, events)
    BY <1>1, <2>0, <2>1 DEF Learn
  <2>2. CASE FindFingerprint(j)
    BY <1>1, <2>0, <2>2 DEF FindFingerprint
  <2>3. CASE WriteCandidates(j)
    BY <1>1, <2>0, <2>3 DEF WriteCandidates
  <2>4. CASE \E auto \in BOOLEAN : Promote(j, auto)
    <3>1. PICK auto \in BOOLEAN : Promote(j, auto)
      BY <2>4
    <3>2. /\ at[j] \in {"idle", "stopped"} /\ UNCHANGED <<learned, gap>>
          /\ \A k \in Jobs \ {j} : at'[k] = at[k]
          /\ at'[j] \in {"log", "truncate_memory"}
      BY <1>1, <3>1 DEF Promote
    <3>3. clean' => clean
      BY <1>1, <3>1 DEF Promote
    <3>4. \A k \in Jobs : buffer'[k].prints = buffer[k].prints
      BY <2>0, <3>1 DEF Promote
    <3> QED
      BY <3>2, <3>3, <3>4
  <2>5. CASE TruncateMemory(j) \/ FillMemory(j)
    BY <1>1, <2>0, <2>5 DEF TruncateMemory, FillMemory
  <2>6. CASE UpsertChunk(j)
    BY <1>1, <2>0, <2>6 DEF UpsertChunk, NextChunk, Passed
  <2>7. CASE UpsertRefused(j) \/ WriteLog(j)
    BY <1>1, <2>0, <2>7 DEF UpsertRefused, WriteLog
  <2>8. CASE DatabaseFails(j)
    <3>1. at[j] # "fill_prints"
      BY <2>8 DEF DatabaseFails
    <3> QED
      BY <1>1, <2>0, <2>8, <3>1 DEF DatabaseFails
  <2>9. CASE Kill(j)
    BY <1>1, <2>0, <2>9 DEF Kill
  <2> QED
    BY <2>1, <2>2, <2>3, <2>4, <2>5, <2>6, <2>7, <2>8, <2>9
<1>4. \A k \in Jobs \ {j} : GapAt(k)' = GapAt(k)
  BY <1>3 DEF GapAt, NextGap
<1> QED
  BY <1>1, <1>2, <1>3, <1>4, PrintsUntouched

\* Every failure recorded is counted: in the database whatever happens, in the
\* file as long as the recordings were undisturbed (FailuresCounted).
THEOREM FailuresAlwaysCounted == Spec => []FailuresCounted
<1>1. PrintsInv /\ [Next]_vars => PrintsInv'
  <2> SUFFICES ASSUME PrintsInv, [Next]_vars PROVE PrintsInv'
    OBVIOUS
  <2>1. CASE UNCHANGED vars
    BY <2>1 DEF vars, store, job, history, counters, PrintsInv, ShapesOK, CountsOK, PrintsKept,
                PrintsInFile, GapAt, NextGap
  <2>2. CASE Next
    <3>1. PICK j \in Jobs : Step(j)
      BY <2>2 DEF Next
    <3>2. ShapesOK'
      BY <3>1, LearningShapes, DedupShapes, PromotionShapes DEF Step, PrintsInv
    <3>3. CountsOK' /\ PrintsKept'
      BY <3>1, <3>2, PrintsUpsert, PrintsRead, PrintsTruncate, PrintsFill, PrintsOther DEF Step
    <3> QED
      BY <3>2, <3>3 DEF PrintsInv
  <2> QED
    BY <2>1, <2>2
<1>2. PrintsInv => FailuresCounted
  <2> SUFFICES ASSUME PrintsInv,
                      ~PrintsInFile \/ (clean /\ \A j \in Jobs : at[j] # "fill_prints")
               PROVE  prints = [f \in DOMAIN recorded |->
                                  [occurrences |-> recorded[f], linked |-> f \in LinkedGaps]]
    BY DEF FailuresCounted
  <2>1. prints = Table(recorded)
    BY DEF PrintsInv, PrintsKept
  <2> QED
    BY <2>1, Zenon DEF Table
<1> QED
  BY PrintsInitially, <1>1, <1>2, PTL DEF Spec

---------------------------------------------------------------------------
(* What was promoted is kept.                                               *)

\* What is approved has no title the memory has.
LEMMA ApprovedIsNew ==
  ASSUME NEW c, NEW chunks, NEW auto, Evaluate(c, chunks, auto) = "approved"
  PROVE  ~InMemory(c, chunks)
  BY DEF Evaluate

\* What an execution teaches is of its run.
LEMMA ExtractedOfOneRun ==
  ASSUME NEW run, NEW events
  PROVE  OneRun(Extract(run, events))
<1> DEFINE all == Telling(events)
<1>1. Extract(run, events)
        = [i \in DOMAIN all |-> [run |-> run, no |-> i, kind |-> all[i].kind,
                                 step |-> all[i].step, text |-> all[i].text, known |-> FALSE]]
  BY DEF Extract
<1> HIDE DEF all
<1>2. \A i \in DOMAIN Extract(run, events) : IsLesson(Extract(run, events)[i])
  BY <1>1 DEF IsLesson
<1>3. \A i \in DOMAIN Extract(run, events) : Extract(run, events)[i].run = run
  BY <1>1
<1> QED
  BY <1>2, <1>3 DEF OneRun

\* The invariant holds in the initial states.
LEMMA PromotionInitially == Init => PromotionInv
<1> SUFFICES ASSUME Init PROVE PromotionInv
  OBVIOUS
<1>1. ShapesOK
  BY DEF Init, ShapesOK, Places
<1>2. /\ at = [j \in Jobs |-> "idle"] /\ log = [j \in Jobs |-> NoLog]
      /\ learned = [j \in Jobs |-> <<>>] /\ artifact = [j \in Jobs |-> <<>>]
      /\ memory = {} /\ database = {} /\ written = {}
  BY DEF Init
<1>3. LessonsOnce
  BY <1>2 DEF LessonsOnce, OneRun, Once, WritingMemory
<1>4. ChunksKept
  BY <1>2 DEF ChunksKept, WritingMemory
<1>5. LogMeansStored
  BY <1>2 DEF LogMeansStored, NoLog
<1>6. \A j \in Jobs : OnItsWay(j)
  BY <1>2 DEF OnItsWay, WritingMemory
<1> QED
  BY <1>1, <1>3, <1>4, <1>5, <1>6 DEF PromotionInv

\* A step of job j that leaves memory.md, the database and the logs, and after
\* which j has no promotion running.
LEMMA PromotionUntouched ==
  ASSUME PromotionInv, NEW j \in Jobs,
         UNCHANGED <<config, memory, database, written, log>>,
         \A k \in Jobs \ {j} :
            /\ at'[k] = at[k] /\ artifact'[k] = artifact[k] /\ verdicts'[k] = verdicts[k]
            /\ approved'[k] = approved[k] /\ buffer'[k].chunks = buffer[k].chunks,
         at'[j] \notin WritingMemory \cup {"upsert", "log"},
         clean' => clean,
         at[j] = "fill_memory" => ~clean',
         \A k \in Jobs : OneRun(learned'[k]) /\ OneRun(artifact'[k])
  PROVE  LessonsOnce' /\ ChunksKept' /\ LogMeansStored' /\ \A k \in Jobs : OnItsWay(k)'
<1>1. LessonsOnce'
  BY DEF PromotionInv, LessonsOnce, WritingMemory, Once
<1>2. ChunksKept'
  BY DEF PromotionInv, ChunksKept, WritingMemory
<1>3. LogMeansStored'
  BY DEF PromotionInv, LogMeansStored, WritesDatabase
<1>4. ASSUME NEW k \in Jobs PROVE OnItsWay(k)'
  <2>1. CASE k = j
    BY <2>1 DEF OnItsWay, WritingMemory
  <2>2. CASE k # j
    BY <2>2 DEF PromotionInv, OnItsWay, HasRow, WritesDatabase, WritingMemory
  <2> QED
    BY <2>1, <2>2
<1> QED
  BY <1>1, <1>2, <1>3, <1>4

\* Learning, failing and dying.
LEMMA PromotionOther ==
  ASSUME PromotionInv, ShapesOK', NEW j \in Jobs,
         \/ \E events \in Executions : Learn(j, events)
         \/ FindFingerprint(j) \/ UpsertFingerprint(j) \/ ReadFingerprints(j)
         \/ TruncateFingerprints(j) \/ FillFingerprints(j) \/ WriteCandidates(j)
         \/ UpsertRefused(j) \/ DatabaseFails(j) \/ Kill(j)
  PROVE  LessonsOnce' /\ ChunksKept' /\ LogMeansStored' /\ \A k \in Jobs : OnItsWay(k)'
<1> USE DEF store, counters, history, Goes, WritingMemory, ShapesOK, Places
<1>0. /\ ShapesOK
      /\ \A k \in Jobs : OneRun(learned[k]) /\ OneRun(artifact[k])
  BY DEF PromotionInv, LessonsOnce
<1>1. CASE \E events \in Executions : Learn(j, events)
  <2>1. PICK events \in Executions : Learn(j, events)
    BY <1>1
  <2> DEFINE extracted == Extract(RunId(runs'), events)
  <2>2. /\ UNCHANGED <<config, memory, database, written, log, artifact, verdicts, approved, buffer, clean>>
        /\ at' = [at EXCEPT ![j] = "find"] /\ at[j] \in {"idle", "stopped"}
        /\ learned' = [learned EXCEPT ![j] = extracted]
    BY <2>1 DEF Learn
  <2>3. OneRun(extracted)
    BY ExtractedOfOneRun
  <2> HIDE DEF extracted
  <2>4. \A k \in Jobs : OneRun(learned'[k]) /\ OneRun(artifact'[k])
    BY <1>0, <2>2, <2>3
  <2> QED
    BY <1>0, <2>2, <2>4, PromotionUntouched
<1>2. CASE FindFingerprint(j)
  <2> DEFINE n == NextGap(j)
             known == GapAt(j) \in DOMAIN prints /\ prints[GapAt(j)].linked
  <2>1. /\ UNCHANGED <<config, memory, database, written, log, artifact, verdicts, approved, buffer, clean>>
        /\ at' = [at EXCEPT ![j] = "record"] /\ at[j] = "find"
        /\ learned' = [learned EXCEPT ![j][n].known = known]
    BY <1>2 DEF FindFingerprint
  <2> HIDE DEF n, known
  <2>2. OneRun(learned'[j])
    <3>1. learned'[j] = [learned[j] EXCEPT ![n].known = known]
      BY <1>0, <2>1
    <3>2. \A i \in DOMAIN learned[j] :
            IsLesson(learned'[j][i]) /\ learned'[j][i].run = learned[j][i].run
      BY <1>0, <3>1 DEF OneRun, IsLesson
    <3>3. DOMAIN learned'[j] = DOMAIN learned[j]
      BY <3>1
    <3> QED
      BY <1>0, <3>2, <3>3 DEF OneRun
  <2>3. \A k \in Jobs : OneRun(learned'[k]) /\ OneRun(artifact'[k])
    BY <1>0, <2>1, <2>2
  <2> QED
    BY <1>0, <2>1, <2>3, PromotionUntouched
<1>3. CASE UpsertFingerprint(j)
  BY <1>0, <1>3, PromotionUntouched DEF UpsertFingerprint, Recorded
<1>4. CASE ReadFingerprints(j)
  <2>1. /\ UNCHANGED <<config, memory, database, written, log, artifact, verdicts, approved, learned>>
        /\ at' = [at EXCEPT ![j] = "truncate_prints"] /\ at[j] = "record"
        /\ \A k \in Jobs : buffer'[k].chunks = buffer[k].chunks
        /\ clean' => clean
    BY <1>0, <1>4 DEF ReadFingerprints
  <2> QED
    BY <1>0, <2>1, PromotionUntouched
<1>5. CASE TruncateFingerprints(j)
  BY <1>0, <1>5, PromotionUntouched DEF TruncateFingerprints
<1>6. CASE FillFingerprints(j)
  BY <1>0, <1>6, PromotionUntouched DEF FillFingerprints, Recorded
<1>7. CASE WriteCandidates(j)
  BY <1>0, <1>7, PromotionUntouched DEF WriteCandidates
<1>8. CASE UpsertRefused(j)
  BY <1>0, <1>8, PromotionUntouched DEF UpsertRefused
<1>9. CASE DatabaseFails(j)
  <2>1. at[j] # "fill_memory"
    BY <1>9 DEF DatabaseFails
  <2> QED
    BY <1>0, <1>9, <2>1, PromotionUntouched DEF DatabaseFails
<1>10. CASE Kill(j)
  BY <1>0, <1>10, PromotionUntouched DEF Kill
<1> QED
  BY <1>1, <1>2, <1>3, <1>4, <1>5, <1>6, <1>7, <1>8, <1>9, <1>10

\* The judgement: no lesson that memory.md has is approved again, and what is
\* approved is all in the text that will be written.
LEMMA PromotionJudged ==
  ASSUME PromotionInv, ShapesOK', NEW j \in Jobs, NEW auto \in BOOLEAN, Promote(j, auto)
  PROVE  LessonsOnce' /\ ChunksKept' /\ LogMeansStored' /\ \A k \in Jobs : OnItsWay(k)'
<1> DEFINE judged == [i \in DOMAIN artifact[j] |-> Evaluate(artifact[j][i], memory, auto)]
           good == {i \in DOMAIN judged : judged[i] = "approved"}
           new == {artifact[j][i] : i \in good}
<1>1. /\ UNCHANGED <<config, memory, database, learned, artifact, log, written>>
      /\ verdicts' = [verdicts EXCEPT ![j] = judged]
      /\ approved' = [approved EXCEPT ![j] = good]
      /\ buffer' = [buffer EXCEPT ![j].chunks = memory \cup new]
      /\ at[j] \in {"idle", "stopped"}
      /\ at' = [at EXCEPT ![j] = IF good = {} THEN "log" ELSE "truncate_memory"]
      /\ clean' = (clean /\ ~Overlaps(j, WritingMemory))
  BY DEF Promote, store, Appended
<1>2. /\ \A i \in good : i \in DOMAIN artifact[j] /\ ~InMemory(artifact[j][i], memory)
      /\ good = {i \in DOMAIN artifact[j] : judged[i] = "approved"}
  BY ApprovedIsNew
<1>3. \A i \in good : artifact[j][i] \in new
  OBVIOUS
<1>4. \A c \in new : \E i \in good : c = artifact[j][i]
  OBVIOUS
<1> HIDE DEF judged, good, new
<1>5. /\ at'[j] = IF good = {} THEN "log" ELSE "truncate_memory"
      /\ verdicts'[j] = judged /\ approved'[j] = good /\ buffer'[j].chunks = memory \cup new
      /\ \A k \in Jobs \ {j} :
           /\ at'[k] = at[k] /\ verdicts'[k] = verdicts[k] /\ approved'[k] = approved[k]
           /\ buffer'[k] = buffer[k]
  BY <1>1 DEF PromotionInv, ShapesOK
<1>6. Once(memory \cup new)
  <2>1. Once(memory) /\ OneRun(artifact[j])
    BY DEF PromotionInv, LessonsOnce
  <2>2. \A c \in new : \A d \in memory : Title(c) = Title(d) => IsEscaped(c)
    BY <1>2, <1>4 DEF InMemory
  <2>3. \A c, d \in new : c.run = d.run
    BY <1>2, <1>4, <2>1 DEF OneRun
  <2> QED
    BY <2>1, <2>2, <2>3 DEF Once
<1>7. LessonsOnce'
  BY <1>1, <1>5, <1>6 DEF PromotionInv, LessonsOnce, WritingMemory, Once
<1>8. ChunksKept'
  <2> SUFFICES ASSUME clean'
               PROVE  /\ \A i, k \in Jobs :
                           at'[i] \in WritingMemory /\ at'[k] \in WritingMemory => i = k
                      /\ \A k \in Jobs : at'[k] \in WritingMemory => written \subseteq buffer'[k].chunks
                      /\ written \subseteq memory
    BY <1>1 DEF ChunksKept, WritingMemory
  <2>1. clean /\ \A k \in Jobs \ {j} : at[k] \notin WritingMemory
    BY <1>1 DEF Overlaps
  <2>2. \A k \in Jobs : at[k] # "fill_memory"
    BY <1>1, <2>1 DEF WritingMemory
  <2>3. written \subseteq memory
    BY <2>1, <2>2 DEF PromotionInv, ChunksKept
  <2> QED
    BY <1>5, <2>1, <2>3
<1>9. LogMeansStored'
  BY <1>1 DEF PromotionInv, LogMeansStored, WritesDatabase
<1>10. ASSUME NEW k \in Jobs PROVE OnItsWay(k)'
  <2>1. CASE k = j
    <3>1. {i \in DOMAIN artifact'[k] : verdicts'[k][i] = "approved"} = good
      BY <1>1, <1>2, <1>5, <2>1
    <3>2. \A i \in good : artifact'[k][i] \in buffer'[k].chunks
      BY <1>1, <1>3, <1>5, <2>1
    <3> QED
      BY <1>5, <2>1, <3>1, <3>2 DEF OnItsWay, WritingMemory
  <2>2. CASE k # j
    BY <1>1, <1>5, <2>2 DEF PromotionInv, OnItsWay, HasRow, WritesDatabase, WritingMemory
  <2> QED
    BY <2>1, <2>2
<1> QED
  BY <1>7, <1>8, <1>9, <1>10

\* Truncating memory.md takes nothing from the text that is about to fill it.
LEMMA PromotionTruncated ==
  ASSUME PromotionInv, NEW j \in Jobs, TruncateMemory(j)
  PROVE  LessonsOnce' /\ ChunksKept' /\ LogMeansStored' /\ \A k \in Jobs : OnItsWay(k)'
<1>1. /\ UNCHANGED <<config, database, learned, artifact, log, written, verdicts, approved,
                     buffer, clean>>
      /\ at[j] = "truncate_memory" /\ at' = [at EXCEPT ![j] = "fill_memory"] /\ memory' = {}
  BY DEF TruncateMemory, Goes, history
<1>2. at'[j] = "fill_memory" /\ \A k \in Jobs \ {j} : at'[k] = at[k]
  BY <1>1 DEF PromotionInv, ShapesOK
<1>3. \A k \in Jobs : at'[k] \in WritingMemory => at[k] \in WritingMemory
  BY <1>1, <1>2 DEF WritingMemory
<1>4. LessonsOnce'
  BY <1>1, <1>3 DEF PromotionInv, LessonsOnce, Once
<1>5. ChunksKept'
  BY <1>1, <1>2, <1>3 DEF PromotionInv, ChunksKept
<1>6. LogMeansStored'
  BY <1>1 DEF PromotionInv, LogMeansStored, WritesDatabase
<1>7. ASSUME NEW k \in Jobs PROVE OnItsWay(k)'
  BY <1>1, <1>2 DEF PromotionInv, OnItsWay, HasRow, WritesDatabase, WritingMemory
<1> QED
  BY <1>4, <1>5, <1>6, <1>7

\* Filling it, the job writes what it approved.
LEMMA PromotionFilled ==
  ASSUME PromotionInv, NEW j \in Jobs, FillMemory(j)
  PROVE  LessonsOnce' /\ ChunksKept' /\ LogMeansStored' /\ \A k \in Jobs : OnItsWay(k)'
<1>1. /\ UNCHANGED <<config, database, learned, artifact, log, verdicts, approved, buffer, clean>>
      /\ at[j] = "fill_memory"
      /\ at' = [at EXCEPT ![j] = IF WritesDatabase THEN "upsert" ELSE "log"]
      /\ memory' = buffer[j].chunks /\ written' = written \cup buffer[j].chunks
  BY DEF FillMemory, Goes
<1>2. /\ at'[j] = (IF WritesDatabase THEN "upsert" ELSE "log")
      /\ \A k \in Jobs \ {j} : at'[k] = at[k]
  BY <1>1 DEF PromotionInv, ShapesOK
<1>3. at'[j] \notin WritingMemory
  BY <1>2 DEF WritingMemory
<1>4. LessonsOnce'
  BY <1>1, <1>2, <1>3 DEF PromotionInv, LessonsOnce, Once, WritingMemory
<1>5. ChunksKept'
  <2> SUFFICES ASSUME clean
               PROVE  /\ \A k \in Jobs : at'[k] \notin WritingMemory
                      /\ written' \subseteq memory'
    BY <1>1 DEF ChunksKept
  <2>1. /\ \A k \in Jobs : at[k] \in WritingMemory => k = j
        /\ written \subseteq buffer[j].chunks
    BY <1>1 DEF PromotionInv, ChunksKept, WritingMemory
  <2> QED
    BY <1>1, <1>2, <1>3, <2>1
<1>6. LogMeansStored'
  BY <1>1 DEF PromotionInv, LogMeansStored, WritesDatabase
<1>7. ASSUME NEW k \in Jobs PROVE OnItsWay(k)'
  <2> DEFINE good == {i \in DOMAIN artifact[k] : verdicts[k][i] = "approved"}
  <2>1. /\ UNCHANGED <<artifact, verdicts, approved, buffer, database>>
        /\ WritesDatabase' = WritesDatabase
    BY <1>1 DEF WritesDatabase
  <2>2. CASE k = j
    <3>1. good = approved[k] /\ \A i \in good : artifact[k][i] \in written'
      BY <1>1, <2>2 DEF PromotionInv, OnItsWay, WritingMemory
    <3> QED
      BY <1>2, <1>3, <2>1, <2>2, <3>1 DEF OnItsWay
  <2>3. CASE k # j
    <3>1. at'[k] = at[k] /\ written \subseteq written'
      BY <1>1, <1>2, <2>3
    <3> QED
      BY <2>1, <3>1 DEF PromotionInv, OnItsWay, HasRow
  <2> QED
    BY <2>2, <2>3
<1> QED
  BY <1>4, <1>5, <1>6, <1>7

\* A row that replaces another one has the same content.
LEMMA PromotionInserted ==
  ASSUME PromotionInv, NEW j \in Jobs, UpsertChunk(j)
  PROVE  LessonsOnce' /\ ChunksKept' /\ LogMeansStored' /\ \A k \in Jobs : OnItsWay(k)'
<1>1. PICK i \in approved[j] :
        /\ at[j] = "upsert"
        /\ database' = {row \in database : Content(row.chunk) # Content(artifact[j][i])}
                         \cup {Row(artifact[j][i])}
        /\ approved' = [approved EXCEPT ![j] = @ \ {i}]
        /\ at' = [at EXCEPT ![j] = IF approved[j] = {i} THEN "log" ELSE "upsert"]
  BY DEF UpsertChunk, NextChunk, Passed
<1> DEFINE c == artifact[j][i]
<1>2. UNCHANGED <<config, memory, learned, artifact, log, verdicts, buffer, clean, written>>
  BY DEF UpsertChunk, history
<1>3. /\ at'[j] = (IF approved[j] = {i} THEN "log" ELSE "upsert")
      /\ approved'[j] = approved[j] \ {i}
      /\ \A k \in Jobs \ {j} : at'[k] = at[k] /\ approved'[k] = approved[k]
  BY <1>1 DEF PromotionInv, ShapesOK
<1>4. c \in written /\ WritesDatabase
  BY <1>1 DEF PromotionInv, OnItsWay
<1>5. Row(c).chunk = c
  BY DEF Row
<1>6. \A d : HasRow(database, d) \/ Content(d) = Content(c) => HasRow(database', d)
  <2> SUFFICES ASSUME NEW d, HasRow(database, d) \/ Content(d) = Content(c)
               PROVE  \E row \in database' : Content(row.chunk) = Content(d)
    BY DEF HasRow
  <2>1. CASE Content(d) = Content(c)
    BY <1>1, <1>5, <2>1
  <2>2. CASE HasRow(database, d) /\ Content(d) # Content(c)
    BY <1>1, <2>2 DEF HasRow
  <2> QED
    BY <2>1, <2>2
<1>7. \A row \in database' : row.chunk \in written'
  BY <1>1, <1>2, <1>4, <1>5 DEF PromotionInv, LogMeansStored
<1> HIDE DEF c
<1>8. LessonsOnce'
  BY <1>1, <1>2, <1>3 DEF PromotionInv, LessonsOnce, Once, WritingMemory
<1>9. ChunksKept'
  BY <1>1, <1>2, <1>3 DEF PromotionInv, ChunksKept, WritingMemory
<1>10. LogMeansStored'
  <2>1. \A k \in Jobs : \A n \in DOMAIN log[k].candidates : log[k].verdicts[n] = "approved" =>
          /\ log[k].candidates[n] \in written
          /\ WritesDatabase => HasRow(database, log[k].candidates[n])
    BY DEF PromotionInv, LogMeansStored, HasRow
  <2>2. \A k \in Jobs : \A n \in DOMAIN log[k].candidates : log[k].verdicts[n] = "approved" =>
          /\ log[k].candidates[n] \in written
          /\ WritesDatabase => HasRow(database', log[k].candidates[n])
    BY <1>6, <2>1
  <2> QED
    BY <1>2, <1>7, <2>2 DEF LogMeansStored, HasRow, WritesDatabase
<1>11. ASSUME NEW k \in Jobs PROVE OnItsWay(k)'
  <2>1. WritesDatabase'
    BY <1>2, <1>4 DEF WritesDatabase
  <2>2. CASE k = j
    <3> DEFINE good == {n \in DOMAIN artifact[j] : verdicts[j][n] = "approved"}
    <3>1. /\ approved[j] \subseteq DOMAIN artifact[j]
          /\ \A n \in approved[j] : artifact[j][n] \in written
          /\ \A n \in good : /\ artifact[j][n] \in written
                             /\ HasRow(database, artifact[j][n]) \/ n \in approved[j]
      BY <1>1 DEF PromotionInv, OnItsWay
    <3>2. \A n \in good : HasRow(database', artifact[j][n]) \/ n \in approved[j] \ {i}
      BY <1>6, <3>1 DEF c
    <3>3. at'[j] = "log" => approved[j] \ {i} = {}
      BY <1>3
    <3> QED
      BY <1>2, <1>3, <2>1, <2>2, <3>1, <3>2, <3>3 DEF OnItsWay, WritingMemory, HasRow
  <2>3. CASE k # j
    <3>1. OnItsWay(k) /\ at'[k] = at[k] /\ approved'[k] = approved[k]
      BY <1>3, <2>3 DEF PromotionInv
    <3> QED
      BY <1>2, <1>4, <1>6, <2>1, <3>1 DEF OnItsWay, HasRow
  <2> QED
    BY <2>2, <2>3
<1> QED
  BY <1>8, <1>9, <1>10, <1>11

\* The log tells what is done.
LEMMA PromotionLogged ==
  ASSUME PromotionInv, NEW j \in Jobs, WriteLog(j)
  PROVE  LessonsOnce' /\ ChunksKept' /\ LogMeansStored' /\ \A k \in Jobs : OnItsWay(k)'
<1>1. /\ UNCHANGED <<config, memory, database, learned, artifact, verdicts, approved, buffer, clean,
                     written>>
      /\ at[j] = "log" /\ at' = [at EXCEPT ![j] = "idle"]
      /\ log' = [log EXCEPT ![j] = [candidates |-> artifact[j], verdicts |-> verdicts[j]]]
  BY DEF WriteLog, Goes, store, history
<1>2. at'[j] = "idle" /\ \A k \in Jobs \ {j} : at'[k] = at[k] /\ log'[k] = log[k]
  BY <1>1 DEF PromotionInv, ShapesOK
<1>3. log'[j].candidates = artifact[j] /\ log'[j].verdicts = verdicts[j]
  BY <1>1 DEF PromotionInv, ShapesOK
<1>4. LessonsOnce'
  BY <1>1, <1>2 DEF PromotionInv, LessonsOnce, Once, WritingMemory
<1>5. ChunksKept'
  BY <1>1, <1>2 DEF PromotionInv, ChunksKept, WritingMemory
<1>6. LogMeansStored'
  <2>1. \A n \in DOMAIN artifact[j] : verdicts[j][n] = "approved" =>
          /\ artifact[j][n] \in written
          /\ WritesDatabase => HasRow(database, artifact[j][n])
    BY <1>1 DEF PromotionInv, OnItsWay
  <2> QED
    BY <1>1, <1>2, <1>3, <2>1 DEF PromotionInv, LogMeansStored, WritesDatabase, HasRow
<1>7. ASSUME NEW k \in Jobs PROVE OnItsWay(k)'
  BY <1>1, <1>2 DEF PromotionInv, OnItsWay, HasRow, WritesDatabase, WritingMemory
<1> QED
  BY <1>4, <1>5, <1>6, <1>7

\* What was promoted is kept, and once, whatever overlaps, fails or dies
\* (PromotedIsKept).
THEOREM PromotedAlwaysKept == Spec => []PromotedIsKept
<1>1. PromotionInv /\ [Next]_vars => PromotionInv'
  <2> SUFFICES ASSUME PromotionInv, [Next]_vars PROVE PromotionInv'
    OBVIOUS
  <2>1. CASE UNCHANGED vars
    BY <2>1 DEF vars, store, job, history, counters, PromotionInv, ShapesOK, LessonsOnce, Once,
                ChunksKept, LogMeansStored, OnItsWay, HasRow, WritesDatabase
  <2>2. CASE Next
    <3>1. PICK j \in Jobs : Step(j)
      BY <2>2 DEF Next
    <3>2. ShapesOK'
      BY <3>1, LearningShapes, DedupShapes, PromotionShapes DEF Step, PromotionInv
    <3>3. LessonsOnce' /\ ChunksKept' /\ LogMeansStored' /\ \A k \in Jobs : OnItsWay(k)'
      BY <3>1, <3>2, PromotionOther, PromotionJudged, PromotionTruncated, PromotionFilled,
         PromotionInserted, PromotionLogged DEF Step
    <3> QED
      BY <3>2, <3>3 DEF PromotionInv
  <2> QED
    BY <2>1, <2>2
<1>2. PromotionInv => PromotedIsKept
  BY DEF PromotionInv, PromotedIsKept, MemoryKept, ChunksKept, WritingMemory, LessonsOnce, Once,
         LearnedOnce
<1> QED
  BY PromotionInitially, <1>1, <1>2, PTL DEF Spec

---------------------------------------------------------------------------
(* What is known of an application.                                         *)

\* Whatever the LLM answers, the knowledge is known and of today.
IsAnswer(r) == IsKnowledge(r) /\ r.known /\ ~r.stale

\* So it is for each of the three.
LEMMA AnswersAreKnowledge ==
  ASSUME NEW fresh,
         fresh = Silent \/ fresh = Unusable \/ \E body \in Bodies : fresh = Answered(body)
  PROVE  IsAnswer(fresh)
<1>1. CASE fresh = Silent
  BY <1>1 DEF Silent, NothingKnown, IsAnswer, IsKnowledge
<1>2. CASE fresh = Unusable
  BY <1>2 DEF Unusable, NothingKnown, IsAnswer, IsKnowledge
<1>3. CASE \E body \in Bodies : fresh = Answered(body)
  BY <1>3 DEF Answered, IsAnswer, IsKnowledge
<1> QED
  BY <1>1, <1>2, <1>3

\* What merging an answer with older knowledge gives.
LEMMA Merged ==
  ASSUME NEW old, IsKnowledge(old), NEW fresh, IsAnswer(fresh)
  PROVE  /\ IsAnswer(Merge(old, fresh))
         /\ Merge(old, fresh).auth = IF fresh.auth.kind = "unknown" THEN old.auth ELSE fresh.auth
         /\ Merge(old, fresh).protected = fresh.protected \cup old.protected
         /\ Merge(old, fresh).facts = fresh.facts \cup old.facts
         /\ Merge(old, fresh).noise = fresh.noise \cup old.noise
  BY DEF Merge, IsAnswer, IsKnowledge

\* What a step of one build leaves alone.
LEMMA BuildChanges ==
  ASSUME AcTypes, NEW j \in Builds, Build(j)
  PROVE  /\ UNCHANGED setup
         /\ \A i \in Builds \ {j} :
              /\ buildAt'[i] = buildAt[i] /\ Key(i)' = Key(i) /\ change'[i] = change[i]
              /\ existing'[i] = existing[i] /\ knowledge'[i] = knowledge[i] /\ made'[i] = made[i]
         /\ buildAt[j] # "idle" => Key(j)' = Key(j) /\ change'[j] = change[j]
<1> USE DEF AcTypes, Go, setup, acCounters, acHistory, Key
<1>1. CASE ReadInputs(j)
  BY <1>1 DEF ReadInputs
<1>2. CASE Load(j) \/ LoadFails(j)
  BY <1>2 DEF Load, LoadFails, Resolve
<1>3. CASE Analyse(j)
  BY <1>3 DEF Analyse
<1>4. CASE Save(j) \/ SaveFails(j)
  BY <1>4 DEF Save, SaveFails
<1>5. CASE Configure(j) \/ Enrich(j) \/ Write(j)
  BY <1>5 DEF Configure, Enrich, Write
<1> QED
  BY <1>1, <1>2, <1>3, <1>4, <1>5 DEF Build

\* Time changes only the date.
LEMMA AgedIsKnowledge ==
  ASSUME NEW r, IsKnowledge(r)
  PROVE  /\ IsKnowledge(Aged(r))
         /\ Aged(r).auth = r.auth /\ Aged(r).protected = r.protected
         /\ Aged(r).facts = r.facts /\ Aged(r).noise = r.noise
         /\ Aged(r).known = r.known
  BY DEF IsKnowledge, Aged

\* The types of the builds.
LEMMA TypesInitially == AutoConfigInit => AcTypes
<1> SUFFICES ASSUME AutoConfigInit PROVE AcTypes
  OBVIOUS
<1>1. IsKnowledge(NothingKnown) /\ IsKnowledge([Silent EXCEPT !.stale = TRUE])
  BY DEF NothingKnown, Silent, IsKnowledge
<1>2. DOMAIN stored = Keys /\ \A k \in Keys : IsKnowledge(stored[k])
  BY <1>1 DEF AutoConfigInit
<1>3. DOMAIN NoConfig = {"auth", "routes", "noise", "scenarios"}
  BY DEF NoConfig
<1> QED
  BY <1>1, <1>2, <1>3 DEF AutoConfigInit, AcTypes, AcPlaces

\* Every step keeps them.
LEMMA TypesKept == AcTypes /\ [AutoConfigNext]_acVars => AcTypes'
<1> SUFFICES ASSUME AcTypes, [AutoConfigNext]_acVars PROVE AcTypes'
  OBVIOUS
<1> USE DEF AcPlaces, Go, setup, acCounters, acHistory
<1>1. ASSUME NEW j \in Builds, ReadInputs(j) PROVE AcTypes'
  <2>1. PICK c \in Changes : change' = [change EXCEPT ![j] = c]
    BY <1>1 DEF ReadInputs
  <2>2. \A i \in Builds : i # j => Key(i)' = Key(i)
    BY <1>1, <2>1 DEF ReadInputs, AcTypes, Key
  <2>3. change'[j] = c
    BY <2>1 DEF AcTypes
  <2>4. Key(j)' \in Keys
    BY <2>1, <2>3, AutoConfigAssumption DEF Key, Keys, Range
  <2> QED
    BY <1>1, <2>1, <2>2, <2>4 DEF ReadInputs, AcTypes
<1>2. ASSUME NEW j \in Builds, Load(j) \/ LoadFails(j) PROVE AcTypes'
  <2>1. IsKnowledge(NothingKnown)
    BY DEF NothingKnown, IsKnowledge
  <2>2. \A i \in Builds : Key(i)' = Key(i)
    BY <1>2 DEF Load, LoadFails, Key
  <2>3. Key(j) \in Keys
    BY <1>2 DEF Load, LoadFails, AcTypes
  <2> QED
    BY <1>2, <2>1, <2>2, <2>3 DEF Load, LoadFails, Resolve, AcTypes
<1>3. ASSUME NEW j \in Builds, Analyse(j) PROVE AcTypes'
  <2>1. PICK fresh : /\ fresh = Silent \/ fresh = Unusable \/ \E body \in Bodies : fresh = Answered(body)
                     /\ knowledge' = [knowledge EXCEPT ![j] =
                            IF existing[j].known THEN Merge(existing[j], fresh) ELSE fresh]
                     /\ told' = [told EXCEPT ![Key(j)] = @ \cup {fresh}]
    BY <1>3 DEF Analyse
  <2>2. IsKnowledge(fresh) /\ IsKnowledge(Merge(existing[j], fresh))
    BY <2>1, AnswersAreKnowledge, Merged DEF IsAnswer, AcTypes
  <2>3. \A i \in Builds : Key(i)' = Key(i)
    BY <1>3 DEF Analyse, Key
  <2>4. analyses' \in [Keys -> Nat]
    BY <1>3 DEF Analyse, AcTypes
  <2>5. \A i \in Builds : IsKnowledge(knowledge'[i])
    BY <2>1, <2>2 DEF AcTypes
  <2> QED
    BY <1>3, <2>1, <2>3, <2>4, <2>5 DEF Analyse, AcTypes
<1>4. ASSUME NEW j \in Builds, Save(j) \/ SaveFails(j) PROVE AcTypes'
  <2>1. \A i \in Builds : Key(i)' = Key(i)
    BY <1>4 DEF Save, SaveFails, Key
  <2> QED
    BY <1>4, <2>1 DEF Save, SaveFails, AcTypes
<1>5. ASSUME NEW j \in Builds, Configure(j) \/ Enrich(j) \/ Write(j) PROVE AcTypes'
  <2>1. \A i \in Builds : Key(i)' = Key(i)
    BY <1>5 DEF Configure, Enrich, Write, Key
  <2>2. \A i \in Builds : DOMAIN made'[i] = {"auth", "routes", "noise", "scenarios"}
    BY <1>5 DEF Configure, Enrich, Write, AcTypes, Plain, Enriched
  <2>3. /\ DOMAIN made' = Builds /\ buildAt' \in [Builds -> AcPlaces]
        /\ UNCHANGED <<setup, stored, change, existing, knowledge, acCounters, acHistory>>
        /\ \A i \in Builds : buildAt'[i] # "idle" => buildAt[i] # "idle"
    BY <1>5 DEF Configure, Enrich, Write, AcTypes
  <2> QED
    BY <2>1, <2>2, <2>3 DEF AcTypes
<1>6. ASSUME Age PROVE AcTypes'
  <2>1. \A r : IsKnowledge(r) => IsKnowledge(Aged(r))
    BY AgedIsKnowledge
  <2>2. \A i \in Builds : Key(i)' = Key(i)
    BY <1>6 DEF Age, Key
  <2> QED
    BY <1>6, <2>1, <2>2 DEF Age, AcTypes
<1>7. ASSUME UNCHANGED acVars PROVE AcTypes'
  BY <1>7 DEF acVars, build, AcTypes, Key
<1> QED
  BY <1>1, <1>2, <1>3, <1>4, <1>5, <1>6, <1>7 DEF AutoConfigNext, Build

---------------------------------------------------------------------------
(* A run logs in only as it was told.                                       *)

\* A login is configured only from a method that is known, with the selectors
\* it needs, for a change that touches what it protects.
LEMMA AuthIsKnown ==
  ASSUME NEW c, NEW r, Auth(c, r).kind \in {"formLogin", "ssoRedirect"}
  PROVE  /\ Auth(c, r).kind = r.auth.kind
         /\ Auth(c, r).selectors \subseteq r.auth.selectors
         /\ TouchesProtected(c, r)
         /\ IF Auth(c, r).kind = "formLogin"
            THEN Auth(c, r).selectors = FormSelectors
            ELSE Auth(c, r).selectors \cap IdpSelectors \in {{}, IdpSelectors}
<1>1. CASE storageState
  BY <1>1 DEF Auth, NoAuth
<1>2. CASE ~storageState /\ ~TouchesProtected(c, r)
  BY <1>2 DEF Auth, NoAuth
<1>3. CASE ~storageState /\ TouchesProtected(c, r) /\ r.auth.kind = "formLogin"
             /\ FormSelectors \subseteq r.auth.selectors
  <2>1. Auth(c, r) = [kind |-> r.auth.kind, selectors |-> FormSelectors, success |-> r.auth.success]
    BY <1>3 DEF Auth
  <2> QED
    BY <1>3, <2>1
<1>4. CASE ~storageState /\ TouchesProtected(c, r) /\ r.auth.kind = "ssoRedirect"
             /\ {"loginButton"} \subseteq r.auth.selectors
  <2> DEFINE idp == IF IdpSelectors \subseteq r.auth.selectors THEN IdpSelectors ELSE {}
  <2>1. Auth(c, r) = [kind |-> r.auth.kind, selectors |-> {"loginButton"} \cup idp,
                      success |-> r.auth.success]
    BY <1>4 DEF Auth
  <2>2. ({"loginButton"} \cup idp) \cap IdpSelectors = idp
    BY DEF IdpSelectors
  <2> QED
    BY <1>4, <2>1, <2>2
<1>5. CASE /\ ~storageState /\ TouchesProtected(c, r)
           /\ ~(r.auth.kind = "formLogin" /\ FormSelectors \subseteq r.auth.selectors)
           /\ ~(r.auth.kind = "ssoRedirect" /\ {"loginButton"} \subseteq r.auth.selectors)
  <2>1. Auth(c, r) = NoAuth
    BY <1>5 DEF Auth
  <2> QED
    BY <2>1 DEF NoAuth
<1> QED
  BY <1>1, <1>2, <1>3, <1>4, <1>5

\* The login of a config is told when what is known is.
LEMMA ConfiguredAsTold ==
  ASSUME NEW answers, NEW c, NEW r, Told(answers, r)
  PROVE  LoginFrom(answers, c, Auth(c, r))
<1> DEFINE auth == Auth(c, r)
<1> SUFFICES ASSUME auth.kind \in {"formLogin", "ssoRedirect"}
             PROVE  /\ \E a \in Auths(answers) :
                         /\ a.kind = auth.kind
                         /\ auth.selectors \subseteq a.selectors
                         /\ \/ a.module \cap c.paths # {}
                            \/ \E b \in answers : b.protected \cap c.routes # {}
                    /\ IF auth.kind = "formLogin"
                       THEN auth.selectors = FormSelectors
                       ELSE auth.selectors \cap IdpSelectors \in {{}, IdpSelectors}
  BY DEF LoginFrom
<1>1. /\ auth.kind = r.auth.kind
      /\ auth.selectors \subseteq r.auth.selectors
      /\ TouchesProtected(c, r)
      /\ IF auth.kind = "formLogin"
         THEN auth.selectors = FormSelectors
         ELSE auth.selectors \cap IdpSelectors \in {{}, IdpSelectors}
  BY AuthIsKnown
<1> HIDE DEF auth
<1>2. r.auth \in Auths(answers)
  BY <1>1 DEF Told
<1>3. r.auth.module \cap c.paths # {} \/ \E b \in answers : b.protected \cap c.routes # {}
  <2>1. CASE r.auth.module \cap c.paths # {}
    BY <2>1
  <2>2. CASE r.protected \cap c.routes # {}
    BY <2>2 DEF Told
  <2> QED
    BY <1>1, <2>1, <2>2 DEF TouchesProtected
<1> QED
  BY <1>1, <1>2, <1>3

\* More answers take nothing back.
LEMMA ToldStays ==
  ASSUME NEW answers, NEW more, answers \subseteq more
  PROVE  /\ \A r : Told(answers, r) => Told(more, r)
         /\ \A c, auth : LoginFrom(answers, c, auth) => LoginFrom(more, c, auth)
<1>1. Auths(answers) \subseteq Auths(more)
  BY DEF Auths
<1>2. UNION {a.protected : a \in answers} \subseteq UNION {a.protected : a \in more}
  OBVIOUS
<1>3. \A r : Told(answers, r) => Told(more, r)
  BY <1>1, <1>2 DEF Told
<1>4. \A c, auth : LoginFrom(answers, c, auth) => LoginFrom(more, c, auth)
  BY <1>1 DEF LoginFrom
<1> QED
  BY <1>3, <1>4

\* Merging an answer with what was told is told by both.
LEMMA ToldMerged ==
  ASSUME NEW answers, NEW old, IsKnowledge(old), Told(answers, old), NEW fresh, IsAnswer(fresh)
  PROVE  Told(answers \cup {fresh}, fresh) /\ Told(answers \cup {fresh}, Merge(old, fresh))
<1> DEFINE more == answers \cup {fresh}
<1>1. Told(more, old)
  BY ToldStays
<1>2. Told(more, fresh)
  BY DEF Told, Auths
<1>3. /\ Merge(old, fresh).auth = IF fresh.auth.kind = "unknown" THEN old.auth ELSE fresh.auth
      /\ Merge(old, fresh).protected = fresh.protected \cup old.protected
  BY Merged
<1> HIDE DEF more
<1>4. Told(more, Merge(old, fresh))
  BY <1>1, <1>2, <1>3 DEF Told
<1> QED
  BY <1>2, <1>4 DEF more

\* At first nothing is known.
LEMMA LoginInitially == AutoConfigInit => LoginInv
<1> SUFFICES ASSUME AutoConfigInit PROVE LoginInv
  OBVIOUS
<1>1. AcTypes
  BY TypesInitially
<1>2. /\ \A k \in Keys : told[k] = {}
      /\ \A k \in Keys : stored[k] \in {NothingKnown, [Silent EXCEPT !.stale = TRUE]}
      /\ \A j \in Builds : buildAt[j] = "idle"
  BY DEF AutoConfigInit
<1>3. ASSUME NEW k \in Keys PROVE stored[k].auth.kind = "unknown" /\ stored[k].protected = {}
  <2>1. NothingKnown.auth.kind = "unknown" /\ NothingKnown.protected = {}
    BY DEF NothingKnown, Unknown
  <2>2. /\ [Silent EXCEPT !.stale = TRUE].auth = Unknown
        /\ [Silent EXCEPT !.stale = TRUE].protected = {}
    BY DEF NothingKnown, Silent
  <2>3. Unknown.kind = "unknown"
    BY DEF Unknown
  <2> QED
    BY <1>2, <2>1, <2>2, <2>3
<1> QED
  BY <1>1, <1>2, <1>3 DEF LoginInv, AllTold, Told, Placed

\* What the builds and the store know was told, after a step of a build.
LEMMA KnownWasTold ==
  ASSUME LoginInv, AcTypes', NEW j \in Builds, Build(j)
  PROVE  AllTold' /\ \A k \in Keys : told[k] \subseteq told'[k]
<1> USE DEF Go, setup, acCounters, acHistory, Placed
<1>0. /\ AcTypes
      /\ \A k \in Keys : Told(told[k], stored[k])
      /\ \A i \in Builds : buildAt[i] \in Placed =>
           Told(told[Key(i)], existing[i]) /\ Told(told[Key(i)], knowledge[i])
      /\ \A i \in Builds : buildAt[i] \in Placed => Key(i) \in Keys
  BY DEF LoginInv, AllTold, AcTypes
<1>1. CASE ReadInputs(j)
  <2>1. /\ UNCHANGED <<told, stored, existing, knowledge>>
        /\ buildAt'[j] \notin Placed
    BY <1>0, <1>1 DEF ReadInputs, AcTypes
  <2> QED
    BY <1>0, <2>1, BuildChanges DEF AllTold
<1>2. CASE Load(j) \/ LoadFails(j)
  <2>1. PICK found : /\ Resolve(j, found) /\ found \in {stored[Key(j)], NothingKnown}
                     /\ UNCHANGED <<told, stored>> /\ buildAt[j] = "load"
    BY <1>2 DEF Load, LoadFails
  <2>2. Key(j) \in Keys /\ Key(j)' = Key(j)
    BY <1>0, <2>1, BuildChanges DEF AcTypes
  <2>3. Told(told[Key(j)], NothingKnown)
    BY DEF Told, NothingKnown, Unknown
  <2>4. Told(told[Key(j)], found)
    BY <1>0, <2>1, <2>2, <2>3
  <2>5. existing'[j] = found /\ knowledge'[j] = found
    BY <1>0, <2>1 DEF Resolve, AcTypes
  <2>6. \A k \in Keys : told'[k] = told[k] /\ stored'[k] = stored[k]
    BY <2>1
  <2>7. \A i \in Builds : buildAt'[i] \in Placed =>
          Told(told'[Key(i)'], existing'[i]) /\ Told(told'[Key(i)'], knowledge'[i])
    <3> SUFFICES ASSUME NEW i \in Builds, buildAt'[i] \in Placed
                 PROVE  Told(told'[Key(i)'], existing'[i]) /\ Told(told'[Key(i)'], knowledge'[i])
      OBVIOUS
    <3>1. CASE i = j
      BY <2>1, <2>2, <2>4, <2>5, <3>1
    <3>2. CASE i # j
      BY <1>0, <2>1, <3>2, BuildChanges
    <3> QED
      BY <3>1, <3>2
  <2> QED
    BY <1>0, <2>6, <2>7 DEF AllTold
<1>3. CASE Analyse(j)
  <2>1. PICK fresh : /\ fresh = Silent \/ fresh = Unusable \/ \E body \in Bodies : fresh = Answered(body)
                     /\ knowledge' = [knowledge EXCEPT ![j] =
                            IF existing[j].known THEN Merge(existing[j], fresh) ELSE fresh]
                     /\ told' = [told EXCEPT ![Key(j)] = @ \cup {fresh}]
    BY <1>3 DEF Analyse
  <2>2. /\ buildAt[j] = "analyse" /\ UNCHANGED <<stored, existing>>
        /\ Key(j) \in Keys /\ Key(j)' = Key(j)
    BY <1>0, <1>3, BuildChanges DEF Analyse, AcTypes
  <2>3. told'[Key(j)] = told[Key(j)] \cup {fresh} /\ \A k \in Keys : k # Key(j) => told'[k] = told[k]
    BY <1>0, <2>1, <2>2 DEF AcTypes
  <2>4. \A k \in Keys : told[k] \subseteq told'[k]
    BY <2>3
  <2>5. Told(told'[Key(j)], knowledge'[j])
    <3>1. IsAnswer(fresh)
      BY <2>1, AnswersAreKnowledge
    <3>2. IsKnowledge(existing[j]) /\ Told(told[Key(j)], existing[j])
      BY <1>0, <2>2 DEF AcTypes
    <3>3. Told(told[Key(j)] \cup {fresh}, fresh)
          /\ Told(told[Key(j)] \cup {fresh}, Merge(existing[j], fresh))
      BY <3>1, <3>2, ToldMerged
    <3>4. knowledge'[j] \in {fresh, Merge(existing[j], fresh)}
      BY <1>0, <2>1 DEF AcTypes
    <3> QED
      BY <2>3, <3>3, <3>4
  <2>6. \A k \in Keys : \A r : Told(told[k], r) => Told(told'[k], r)
    BY <2>4, ToldStays
  <2>7. \A i \in Builds : buildAt'[i] \in Placed =>
          Told(told'[Key(i)'], existing'[i]) /\ Told(told'[Key(i)'], knowledge'[i])
    <3> SUFFICES ASSUME NEW i \in Builds, buildAt'[i] \in Placed
                 PROVE  Told(told'[Key(i)'], existing'[i]) /\ Told(told'[Key(i)'], knowledge'[i])
      OBVIOUS
    <3>1. CASE i = j
      BY <1>0, <2>2, <2>5, <2>6, <3>1
    <3>2. CASE i # j
      BY <1>0, <2>6, <3>2, BuildChanges
    <3> QED
      BY <3>1, <3>2
  <2>8. \A k \in Keys : Told(told'[k], stored'[k])
    BY <1>0, <2>2, <2>6
  <2> QED
    BY <2>4, <2>7, <2>8 DEF AllTold
<1>4. CASE Save(j)
  <2>1. /\ UNCHANGED <<told, existing, knowledge>>
        /\ buildAt[j] = "save" /\ buildAt'[j] = "configure"
        /\ stored' = [stored EXCEPT ![Key(j)] = knowledge[j]]
        /\ Key(j) \in Keys /\ Key(j)' = Key(j)
    BY <1>0, <1>4, BuildChanges DEF Save, AcTypes
  <2>2. \A k \in Keys : Told(told'[k], stored'[k])
    BY <1>0, <2>1 DEF AcTypes
  <2> QED
    BY <1>0, <2>1, <2>2, BuildChanges DEF AllTold
<1>5. CASE SaveFails(j) \/ Configure(j) \/ Enrich(j) \/ Write(j)
  <2>1. /\ UNCHANGED <<told, stored, existing, knowledge>>
        /\ buildAt[j] \in Placed /\ Key(j)' = Key(j)
    BY <1>0, <1>5, BuildChanges DEF SaveFails, Configure, Enrich, Write, AcTypes
  <2> QED
    BY <1>0, <2>1, BuildChanges DEF AllTold
<1> QED
  BY <1>1, <1>2, <1>3, <1>4, <1>5 DEF Build

\* A run logs in only by a method that an analysis told, with its selectors
\* and where it protects what the change touches (LoginWasTold).
THEOREM LoginsWereTold == AutoConfigSpec => []LoginWasTold
<1>1. LoginInv /\ [AutoConfigNext]_acVars => LoginInv'
  <2> SUFFICES ASSUME LoginInv, [AutoConfigNext]_acVars PROVE LoginInv'
    OBVIOUS
  <2>1. AcTypes /\ AcTypes'
    BY TypesKept DEF LoginInv
  <2>2. CASE UNCHANGED acVars
    BY <2>1, <2>2 DEF acVars, build, setup, acHistory, LoginInv, AllTold, Key
  <2>3. CASE Age
    <3>1. \A r : IsKnowledge(r) => Aged(r).auth = r.auth /\ Aged(r).protected = r.protected
      BY AgedIsKnowledge
    <3>2. /\ UNCHANGED <<buildAt, change, made, told, inDatabase>>
          /\ \A i \in Builds : Key(i)' = Key(i)
      BY <2>3 DEF Age, setup, Key
    <3>3. /\ \A k \in Keys : stored'[k].auth = stored[k].auth /\ stored'[k].protected = stored[k].protected
          /\ \A i \in Builds :
               /\ existing'[i].auth = existing[i].auth /\ existing'[i].protected = existing[i].protected
               /\ knowledge'[i].auth = knowledge[i].auth
               /\ knowledge'[i].protected = knowledge[i].protected
      BY <2>1, <2>3, <3>1 DEF Age, AcTypes
    <3>4. AllTold'
      BY <3>2, <3>3 DEF LoginInv, AllTold, Told
    <3> QED
      BY <2>1, <3>2, <3>4 DEF LoginInv
  <2>4. CASE \E j \in Builds : Build(j)
    <3>1. PICK j \in Builds : Build(j)
      BY <2>4
    <3>2. AllTold' /\ \A k \in Keys : told[k] \subseteq told'[k]
      BY <2>1, <3>1, KnownWasTold
    <3>3. ASSUME NEW i \in Builds, buildAt'[i] \in {"enrich", "write", "done"}
          PROVE  LoginFrom(told'[Key(i)'], change'[i], made'[i].auth)
      <4>1. CASE buildAt[i] \in {"enrich", "write", "done"} /\ made'[i].auth = made[i].auth
                 /\ Key(i)' = Key(i) /\ change'[i] = change[i]
        BY <2>1, <3>2, <4>1, ToldStays DEF LoginInv, AcTypes
      <4>2. CASE i # j
        BY <3>1, <3>3, <4>1, <4>2, BuildChanges, <2>1
      <4>3. CASE i = j /\ Configure(j)
        <5>1. made'[i].auth = Auth(change[i], knowledge[i])
          BY <2>1, <4>3 DEF Configure, Plain, AcTypes
        <5>2. Told(told[Key(i)], knowledge[i])
          BY <4>3 DEF Configure, LoginInv, AllTold, Placed
        <5>3. UNCHANGED <<told, change>> /\ Key(i)' = Key(i)
          BY <4>3 DEF Configure, acHistory, setup, Key
        <5> QED
          BY <5>1, <5>2, <5>3, ConfiguredAsTold
      <4>4. CASE i = j /\ (Enrich(j) \/ Write(j))
        <5>1. made'[i].auth = made[i].auth
          <6>1. \A c, e : DOMAIN c = {"auth", "routes", "noise", "scenarios"}
                            => Enriched(c, e).auth = c.auth
            BY DEF Enriched
          <6>2. DOMAIN made = Builds
                /\ DOMAIN made[i] = {"auth", "routes", "noise", "scenarios"}
            BY <2>1 DEF AcTypes
          <6>3. CASE Enrich(j)
            BY <4>4, <6>1, <6>2, <6>3 DEF Enrich
          <6>4. CASE Write(j)
            BY <6>4 DEF Write
          <6> QED
            BY <4>4, <6>3, <6>4
        <5>2. buildAt[i] \in {"enrich", "write"}
          BY <4>4 DEF Enrich, Write
        <5> QED
          BY <2>1, <3>1, <4>1, <4>4, <5>1, <5>2, BuildChanges
      <4>5. CASE i = j /\ ~Configure(j) /\ ~Enrich(j) /\ ~Write(j)
        BY <2>1, <3>1, <3>3, <4>5
           DEF Build, ReadInputs, Load, LoadFails, Resolve, Analyse, Save, SaveFails, Go, AcTypes
      <4> QED
        BY <4>2, <4>3, <4>4, <4>5
    <3> QED
      BY <2>1, <3>2, <3>3 DEF LoginInv
  <2> QED
    BY <2>2, <2>3, <2>4 DEF AutoConfigNext
<1>2. LoginInv => LoginWasTold
  BY DEF LoginInv, LoginFrom, LoginWasTold, ToldAuths, Auths
<1> QED
  BY LoginInitially, <1>1, <1>2, PTL DEF AutoConfigSpec

---------------------------------------------------------------------------
(* Nothing that was told is forgotten.                                      *)

\* An answer merged with all that was told before is all that was told.
LEMMA AllMerged ==
  ASSUME NEW answers, NEW old, IsKnowledge(old), IsAll(answers, old), NEW fresh, IsAnswer(fresh)
  PROVE  /\ IsAll(answers \cup {fresh}, Merge(old, fresh))
         /\ ~old.known => IsAll(answers \cup {fresh}, fresh)
<1> DEFINE more == answers \cup {fresh}
           merged == Merge(old, fresh)
<1>1. /\ IsAnswer(merged)
      /\ merged.auth = IF fresh.auth.kind = "unknown" THEN old.auth ELSE fresh.auth
      /\ merged.protected = fresh.protected \cup old.protected
      /\ merged.facts = fresh.facts \cup old.facts
      /\ merged.noise = fresh.noise \cup old.noise
  BY Merged
<1>2. Auths(more) = Auths(answers) \cup (IF fresh.auth.kind = "unknown" THEN {} ELSE {fresh.auth})
  BY DEF Auths
<1>3. /\ UNION {a.facts : a \in more} = (UNION {a.facts : a \in answers}) \cup fresh.facts
      /\ UNION {a.noise : a \in more} = (UNION {a.noise : a \in answers}) \cup fresh.noise
      /\ UNION {a.protected : a \in more} = (UNION {a.protected : a \in answers}) \cup fresh.protected
  OBVIOUS
<1> HIDE DEF more, merged
<1>4. IsAll(more, merged)
  <2>1. merged.known
    BY <1>1 DEF IsAnswer
  <2>2. /\ merged.facts = UNION {a.facts : a \in more}
        /\ merged.noise = UNION {a.noise : a \in more}
        /\ merged.protected = UNION {a.protected : a \in more}
    BY <1>1, <1>3 DEF IsAll
  <2>3. IF Auths(more) = {} THEN merged.auth.kind = "unknown" ELSE merged.auth \in Auths(more)
    BY <1>1, <1>2 DEF IsAll
  <2> QED
    BY <2>1, <2>2, <2>3 DEF IsAll
<1>5. ASSUME ~old.known PROVE IsAll(more, fresh)
  <2>1. answers = {}
    BY <1>5 DEF IsAll
  <2>2. Auths(answers) = {}
    BY <2>1 DEF Auths
  <2>3. fresh.known
    BY DEF IsAnswer
  <2>4. IF Auths(more) = {} THEN fresh.auth.kind = "unknown" ELSE fresh.auth \in Auths(more)
    BY <1>2, <2>2
  <2>5. /\ fresh.facts = UNION {a.facts : a \in more}
        /\ fresh.noise = UNION {a.noise : a \in more}
        /\ fresh.protected = UNION {a.protected : a \in more}
    BY <1>3, <2>1
  <2> QED
    BY <2>3, <2>4, <2>5 DEF IsAll
<1> QED
  BY <1>4, <1>5 DEF more, merged

\* A step that does nothing to a key, and nothing to the builds that analyse it.
LEMMA KeyUntouched ==
  ASSUME NEW k \in Keys, KeyKept(k),
         told'[k] = told[k], stored'[k] = stored[k], analyses'[k] = analyses[k],
         \A i \in Builds : buildAt'[i] \in {"analyse", "save"} /\ Key(i)' = k =>
            /\ buildAt'[i] = buildAt[i] /\ Key(i) = k
            /\ existing'[i] = existing[i] /\ knowledge'[i] = knowledge[i],
         \A i \in Builds : buildAt[i] = "save" /\ Key(i) = k => buildAt'[i] = "save" /\ Key(i)' = k
  PROVE  KeyKept(k)'
<1>1. \A i, l \in Builds : i \in Analysing(k)' /\ l \in Analysing(k)' => i = l
  BY DEF KeyKept, Analysing
<1>2. ~Saving(k)' => ~Saving(k)
  BY DEF Saving
<1>3. ~Saving(k)' => IsAll(told'[k], stored'[k])
                       /\ (analyses'[k] > 0 => stored'[k].known /\ ~stored'[k].stale)
  BY <1>2 DEF KeyKept
<1>4. \A i \in Builds : Key(i)' = k =>
        /\ buildAt'[i] = "analyse" => IsAll(told'[k], existing'[i]) /\ analyses'[k] = 0
        /\ buildAt'[i] = "save" => /\ IsAll(told'[k], knowledge'[i]) /\ knowledge'[i].known
                                   /\ analyses'[k] > 0 => ~knowledge'[i].stale
  BY DEF KeyKept
<1> QED
  BY <1>1, <1>3, <1>4 DEF KeyKept

\* At first nothing was told.
LEMMA KeptInitially == AutoConfigInit => KeptInv
<1> SUFFICES ASSUME AutoConfigInit, NEW k \in Keys PROVE AcTypes /\ KeyKept(k)
  BY TypesInitially DEF KeptInv
<1>1. AcTypes
  BY TypesInitially
<1>2. /\ told[k] = {} /\ analyses[k] = 0
      /\ stored[k] = NothingKnown \/ stored[k] = [Silent EXCEPT !.stale = TRUE]
      /\ \A j \in Builds : buildAt[j] = "idle"
  BY DEF AutoConfigInit
<1>3. stored[k].auth.kind = "unknown" /\ stored[k].protected = {} /\ stored[k].facts = {}
      /\ stored[k].noise = {}
  <2>1. CASE stored[k] = NothingKnown
    BY <2>1 DEF NothingKnown, Unknown
  <2>2. CASE stored[k] = [Silent EXCEPT !.stale = TRUE]
    <3>1. stored[k].auth = Unknown /\ stored[k].protected = {} /\ stored[k].facts = {}
          /\ stored[k].noise = {}
      BY <2>2 DEF NothingKnown, Silent
    <3> QED
      BY <3>1 DEF Unknown
  <2> QED
    BY <1>2, <2>1, <2>2
<1>4. IsAll(told[k], stored[k])
  BY <1>2, <1>3 DEF IsAll, Auths
<1> QED
  BY <1>1, <1>2, <1>4 DEF KeyKept, Analysing

\* One key, and one step of a build.
LEMMA KeyKeptByBuild ==
  ASSUME AcTypes, NEW k \in Keys, KeyKept(k), k \notin disturbed', NEW j \in Builds, Build(j)
  PROVE  KeyKept(k)'
<1> USE DEF Go, setup, acCounters, acHistory
<1>1. CASE ReadInputs(j)
  <2>1. buildAt[j] = "idle" /\ buildAt'[j] \in {"load", "failed"}
        /\ UNCHANGED <<told, stored, analyses>>
    BY <1>1 DEF ReadInputs, AcTypes
  <2> QED
    BY <1>1, <2>1, KeyUntouched, BuildChanges
<1>2. CASE buildAt[j] # "idle" /\ Key(j) # k
  <2>1. Key(j) \in Keys /\ Key(j)' = Key(j)
    BY <1>2, BuildChanges DEF AcTypes
  <2>2. told'[k] = told[k] /\ stored'[k] = stored[k] /\ analyses'[k] = analyses[k]
    BY <1>2, <2>1 DEF Build, ReadInputs, Load, LoadFails, Analyse, Save, SaveFails, Configure, Enrich,
                      Write, AcTypes
  <2> QED
    BY <1>2, <2>1, <2>2, KeyUntouched, BuildChanges
<1>3. CASE Load(j) /\ Key(j) = k
  <2>1. /\ UNCHANGED <<told, stored, analyses>> /\ buildAt[j] = "load"
        /\ existing'[j] = stored[k] /\ Key(j)' = k
        /\ buildAt'[j] = IF stored[k].known /\ ~stored[k].stale THEN "configure" ELSE "analyse"
    BY <1>3, BuildChanges DEF Load, Resolve, AcTypes
  <2>2. CASE stored[k].known /\ ~stored[k].stale
    BY <2>1, <2>2, KeyUntouched, BuildChanges
  <2>3. CASE ~(stored[k].known /\ ~stored[k].stale)
    <3>1. \A i \in Builds : ~(buildAt[i] \in {"analyse", "save"} /\ Key(i) = k)
      BY <1>3 DEF Load, Analysing
    <3>2. IsAll(told[k], stored[k]) /\ ~(analyses[k] > 0)
      BY <2>3, <3>1 DEF KeyKept, Saving
    <3>3. analyses[k] = 0
      BY <3>2 DEF AcTypes
    <3>4. \A i \in Builds : i # j => ~(buildAt'[i] \in {"analyse", "save"} /\ Key(i)' = k)
      BY <1>3, <3>1, BuildChanges
    <3> QED
      BY <2>1, <2>3, <3>2, <3>3, <3>4 DEF KeyKept, Analysing
  <2> QED
    BY <2>2, <2>3
<1>4. CASE (LoadFails(j) \/ SaveFails(j)) /\ Key(j) = k
  BY <1>4 DEF LoadFails, SaveFails
<1>5. CASE Analyse(j) /\ Key(j) = k
  <2>1. PICK fresh : /\ fresh = Silent \/ fresh = Unusable \/ \E body \in Bodies : fresh = Answered(body)
                     /\ knowledge' = [knowledge EXCEPT ![j] =
                            IF existing[j].known THEN Merge(existing[j], fresh) ELSE fresh]
                     /\ told' = [told EXCEPT ![Key(j)] = @ \cup {fresh}]
    BY <1>5 DEF Analyse
  <2>2. /\ buildAt[j] = "analyse" /\ buildAt'[j] = "save" /\ Key(j)' = k
        /\ told'[k] = told[k] \cup {fresh} /\ analyses'[k] = analyses[k] + 1
        /\ knowledge'[j] = IF existing[j].known THEN Merge(existing[j], fresh) ELSE fresh
    BY <1>5, <2>1, BuildChanges DEF Analyse, AcTypes
  <2>3. IsAll(told[k], existing[j]) /\ analyses[k] = 0 /\ IsKnowledge(existing[j])
    BY <1>5, <2>2 DEF KeyKept, AcTypes
  <2>4. IsAnswer(fresh)
    BY <2>1, AnswersAreKnowledge
  <2>5. IsAll(told'[k], knowledge'[j]) /\ IsAnswer(knowledge'[j])
    <3>1. /\ IsAll(told[k] \cup {fresh}, Merge(existing[j], fresh))
          /\ ~existing[j].known => IsAll(told[k] \cup {fresh}, fresh)
      BY <2>3, <2>4, AllMerged
    <3>2. IsAnswer(Merge(existing[j], fresh))
      BY <2>3, <2>4, Merged
    <3>3. CASE existing[j].known
      BY <2>2, <3>1, <3>2, <3>3
    <3>4. CASE ~existing[j].known
      BY <2>2, <2>4, <3>1, <3>4
    <3> QED
      BY <3>3, <3>4
  <2>6. \A i \in Builds : i # j => ~(buildAt'[i] \in {"analyse", "save"} /\ Key(i)' = k)
    BY <1>5, <2>2, BuildChanges DEF KeyKept, Analysing
  <2>7. Saving(k)' /\ analyses'[k] = 1
    BY <2>2, <2>3 DEF Saving
  <2> QED
    BY <2>2, <2>5, <2>6, <2>7 DEF KeyKept, Analysing, IsAnswer
<1>6. CASE Save(j) /\ Key(j) = k
  <2>1. /\ UNCHANGED <<told, analyses>> /\ buildAt[j] = "save" /\ buildAt'[j] = "configure"
        /\ stored'[k] = knowledge[j]
    BY <1>6 DEF Save, AcTypes
  <2>2. \A i \in Builds : ~(buildAt'[i] \in {"analyse", "save"} /\ Key(i)' = k)
    BY <1>6, <2>1, BuildChanges DEF KeyKept, Analysing
  <2>3. /\ IsAll(told[k], knowledge[j]) /\ knowledge[j].known
        /\ analyses[k] > 0 => ~knowledge[j].stale
        /\ analyses[k] <= 1
    BY <1>6, <2>1 DEF KeyKept
  <2> QED
    BY <2>1, <2>2, <2>3 DEF KeyKept, Analysing
<1>7. CASE (Configure(j) \/ Enrich(j) \/ Write(j)) /\ Key(j) = k
  <2>1. /\ UNCHANGED <<told, stored, analyses>>
        /\ buildAt[j] \notin {"analyse", "save"} /\ buildAt'[j] \notin {"analyse", "save"}
    BY <1>7 DEF Configure, Enrich, Write, AcTypes
  <2> QED
    BY <2>1, KeyUntouched, BuildChanges
<1>8. ReadInputs(j) \/ buildAt[j] # "idle"
  BY DEF Build, Load, LoadFails, Analyse, Save, SaveFails, Configure, Enrich, Write
<1> QED
  BY <1>1, <1>2, <1>3, <1>4, <1>5, <1>6, <1>7, <1>8 DEF Build

\* The time passes for every key.
LEMMA KeyKeptByAge ==
  ASSUME AcTypes, NEW k \in Keys, KeyKept(k), Age
  PROVE  KeyKept(k)'
<1>1. \A r : IsKnowledge(r) => Aged(r).known = r.known
  BY AgedIsKnowledge
<1>2. ASSUME NEW answers, NEW r, IsKnowledge(r), IsAll(answers, r) PROVE IsAll(answers, Aged(r))
  <2>1. /\ Aged(r).auth = r.auth /\ Aged(r).protected = r.protected
        /\ Aged(r).facts = r.facts /\ Aged(r).noise = r.noise
        /\ Aged(r).known = r.known
    BY <1>2, AgedIsKnowledge
  <2> QED
    BY <1>2, <2>1 DEF IsAll
<1>3. /\ UNCHANGED <<buildAt, change, told, inDatabase>>
      /\ analyses'[k] = 0
      /\ stored'[k] = Aged(stored[k])
      /\ \A i \in Builds :
           /\ existing'[i] = Aged(existing[i])
           /\ knowledge'[i] = Aged(knowledge[i])
  BY DEF Age, setup
<1>4. \A i \in Builds : Key(i)' = Key(i)
  BY <1>3 DEF Key
<1>5. IsKnowledge(stored[k]) /\ \A i \in Builds : IsKnowledge(existing[i]) /\ IsKnowledge(knowledge[i])
  BY DEF AcTypes
<1>6. ~Saving(k)' => IsAll(told'[k], stored'[k])
  BY <1>2, <1>3, <1>4, <1>5 DEF KeyKept, Saving
<1>7. \A i \in Builds : Key(i)' = k =>
        /\ buildAt'[i] = "analyse" => IsAll(told'[k], existing'[i])
        /\ buildAt'[i] = "save" => IsAll(told'[k], knowledge'[i]) /\ knowledge'[i].known
  <2> SUFFICES ASSUME NEW i \in Builds, Key(i)' = k
               PROVE  /\ buildAt'[i] = "analyse" => IsAll(told'[k], existing'[i])
                      /\ buildAt'[i] = "save" => IsAll(told'[k], knowledge'[i]) /\ knowledge'[i].known
    OBVIOUS
  <2>1. Key(i) = k /\ buildAt'[i] = buildAt[i] /\ told' = told
    BY <1>3, <1>4
  <2>2. /\ buildAt[i] = "analyse" => IsAll(told[k], existing[i])
        /\ buildAt[i] = "save" => IsAll(told[k], knowledge[i]) /\ knowledge[i].known
    BY <2>1 DEF KeyKept
  <2>3. buildAt'[i] = "analyse" => IsAll(told'[k], existing'[i])
    BY <1>2, <1>3, <1>5, <2>1, <2>2
  <2>4. buildAt'[i] = "save" => IsAll(told'[k], knowledge'[i])
    BY <1>2, <1>3, <1>5, <2>1, <2>2
  <2>5. buildAt'[i] = "save" => knowledge'[i].known
    BY <1>1, <1>3, <1>5, <2>1, <2>2
  <2> QED
    BY <2>3, <2>4, <2>5
<1>8. \A i, l \in Builds : i \in Analysing(k)' /\ l \in Analysing(k)' => i = l
  BY <1>3, <1>4 DEF KeyKept, Analysing
<1> QED
  BY <1>3, <1>6, <1>7, <1>8 DEF KeyKept

\* What is kept of every key that was not disturbed.
LEMMA KeptIsInvariant == AutoConfigSpec => []KeptInv
<1>1. KeptInv /\ [AutoConfigNext]_acVars => KeptInv'
  <2> SUFFICES ASSUME KeptInv, [AutoConfigNext]_acVars,
                      NEW k \in Keys, k \notin disturbed'
               PROVE  AcTypes' /\ KeyKept(k)'
    BY TypesKept DEF KeptInv
  <2>1. AcTypes /\ AcTypes'
    BY TypesKept DEF KeptInv
  <2>2. k \notin disturbed
    BY DEF AutoConfigNext, Build, ReadInputs, Load, LoadFails, Analyse, Save, SaveFails, Configure,
           Enrich, Write, Age, acVars, acHistory
  <2>3. KeyKept(k)
    BY <2>2 DEF KeptInv
  <2>4. CASE UNCHANGED acVars
    <3>1. /\ UNCHANGED <<told, stored, analyses, buildAt, existing, knowledge>>
          /\ \A i \in Builds : Key(i)' = Key(i)
      BY <2>4 DEF acVars, build, setup, acHistory, Key
    <3> QED
      BY <2>1, <2>3, <3>1, KeyUntouched
  <2>5. CASE Age
    BY <2>1, <2>3, <2>5, KeyKeptByAge
  <2>6. CASE \E j \in Builds : Build(j)
    BY <2>1, <2>3, <2>6, KeyKeptByBuild
  <2> QED
    BY <2>4, <2>5, <2>6 DEF AutoConfigNext
<1> QED
  BY KeptInitially, <1>1, PTL DEF AutoConfigSpec

\* What was told of an application stays known, unless the memory failed or two
\* analyses overlapped (KnowledgeKept).
THEOREM KnowledgeAlwaysKept == AutoConfigSpec => []KnowledgeKept
<1>1. KeptInv => KnowledgeKept
  BY DEF KeptInv, KeyKept, IsAll, KnowledgeKept, ToldAuths, Auths
<1> QED
  BY KeptIsInvariant, <1>1, PTL

\* The project of a branch is analysed once in thirty days, unless the memory
\* failed or two analyses overlapped (AnalysedOnce).
THEOREM ProjectsAnalysedOnce == AutoConfigSpec => []AnalysedOnce
<1>1. KeptInv => AnalysedOnce
  BY DEF KeptInv, KeyKept, AnalysedOnce
<1> QED
  BY KeptIsInvariant, <1>1, PTL

---------------------------------------------------------------------------
(* The reading of a diff.                                                   *)

DiffLines == [path : Nat, side : {"added", "removed", "context"},
              looks : {"line", "header", "null"}, number : Nat, opens : BOOLEAN]
LinesRead == [side : {"added", "removed", "context"}, number : Nat]

OpenFiles == [path : Nat \ {0}, oldIsNull : BOOLEAN, newIsNull : BOOLEAN,
              isBinary : BOOLEAN, lines : Seq(LinesRead)]

FilesDone == [path : Nat \ {0}, status : {"added", "removed", "modified"},
              lines : Seq(LinesRead)]

DiffShapes ==
  /\ writing \in {"nothing", "header", "binary", "names", "hunk", "lines", "all"}
  /\ truth \in Seq(DiffLines)
  /\ oldAt \in Nat /\ newAt \in Nat /\ oldLine \in Nat /\ newLine \in Nat
  /\ current = NoFile \/ current \in OpenFiles
  /\ changedFiles \in Seq(FilesDone)

\* git writes the files in order, nothing of a binary one, and the lines of a
\* file only after its names.
WrittenInOrder ==
  /\ ~IsOpen => writing \in {"nothing", "all"}
  /\ ~IsOpen /\ writing = "nothing" => changedFiles = <<>> /\ truth = <<>>
  /\ IsOpen =>
       /\ writing \notin {"nothing", "all"}
       /\ \A i \in DOMAIN truth : truth[i].path <= current.path
       /\ \A i \in DOMAIN changedFiles : changedFiles[i].path < current.path
       /\ current.isBinary => writing = "binary"
       /\ writing \in {"header", "binary", "names"} =>
            \A i \in DOMAIN truth : truth[i].path # current.path

\* No line of the file since the last hunk began was taken for a header.
Clean ==
  \A k \in DOMAIN truth : truth[k].path = current.path /\ truth[k].looks # "line" =>
      \E h \in k + 1 .. Len(truth) : truth[h].opens

\* The counters are those of git.
InStep == oldLine = oldAt /\ newLine = newAt

CountersAgree ==
  /\ writing = "hunk" => InStep
  /\ writing = "lines" /\ Clean => InStep

DiffInv == DiffShapes /\ WrittenInOrder /\ CountersAgree /\ LinesAreAsWritten

---------------------------------------------------------------------------
\* What was written before does not change with the next line.
LEMMA UndisturbedKept ==
  ASSUME truth \in Seq(DiffLines), NEW line \in DiffLines, truth' = Append(truth, line),
         NEW i \in DOMAIN truth
  PROVE  Undisturbed(i)' <=> Undisturbed(i)
<1>1. i \in 1 .. Len(truth) /\ Len(truth) \in Nat
  OBVIOUS
<1>2. \A k \in 1 .. i : truth'[k] = truth[k]
  BY <1>1
<1> QED BY <1>1, <1>2 DEF Undisturbed

LEMMA ReadsKept ==
  ASSUME truth \in Seq(DiffLines), NEW line \in DiffLines, truth' = Append(truth, line),
         NEW path, NEW lines \in Seq(LinesRead), path # line.path \/ line.looks # "line",
         NEW g \in [DOMAIN lines -> DOMAIN truth], Reads(g, path, lines)
  PROVE  g \in [DOMAIN lines -> DOMAIN truth'] /\ Reads(g, path, lines)'
<1>1. /\ Len(truth) \in Nat /\ DOMAIN truth = 1 .. Len(truth) /\ DOMAIN truth' = 1 .. Len(truth) + 1
      /\ truth'[Len(truth) + 1] = line
      /\ \A i \in DOMAIN truth : truth'[i] = truth[i]
  OBVIOUS
<1>2. DOMAIN truth \subseteq DOMAIN truth'
  BY <1>1
<1>3. \A n \in DOMAIN lines : g[n] \in DOMAIN truth
  OBVIOUS
<1>4. g \in [DOMAIN lines -> DOMAIN truth']
  BY <1>2
<1>5. {i \in DOMAIN truth' : truth'[i].path = path /\ truth'[i].looks = "line"}
        = {i \in DOMAIN truth : truth[i].path = path /\ truth[i].looks = "line"}
  BY <1>1
<1>6. \A n \in DOMAIN lines :
        /\ lines[n].side = truth'[g[n]].side
        /\ Undisturbed(g[n])' => lines[n].number = truth'[g[n]].number
  BY <1>1, <1>3, UndisturbedKept DEF Reads
<1> QED BY <1>4, <1>5, <1>6 DEF Reads

LEMMA ReadsExtended ==
  ASSUME truth \in Seq(DiffLines), NEW line \in DiffLines, truth' = Append(truth, line),
         NEW lines \in Seq(LinesRead), line.looks = "line",
         NEW r \in LinesRead, r.side = line.side,
         NEW last, last = Len(truth) + 1, Undisturbed(last)' => r.number = line.number,
         NEW g \in [DOMAIN lines -> DOMAIN truth], Reads(g, line.path, lines)
  PROVE  \E h \in [DOMAIN Append(lines, r) -> DOMAIN truth'] :
            Reads(h, line.path, Append(lines, r))'
<1>1. PICK longer : longer = Append(lines, r)
  OBVIOUS
<1>2. PICK h : h = [n \in DOMAIN longer |-> IF n \in DOMAIN lines THEN g[n] ELSE last]
  OBVIOUS
<1>3. /\ Len(truth) \in Nat /\ DOMAIN truth = 1 .. Len(truth) /\ DOMAIN truth' = 1 .. last
      /\ truth'[last] = line /\ last \in DOMAIN truth' /\ last \notin DOMAIN truth
      /\ \A i \in DOMAIN truth : truth'[i] = truth[i] /\ i < last
  OBVIOUS
<1>4. /\ Len(lines) \in Nat /\ DOMAIN lines = 1 .. Len(lines)
      /\ DOMAIN longer = 1 .. Len(lines) + 1
      /\ longer[Len(lines) + 1] = r /\ Len(lines) + 1 \notin DOMAIN lines
      /\ \A n \in DOMAIN lines : longer[n] = lines[n]
  BY <1>1
<1>5. \A n \in DOMAIN lines : g[n] \in DOMAIN truth
  OBVIOUS
<1>6. /\ \A n \in DOMAIN lines : n \in DOMAIN longer /\ h[n] = g[n] /\ n < Len(lines) + 1
      /\ Len(lines) + 1 \in DOMAIN longer /\ h[Len(lines) + 1] = last
      /\ \A n \in DOMAIN longer : n \in DOMAIN lines \/ n = Len(lines) + 1
  BY <1>4, <1>2
<1>7. DOMAIN truth' = DOMAIN truth \cup {last}
  BY <1>3
<1>8. h \in [DOMAIN longer -> DOMAIN truth']
  BY <1>5, <1>7, <1>2
<1>9. \A m, n \in DOMAIN longer : m < n => h[m] < h[n]
  <2> SUFFICES ASSUME NEW m \in DOMAIN longer, NEW n \in DOMAIN longer, m < n
               PROVE  h[m] < h[n]
    OBVIOUS
  <2>1. m \in DOMAIN lines
    BY <1>4, <1>6
  <2>2. CASE n \in DOMAIN lines
    BY <2>1, <2>2, <1>6 DEF Reads
  <2>3. CASE n = Len(lines) + 1
    BY <2>1, <2>3, <1>3, <1>5, <1>6
  <2> QED BY <2>2, <2>3, <1>6
<1>10. {h[n] : n \in DOMAIN longer} = {g[n] : n \in DOMAIN lines} \cup {last}
  BY <1>6
<1>11. {i \in DOMAIN truth' : truth'[i].path = line.path /\ truth'[i].looks = "line"}
        = {i \in DOMAIN truth : truth[i].path = line.path /\ truth[i].looks = "line"} \cup {last}
  BY <1>3, <1>7
<1>12. \A n \in DOMAIN longer :
        /\ longer[n].side = truth'[h[n]].side
        /\ Undisturbed(h[n])' => longer[n].number = truth'[h[n]].number
  <2> SUFFICES ASSUME NEW n \in DOMAIN longer
               PROVE  /\ longer[n].side = truth'[h[n]].side
                      /\ Undisturbed(h[n])' => longer[n].number = truth'[h[n]].number
    OBVIOUS
  <2>1. CASE n \in DOMAIN lines
    <3>1. Undisturbed(g[n])' <=> Undisturbed(g[n])
      BY <2>1, <1>5, UndisturbedKept
    <3> QED BY <3>1, <2>1, <1>3, <1>4, <1>5, <1>6 DEF Reads
  <2>2. CASE n = Len(lines) + 1
    BY <2>2, <1>3, <1>4, <1>6
  <2> QED BY <2>1, <2>2, <1>6
<1>13. Reads(h, line.path, longer)'
  <2>1. {h[n] : n \in DOMAIN longer}
          = {i \in DOMAIN truth' : truth'[i].path = line.path /\ truth'[i].looks = "line"}
    BY <1>10, <1>11 DEF Reads
  <2> QED BY <2>1, <1>9, <1>12 DEF Reads
<1> QED BY <1>8, <1>13, <1>1
---------------------------------------------------------------------------
LEMMA PathsOfFiles ==
  ASSUME NEW files \in Seq(FilesDone)
  PROVE  \A i \in DOMAIN files : files[i].path \in Nat
<1>1. \A i \in DOMAIN files : files[i] \in FilesDone
  OBVIOUS
<1> QED BY <1>1 DEF FilesDone

LEMMA PathsAreNumbers ==
  ASSUME DiffShapes
  PROVE  /\ \A i \in DOMAIN truth : truth[i].path \in Nat
         /\ \A i \in DOMAIN changedFiles : changedFiles[i].path \in Nat
         /\ IsOpen => current.path \in Nat
<1>1. \A i \in DOMAIN truth : truth[i] \in DiffLines
  BY DEF DiffShapes
<1> QED BY <1>1, PathsOfFiles DEF DiffShapes, DiffLines, OpenFiles, IsOpen

\* A file of which the lines are told stays so while nothing is written.
LEMMA ReadsUnchanged ==
  ASSUME UNCHANGED truth, NEW g, NEW path, NEW lines
  PROVE  Reads(g, path, lines)' <=> Reads(g, path, lines)
<1>1. \A i : Undisturbed(i)' <=> Undisturbed(i)
  BY DEF Undisturbed
<1> QED BY <1>1 DEF Reads

\* Finishing a file leaves nothing out.
FilesTold ==
  /\ \A f \in Range(changedFiles) :
        \E g \in [DOMAIN f.lines -> DOMAIN truth] : Reads(g, f.path, f.lines)
  /\ \A i \in DOMAIN truth : truth[i].looks = "line" =>
        \E f \in Range(changedFiles) : f.path = truth[i].path

LEMMA FlushedKeeps ==
  ASSUME DiffInv, changedFiles' = Flushed, UNCHANGED truth, writing # "all" \/ ~IsOpen
  PROVE  /\ changedFiles' \in Seq(FilesDone)
         /\ IsOpen => \A i \in DOMAIN changedFiles' : changedFiles'[i].path <= current.path
         /\ FilesTold'
<1> USE DEF Range
<1>1. CASE ~IsOpen
  <2>1. changedFiles' = changedFiles /\ FilesRead = Range(changedFiles)
    BY <1>1 DEF Flushed, FilesRead
  <2>2. FilesTold'
    BY <2>1, ReadsUnchanged DEF DiffInv, LinesAreAsWritten, FilesTold
  <2> QED BY <1>1, <2>1, <2>2 DEF DiffInv, DiffShapes
<1>2. CASE IsOpen /\ current.isBinary
  <2>1. changedFiles' = changedFiles
    BY <1>2 DEF Flushed
  <2>2. \A i \in DOMAIN truth : truth[i].path # current.path
    BY <1>2 DEF DiffInv, WrittenInOrder
  <2>3. \A f \in FilesRead : f \in Range(changedFiles) \/ f = current
    BY DEF FilesRead
  <2>4. \A f \in Range(changedFiles) : f \in FilesRead
    BY DEF FilesRead
  <2>5. \A i \in DOMAIN truth : truth[i].looks = "line" =>
          \E f \in Range(changedFiles) : f.path = truth[i].path
    BY <2>2, <2>3 DEF DiffInv, LinesAreAsWritten
  <2>6. FilesTold'
    BY <2>1, <2>4, <2>5, ReadsUnchanged DEF DiffInv, LinesAreAsWritten, FilesTold
  <2>7. current \in OpenFiles
    BY <1>2 DEF DiffInv, DiffShapes, IsOpen
  <2>8. \A i \in DOMAIN changedFiles : changedFiles[i].path <= current.path
    BY <1>2, PathsAreNumbers DEF DiffInv, WrittenInOrder
  <2> QED BY <2>1, <2>6, <2>8 DEF DiffInv, DiffShapes
<1>3. CASE IsOpen /\ ~current.isBinary
  <2>1. current \in OpenFiles
    BY <1>3 DEF DiffInv, DiffShapes, IsOpen
  <2>2. PICK done : done = [path |-> current.path, status |-> Status(current),
                            lines |-> current.lines]
    OBVIOUS
  <2>3. done \in FilesDone /\ done.path = current.path /\ done.lines = current.lines
    BY <2>1, <2>2 DEF OpenFiles, FilesDone, Status
  <2>4. changedFiles \in Seq(FilesDone)
    BY DEF DiffInv, DiffShapes
  <2>5. changedFiles' = Append(changedFiles, done)
    BY <1>3, <2>2 DEF Flushed
  <2>6. changedFiles' \in Seq(FilesDone)
    BY <2>3, <2>4, <2>5
  <2>7. \A i \in DOMAIN changedFiles' :
          \/ i \in DOMAIN changedFiles /\ changedFiles'[i] = changedFiles[i]
          \/ changedFiles'[i] = done
    BY <2>4, <2>5
  <2>8. \A i \in DOMAIN changedFiles' : changedFiles'[i].path <= current.path
    BY <1>3, <2>3, <2>7, PathsAreNumbers DEF DiffInv, WrittenInOrder
  <2>9. Range(changedFiles') = Range(changedFiles) \cup {done}
    BY <2>4, <2>5
  <2>10. FilesRead = Range(changedFiles) \cup {current}
    BY <1>3 DEF FilesRead
  <2>11. FilesTold'
    BY <2>3, <2>9, <2>10, ReadsUnchanged DEF DiffInv, LinesAreAsWritten, FilesTold
  <2> QED BY <2>6, <2>8, <2>11
<1> QED BY <1>1, <1>2, <1>3

---------------------------------------------------------------------------
(* The steps.                                                               *)

LEMMA FileHeaderKeeps ==
  ASSUME PathsAssumption, DiffInv, NEW p \in DOMAIN Paths, FileHeader(p)
  PROVE  DiffInv'
<1>1. p \in Nat \ {0}
  BY DEF PathsAssumption
<1>2. current' = [path |-> p, oldIsNull |-> FALSE, newIsNull |-> FALSE,
                  isBinary |-> FALSE, lines |-> <<>>]
      /\ UNCHANGED truth /\ writing' = "header"
  BY DEF FileHeader
<1>3. current' \in OpenFiles /\ IsOpen' /\ current'.lines = <<>> /\ current'.path = p
  BY <1>1, <1>2 DEF OpenFiles, IsOpen, NoFile
<1>4. /\ changedFiles' \in Seq(FilesDone)
      /\ IsOpen => \A i \in DOMAIN changedFiles' : changedFiles'[i].path <= current.path
      /\ FilesTold'
  BY FlushedKeeps DEF FileHeader
<1>5. DiffShapes'
  BY <1>2, <1>3, <1>4 DEF FileHeader, DiffInv, DiffShapes
<1>6. /\ \A i \in DOMAIN truth : truth[i].path < p
      /\ \A i \in DOMAIN changedFiles' : changedFiles'[i].path < p
  <2>1. CASE IsOpen
    <3>1. p > current.path /\ current.path \in Nat
      BY <2>1 DEF FileHeader, DiffInv, DiffShapes, OpenFiles, IsOpen
    <3>2. \A i \in DOMAIN truth : truth[i].path \in Nat /\ truth[i].path <= current.path
      BY <2>1, PathsAreNumbers DEF DiffInv, WrittenInOrder
    <3>3. \A i \in DOMAIN changedFiles' : changedFiles'[i].path \in Nat /\ changedFiles'[i].path <= current.path
      BY <2>1, <1>4, PathsOfFiles
    <3> QED BY <3>1, <3>2, <3>3, <1>1
  <2>2. CASE ~IsOpen
    <3>1. writing = "nothing"
      BY <2>2 DEF FileHeader, DiffInv, WrittenInOrder
    <3>2. truth = <<>> /\ changedFiles' = <<>>
      BY <2>2, <3>1 DEF DiffInv, WrittenInOrder, FileHeader, Flushed
    <3> QED BY <3>2
  <2> QED BY <2>1, <2>2
<1>7. \A i \in DOMAIN truth : truth[i].path # p /\ truth[i].path <= p
  BY <1>1, <1>6, PathsAreNumbers DEF DiffInv
<1>8. WrittenInOrder'
  BY <1>2, <1>3, <1>6, <1>7 DEF WrittenInOrder
<1>9. CountersAgree'
  BY <1>2 DEF CountersAgree
<1>10. \E g \in [DOMAIN <<>> -> DOMAIN truth'] : Reads(g, p, <<>>)'
  <2>1. PICK g : g \in [DOMAIN <<>> -> DOMAIN truth']
    <3>1. [n \in DOMAIN <<>> |-> 1] \in [DOMAIN <<>> -> DOMAIN truth']
      OBVIOUS
    <3> QED BY <3>1
  <2>2. {i \in DOMAIN truth' : truth'[i].path = p /\ truth'[i].looks = "line"} = {}
    BY <1>2, <1>7
  <2>3. {g[n] : n \in DOMAIN <<>>} = {} /\ \A n \in DOMAIN <<>> : FALSE
    OBVIOUS
  <2>4. Reads(g, p, <<>>)'
    BY <2>2, <2>3 DEF Reads
  <2> QED BY <2>1, <2>4
<1>11. FilesRead' = Range(changedFiles') \cup {current'}
  BY <1>3 DEF FilesRead
<1>12. LinesAreAsWritten'
  BY <1>3, <1>4, <1>10, <1>11 DEF FilesTold, LinesAreAsWritten
<1> QED BY <1>5, <1>8, <1>9, <1>12 DEF DiffInv

LEMMA EndOfDiffKeeps ==
  ASSUME DiffInv, EndOfDiff
  PROVE  DiffInv'
<1>1. current' = NoFile /\ UNCHANGED truth /\ writing' = "all" /\ ~IsOpen'
  BY DEF EndOfDiff, IsOpen
<1>2. changedFiles' \in Seq(FilesDone) /\ FilesTold'
  BY FlushedKeeps DEF EndOfDiff
<1>3. DiffShapes'
  BY <1>1, <1>2 DEF EndOfDiff, DiffInv, DiffShapes
<1>4. WrittenInOrder' /\ CountersAgree'
  BY <1>1 DEF WrittenInOrder, CountersAgree
<1>5. FilesRead' = Range(changedFiles')
  BY <1>1 DEF FilesRead
<1>6. LinesAreAsWritten'
  BY <1>2, <1>5 DEF FilesTold, LinesAreAsWritten
<1> QED BY <1>3, <1>4, <1>6 DEF DiffInv

\* What is told of the lines does not depend on the flags of the file.
LEMMA FlagsKeepLines ==
  ASSUME DiffInv, IsOpen, IsOpen', UNCHANGED <<truth, changedFiles>>,
         current'.path = current.path, current'.lines = current.lines
  PROVE  LinesAreAsWritten'
<1>1. FilesRead = Range(changedFiles) \cup {current}
      /\ FilesRead' = Range(changedFiles) \cup {current'}
  BY DEF FilesRead
<1> QED BY <1>1, ReadsUnchanged DEF DiffInv, LinesAreAsWritten

LEMMA BinaryFileKeeps ==
  ASSUME DiffInv, BinaryFile
  PROVE  DiffInv'
<1>1. IsOpen /\ current \in OpenFiles
  BY DEF BinaryFile, DiffInv, DiffShapes, WrittenInOrder, IsOpen
<1>2. /\ current' \in OpenFiles /\ IsOpen'
      /\ current'.path = current.path /\ current'.lines = current.lines
  BY <1>1 DEF BinaryFile, OpenFiles, IsOpen, NoFile
<1>3. DiffShapes'
  BY <1>2 DEF BinaryFile, DiffInv, DiffShapes
<1>4. WrittenInOrder' /\ CountersAgree'
  BY <1>1, <1>2 DEF BinaryFile, DiffInv, WrittenInOrder, CountersAgree
<1>5. LinesAreAsWritten'
  BY <1>1, <1>2, FlagsKeepLines DEF BinaryFile
<1> QED BY <1>3, <1>4, <1>5 DEF DiffInv

LEMMA FileNamesKeeps ==
  ASSUME DiffInv, NEW null, FileNames(null)
  PROVE  DiffInv'
<1>1. IsOpen /\ current \in OpenFiles /\ ~current.isBinary
  BY DEF FileNames, DiffInv, DiffShapes, WrittenInOrder, IsOpen
<1>2. /\ current' \in OpenFiles /\ IsOpen' /\ ~current'.isBinary
      /\ current'.path = current.path /\ current'.lines = current.lines
  BY <1>1 DEF FileNames, OpenFiles, IsOpen, NoFile
<1>3. DiffShapes'
  BY <1>2 DEF FileNames, DiffInv, DiffShapes
<1>4. WrittenInOrder' /\ CountersAgree'
  BY <1>1, <1>2 DEF FileNames, DiffInv, WrittenInOrder, CountersAgree
<1>5. LinesAreAsWritten'
  BY <1>1, <1>2, FlagsKeepLines DEF FileNames
<1> QED BY <1>3, <1>4, <1>5 DEF DiffInv

LEMMA HunkKeeps ==
  ASSUME DiffInv, NEW skipped \in {1, 2}, Hunk(skipped)
  PROVE  DiffInv'
<1>1. IsOpen /\ ~current.isBinary /\ IsOpen'
  BY DEF Hunk, DiffInv, WrittenInOrder, IsOpen
<1>2. /\ oldAt' \in Nat /\ newAt' \in Nat /\ oldLine' = oldAt' /\ newLine' = newAt'
  BY DEF Hunk, DiffInv, DiffShapes
<1>3. DiffShapes'
  BY <1>2 DEF Hunk, DiffInv, DiffShapes
<1>4. WrittenInOrder'
  BY <1>1 DEF Hunk, DiffInv, WrittenInOrder
<1>5. CountersAgree'
  BY <1>2 DEF Hunk, CountersAgree, InStep
<1>6. LinesAreAsWritten'
  BY <1>1, FlagsKeepLines DEF Hunk
<1> QED BY <1>3, <1>4, <1>5, <1>6 DEF DiffInv

LEMMA DiffLineKeeps ==
  ASSUME DiffInv, NEW side \in {"added", "removed", "context"},
         NEW looks \in {"line", "header", "null"}, DiffLine(side, looks)
  PROVE  DiffInv'
<1>1. /\ IsOpen /\ current \in OpenFiles /\ ~current.isBinary
      /\ writing \in {"hunk", "lines"} /\ writing' = "lines" /\ UNCHANGED changedFiles
  BY DEF DiffLine, DiffInv, DiffShapes, WrittenInOrder, IsOpen
<1>2. /\ truth \in Seq(DiffLines) /\ changedFiles \in Seq(FilesDone)
      /\ oldAt \in Nat /\ newAt \in Nat /\ oldLine \in Nat /\ newLine \in Nat
  BY DEF DiffInv, DiffShapes
<1>3. PICK line : line = [path |-> current.path, side |-> side, looks |-> looks,
                          number |-> IF side = "removed" THEN oldAt ELSE newAt,
                          opens |-> writing = "hunk"]
  OBVIOUS
<1>4. /\ line \in DiffLines /\ line.path = current.path /\ line.side = side
      /\ line.looks = looks /\ line.number = (IF side = "removed" THEN oldAt ELSE newAt)
      /\ line.opens <=> writing = "hunk"
  BY <1>1, <1>2, <1>3 DEF OpenFiles, DiffLines
<1>5. truth' = Append(truth, line)
  BY <1>3 DEF DiffLine
<1>6. PICK last : last = Len(truth) + 1
  OBVIOUS
<1>7. /\ Len(truth) \in Nat /\ DOMAIN truth = 1 .. Len(truth)
      /\ DOMAIN truth' = 1 .. last /\ Len(truth') = last
      /\ truth'[last] = line /\ last \in DOMAIN truth' /\ last \notin DOMAIN truth
      /\ \A i \in DOMAIN truth : truth'[i] = truth[i] /\ i \in DOMAIN truth' /\ i < last
      /\ \A i \in DOMAIN truth' : i \in DOMAIN truth \/ i = last
  BY <1>2, <1>5, <1>6
<1>8. truth' \in Seq(DiffLines)
  BY <1>2, <1>4, <1>5
<1>9. PICK read : read = [side |-> side, number |-> LineNumber(side)]
  OBVIOUS
<1>10. read \in LinesRead /\ read.side = side /\ read.number = LineNumber(side)
  BY <1>2, <1>9 DEF LinesRead, LineNumber
<1>11. /\ current' \in OpenFiles /\ IsOpen' /\ ~current'.isBinary
       /\ current'.path = current.path
       /\ looks = "line" => current'.lines = Append(current.lines, read)
       /\ looks # "line" => current'.lines = current.lines
  <2>1. current.lines \in Seq(LinesRead)
    BY <1>1 DEF OpenFiles
  <2>2. CASE looks = "line"
    <3>1. current' = [current EXCEPT !.lines = Append(@, read)]
      BY <2>2, <1>9 DEF DiffLine, Read
    <3>2. Append(current.lines, read) \in Seq(LinesRead)
      BY <2>1, <1>10
    <3> QED BY <2>2, <3>1, <3>2, <1>1 DEF OpenFiles, IsOpen, NoFile
  <2>3. CASE looks # "line"
    BY <2>3, <1>1 DEF DiffLine, OpenFiles, IsOpen, NoFile
  <2> QED BY <2>2, <2>3
<1>12. oldAt' = oldAt + (IF side # "added" THEN 1 ELSE 0)
       /\ newAt' = newAt + (IF side # "removed" THEN 1 ELSE 0)
  BY DEF DiffLine
<1>13. /\ looks = "line" => /\ oldLine' = oldLine + (IF side # "added" THEN 1 ELSE 0)
                             /\ newLine' = newLine + (IF side # "removed" THEN 1 ELSE 0)
       /\ looks # "line" => oldLine' = oldLine /\ newLine' = newLine
  BY DEF DiffLine, Read
<1>14. oldAt' \in Nat /\ newAt' \in Nat /\ oldLine' \in Nat /\ newLine' \in Nat
  BY <1>2, <1>12, <1>13
<1>15. DiffShapes'
  BY <1>1, <1>2, <1>8, <1>11, <1>14 DEF DiffShapes
<1>16. WrittenInOrder'
  <2>1. \A i \in DOMAIN truth' : truth'[i].path <= current.path
    <3>1. current.path <= current.path
      BY <1>1, PathsAreNumbers DEF DiffInv
    <3> QED BY <3>1, <1>1, <1>4, <1>7 DEF DiffInv, WrittenInOrder
  <2>2. \A i \in DOMAIN changedFiles : changedFiles[i].path < current.path
    BY <1>1 DEF DiffInv, WrittenInOrder
  <2> QED BY <2>1, <2>2, <1>1, <1>11 DEF WrittenInOrder
<1>17. writing = "lines" /\ (\A k \in DOMAIN truth :
            truth[k].path = current.path /\ truth[k].looks # "line" =>
              \E h \in k + 1 .. last : truth'[h].opens)
         => InStep
  <2> SUFFICES ASSUME writing = "lines",
                      \A k \in DOMAIN truth :
                        truth[k].path = current.path /\ truth[k].looks # "line" =>
                          \E h \in k + 1 .. last : truth'[h].opens
               PROVE  InStep
    OBVIOUS
  <2>1. ~truth'[last].opens
    BY <1>4, <1>7
  <2>2. Clean
    <3> SUFFICES ASSUME NEW k \in DOMAIN truth, truth[k].path = current.path, truth[k].looks # "line"
                 PROVE  \E h \in k + 1 .. Len(truth) : truth[h].opens
      BY DEF Clean
    <3>1. PICK h \in k + 1 .. last : truth'[h].opens
      OBVIOUS
    <3>2. h # last /\ k \in Nat
      BY <2>1, <3>1, <1>7
    <3>3. h \in k + 1 .. Len(truth) /\ h \in DOMAIN truth
      BY <3>2, <1>6, <1>7
    <3> QED BY <3>1, <3>3, <1>7
  <2> QED BY <2>2 DEF DiffInv, CountersAgree
<1>18. CountersAgree'
  <2> SUFFICES ASSUME Clean'
               PROVE  InStep'
    BY <1>1 DEF CountersAgree
  <2>1. looks = "line"
    <3> SUFFICES ASSUME looks # "line" PROVE FALSE
      OBVIOUS
    <3>1. PICK h \in last + 1 .. last : truth'[h].opens
      BY <1>4, <1>7, <1>11 DEF Clean
    <3> QED BY <1>6, <1>7
  <2>2. \A k \in DOMAIN truth : truth[k].path = current.path /\ truth[k].looks # "line" =>
              \E h \in k + 1 .. last : truth'[h].opens
    BY <1>7, <1>11 DEF Clean
  <2>3. InStep
    BY <2>2, <1>1, <1>17 DEF DiffInv, CountersAgree
  <2> QED BY <2>1, <2>3, <1>12, <1>13 DEF InStep
<1>19. Undisturbed(last)' => LineNumber(side) = line.number
  <2> SUFFICES ASSUME Undisturbed(last)'
               PROVE  InStep
    BY <1>4 DEF InStep, LineNumber
  <2>1. CASE writing = "hunk"
    BY <2>1 DEF DiffInv, CountersAgree
  <2>2. CASE writing = "lines"
    <3>1. \A k \in DOMAIN truth : k \in 1 .. last
      BY <1>6, <1>7
    <3>2. \A k \in DOMAIN truth : truth[k].path = current.path /\ truth[k].looks # "line" =>
            \E h \in k + 1 .. last : truth'[h].opens
      BY <3>1, <1>4, <1>7 DEF Undisturbed
    <3> QED BY <2>2, <3>2, <1>17
  <2> QED BY <2>1, <2>2, <1>1
<1>20. FilesRead = Range(changedFiles) \cup {current}
       /\ FilesRead' = Range(changedFiles) \cup {current'}
  BY <1>1, <1>11 DEF FilesRead
<1>21. \A i \in DOMAIN truth' : truth'[i].looks = "line" => \E f \in FilesRead' : f.path = truth'[i].path
  BY <1>4, <1>7, <1>11, <1>20 DEF DiffInv, LinesAreAsWritten
<1>22. \A f \in Range(changedFiles) :
         \E g \in [DOMAIN f.lines -> DOMAIN truth'] : Reads(g, f.path, f.lines)'
  <2> TAKE f \in Range(changedFiles)
  <2>1. f.lines \in Seq(LinesRead) /\ f.path # current.path
    <3>1. PICK i \in DOMAIN changedFiles : f = changedFiles[i]
      BY DEF Range
    <3>2. f.path < current.path /\ f.path \in Nat /\ current.path \in Nat
      BY <3>1, <1>1, PathsAreNumbers DEF DiffInv, WrittenInOrder
    <3>3. f \in FilesDone
      BY <3>1, <1>2
    <3> QED BY <3>2, <3>3 DEF FilesDone
  <2>2. PICK g \in [DOMAIN f.lines -> DOMAIN truth] : Reads(g, f.path, f.lines)
    BY <1>20 DEF DiffInv, LinesAreAsWritten
  <2> QED BY <2>1, <2>2, <1>2, <1>4, <1>5, ReadsKept
<1>23. PICK after : after = current'
  OBVIOUS
<1>24. \E g \in [DOMAIN after.lines -> DOMAIN truth'] : Reads(g, after.path, after.lines)'
  <2>1. PICK lines : lines = current.lines
    OBVIOUS
  <2>2. lines \in Seq(LinesRead)
    BY <2>1, <1>1 DEF OpenFiles
  <2>3. PICK g \in [DOMAIN lines -> DOMAIN truth] : Reads(g, line.path, lines)
    BY <2>1, <1>4, <1>20 DEF DiffInv, LinesAreAsWritten
  <2>4. CASE looks = "line"
    <3>1. \E h \in [DOMAIN Append(lines, read) -> DOMAIN truth'] :
            Reads(h, line.path, Append(lines, read))'
      BY <2>2, <2>3, <2>4, <1>2, <1>4, <1>5, <1>6, <1>10, <1>19, ReadsExtended
    <3> QED BY <3>1, <2>1, <2>4, <1>4, <1>11, <1>23
  <2>5. CASE looks # "line"
    <3>1. g \in [DOMAIN lines -> DOMAIN truth'] /\ Reads(g, line.path, lines)'
      BY <2>2, <2>3, <2>5, <1>2, <1>4, <1>5, ReadsKept
    <3> QED BY <3>1, <2>1, <2>5, <1>4, <1>11, <1>23
  <2> QED BY <2>4, <2>5
<1>25. LinesAreAsWritten'
  BY <1>20, <1>21, <1>22, <1>23, <1>24 DEF LinesAreAsWritten
<1> QED BY <1>15, <1>16, <1>18, <1>25 DEF DiffInv

\* Every line of a file of text is read with the side, and until a line that
\* looks like a header comes before it in its hunk with the number, git gave it.
THEOREM LinesAreReadAsWritten == PrDiffSpec => []LinesAreAsWritten
<1> USE PathsAssumption
<1>1. PrDiffInit => DiffInv
  <2> SUFFICES ASSUME PrDiffInit PROVE DiffInv
    OBVIOUS
  <2>1. ~IsOpen /\ FilesRead = {}
    BY DEF PrDiffInit, IsOpen, FilesRead, Range
  <2> QED BY <2>1 DEF PrDiffInit, DiffInv, DiffShapes, WrittenInOrder, CountersAgree, LinesAreAsWritten
<1>2. DiffInv /\ [ReadDiff]_prDiffVars => DiffInv'
  <2> SUFFICES ASSUME DiffInv, [ReadDiff]_prDiffVars PROVE DiffInv'
    OBVIOUS
  <2>1. CASE ReadDiff
    BY <2>1, FileHeaderKeeps, BinaryFileKeeps, FileNamesKeeps, HunkKeeps, DiffLineKeeps,
       EndOfDiffKeeps DEF ReadDiff
  <2>2. CASE UNCHANGED prDiffVars
    <3>1. UNCHANGED <<writing, truth, oldAt, newAt, current, oldLine, newLine, changedFiles>>
      BY <2>2 DEF prDiffVars
    <3>2. LinesAreAsWritten'
      BY <3>1, ReadsUnchanged DEF DiffInv, LinesAreAsWritten, FilesRead, IsOpen
    <3>3. DiffShapes' /\ WrittenInOrder' /\ CountersAgree'
      BY <3>1 DEF DiffInv, DiffShapes, WrittenInOrder, CountersAgree, InStep, Clean, IsOpen
    <3> QED BY <3>2, <3>3 DEF DiffInv
  <2> QED BY <2>1, <2>2
<1>3. DiffInv => LinesAreAsWritten
  BY DEF DiffInv
<1> QED BY <1>1, <1>2, <1>3, PTL DEF PrDiffSpec
=============================================================================
