--------------------------- MODULE LearnedMemory ---------------------------
(***************************************************************************)
(* What a pipeline learns from an execution and what the project keeps of  *)
(* it: `pipeline learning' turns the execution into candidates and counts  *)
(* the fingerprints of what failed, `pipeline promote-learning' writes the *)
(* candidates it approves into memory.md and, when the config asks for it, *)
(* into the database.  Jobs share the project's directory and database and *)
(* may overlap; a job may be killed between any two of its steps, the      *)
(* database may refuse any statement, and every command may be run again.  *)
(* Files are written in place: truncated, then filled.                     *)
(***************************************************************************)
EXTENDS Naturals, Sequences, FiniteSets, SequencesExt

CONSTANTS
    Jobs,           \* output directories, each with its own artifacts
    Executions,     \* what executions may leave: sequences of events
    Head30,         \* text -> its first 30 characters, as far as a title has them
    EscapedTexts,   \* texts whose head has a character the renderer escapes
    UnsafeTexts,    \* texts with an ephemeral id or something sensitive
    LinkedGaps,     \* gaps linked to a memory by hand before the first job
    Configs,        \* config.memory: what it may be
    MaxRuns,        \* bound: executions learned from
    MaxPromotions,  \* bound: promotions started
    MaxFaults       \* bound: kills and refusals of the database

ASSUME ConfigsAssumption ==
    Configs \subseteq [source : {"file", "postgres", "hybrid"},
                       writeBack : {"commit", "db", "both", "off"}]
ASSUME BoundsAssumption == MaxRuns \in Nat /\ MaxPromotions \in Nat /\ MaxFaults \in Nat

VARIABLES
    config,     \* the config of the project
    memory,     \* the chunks of memory.md: only what they hold matters, not where
    database,   \* the rows of agent_memory_chunks
    prints,     \* fingerprint -> occurrences and link, as stored
    at,         \* job -> where it is
    learned,    \* job -> candidates the running learning holds
    artifact,   \* job -> learning-candidates.json
    gap,        \* job -> number of candidates the dedup has passed
    buffer,     \* job -> chunks and prints it is about to write
    approved,   \* job -> candidates of the running promotion not yet in the database
    verdicts,   \* job -> verdicts of the running promotion
    log,        \* job -> promotion-log.json
    runs, promotions, faults,
    recorded,   \* history: fingerprint -> recordings that completed
    written,    \* history: chunks that were in memory.md
    clean       \* history: no two writers of one file overlapped, none died writing

store == <<memory, database, prints>>
job == <<at, learned, artifact, gap, buffer, approved, verdicts, log>>
history == <<recorded, written, clean>>
counters == <<runs, promotions, faults>>
vars == <<config, store, job, counters, history>>

NoLog == [candidates |-> <<>>, verdicts |-> <<>>]

-----------------------------------------------------------------------------
(* Candidates.                                                             *)

\* The eight passes of the extractor, each over one kind of record.
Passes == << {"locator", "fallback", "not_found"}, {"replan", "decide"}, {"patch"},
             {"eval"}, {"warning"}, {"outcome"}, {"no_memory"}, {"plan_fallback"} >>

Rating(type, source, confidence, risk) ==
    [type |-> type, source |-> source, confidence |-> confidence, risk |-> risk]

\* What a candidate of each kind is worth, with the confidence in percent.
Ratings ==
    [locator       |-> Rating("semantic_locator",   "confirmed", 90, "low"),
     fallback      |-> Rating("semantic_locator",   "inferred",  60, "medium"),
     not_found     |-> Rating("gap",                "inferred",  50, "high"),
     replan        |-> Rating("recovery_pattern",   "confirmed", 80, "medium"),
     decide        |-> Rating("component_behavior", "inferred",  60, "medium"),
     patch         |-> Rating("recovery_pattern",   "confirmed", 85, "medium"),
     eval          |-> Rating("component_behavior", "confirmed", 90, "high"),
     warning       |-> Rating("component_behavior", "confirmed", 80, "medium"),
     outcome       |-> Rating("semantic_locator",   "confirmed", 85, "low"),
     no_memory     |-> Rating("gap",                "inferred",  50, "medium"),
     plan_fallback |-> Rating("recovery_pattern",   "confirmed", 90, "low")]

\* The events that tell something, in the order of the passes: one that is no
\* use (an ephemeral element, a condition that held, a memory that was used)
\* leaves no candidate.
Telling(events) ==
    LET pass(g) == SelectSeq(events, LAMBDA e : e.kind \in Passes[g] /\ e.useful)
    IN  FoldLeft(LAMBDA s, g : s \o pass(g), <<>>, [g \in 1 .. Len(Passes) |-> g])

\* "no" is the place of the candidate: two may agree in all the rest.
Extract(run, events) ==
    LET all == Telling(events)
    IN  [i \in DOMAIN all |-> [run |-> run, no |-> i, kind |-> all[i].kind,
                               step |-> all[i].step, text |-> all[i].text, known |-> FALSE]]

IsGap(c) == Ratings[c.kind].type = "gap"
Fingerprint(c) == <<c.kind, c.step>>

\* Locators found either way share the suffix of their id.
Id(c) == <<c.run, c.step, IF c.kind = "fallback" THEN "locator" ELSE c.kind>>

\* Only three descriptions depend on the data; the others are the kind's.
HasText(c) == c.kind \in {"eval", "warning", "outcome"}
Title(c) == IF HasText(c) THEN <<c.kind, Head30[c.text]>> ELSE <<c.kind>>
IsEscaped(c) == HasText(c) /\ c.text \in EscapedTexts

\* memory.includes(description.slice(0, 30)): the memory holds descriptions
\* escaped, and ids in upper case, so that neither an escaped head nor the id
\* of a candidate is ever found.
InMemory(c, chunks) ==
    \E chunk \in chunks : Title(chunk) = Title(c) /\ ~IsEscaped(c)

WorthKeeping(c, auto) ==
    LET r == Ratings[c.kind]
    IN  /\ r.source = "confirmed"
        /\ IF auto THEN r.confidence >= 80 /\ r.risk # "high"
                   ELSE r.confidence >= 85 /\ r.risk = "low"

\* Mutant of Evaluate: only the id is looked for, which no other run shares.
EvaluateById(c, chunks, auto) ==
    IF c.text \in UnsafeTexts THEN "unsafe"
    ELSE IF c.known THEN "known_failure"
    ELSE IF \E chunk \in chunks : Id(chunk) = Id(c) THEN "duplicate"
    ELSE IF WorthKeeping(c, auto) THEN "approved" ELSE "rejected"

Evaluate(c, chunks, auto) ==
    IF c.text \in UnsafeTexts THEN "unsafe"
    ELSE IF c.known THEN "known_failure"
    ELSE IF InMemory(c, chunks) THEN "duplicate"
    ELSE IF WorthKeeping(c, auto) THEN "approved" ELSE "rejected"

-----------------------------------------------------------------------------
(* Stores.                                                                 *)

\* Fingerprints go where the memory is searched, the promoted chunks to the
\* database whenever the config writes back to it.
PrintsInFile == config.source = "file"
WritesDatabase == config.writeBack \in {"db", "both"}

NoPrints == [f \in {} |-> 0]

\* Mutant of Counted: a known failure is created anew.
CreatedAnew(table, f) ==
    [x \in DOMAIN table \cup {f} |->
        IF x # f THEN table[x] ELSE [occurrences |-> 1, linked |-> FALSE]]

\* createFailureFingerprint and mergeFailureFingerprint.
Counted(table, f) ==
    [x \in DOMAIN table \cup {f} |->
        IF x # f THEN table[x]
        ELSE IF f \in DOMAIN table THEN [table[f] EXCEPT !.occurrences = @ + 1]
        ELSE [occurrences |-> 1, linked |-> FALSE]]

\* Mutant of Appended: the file is written with the new chunks alone.
NewOnly(chunks, new) == new

\* memory.md as the promotion writes it.
Appended(chunks, new) == chunks \cup new

\* The hash of a row covers its title and content, the time of learning
\* included, so that rows of different runs never are the same; the id is the
\* primary key, and two candidates of one run may share it.
Content(c) == [c EXCEPT !.no = 0]
KeyTaken(c) == \E row \in database : Id(row.chunk) = Id(c) /\ Content(row.chunk) # Content(c)

\* Learning names its run after the directory and the clock, onboarding its own
\* one; nothing else appends to the run history, so that no candidate's run is
\* ever among those that passed.
RunId(n) == <<"pipeline", n>>
PassingRuns == {<<"onboarding", 0>>}
Row(c) == [chunk |-> c, status |-> IF c.run \in PassingRuns THEN "promoted" ELSE "candidate"]

-----------------------------------------------------------------------------
Init ==
    /\ config \in Configs
    /\ memory = {} /\ database = {}
    /\ prints = [f \in LinkedGaps |-> [occurrences |-> 1, linked |-> TRUE]]
    /\ at = [j \in Jobs |-> "idle"]
    /\ learned = [j \in Jobs |-> <<>>] /\ artifact = [j \in Jobs |-> <<>>]
    /\ gap = [j \in Jobs |-> 0] /\ buffer = [j \in Jobs |-> [chunks |-> {}, prints |-> NoPrints]]
    /\ approved = [j \in Jobs |-> {}] /\ verdicts = [j \in Jobs |-> <<>>]
    /\ log = [j \in Jobs |-> NoLog]
    /\ runs = 0 /\ promotions = 0 /\ faults = 0
    /\ recorded = [f \in LinkedGaps |-> 1]
    /\ written = {} /\ clean = TRUE

Goes(j, from, to) == at[j] = from /\ at' = [at EXCEPT ![j] = to]

\* Another job is between its reading of a file and the end of its writing.
Overlaps(j, places) == \E k \in Jobs \ {j} : at[k] \in places

(* Learning.                                                               *)

Learn(j, events) ==
    /\ runs < MaxRuns /\ runs' = runs + 1
    /\ at[j] \in {"idle", "stopped"} /\ at' = [at EXCEPT ![j] = "find"]
    /\ learned' = [learned EXCEPT ![j] = Extract(RunId(runs'), events)]
    /\ gap' = [gap EXCEPT ![j] = 0]
    /\ UNCHANGED <<config, store, artifact, buffer, approved, verdicts, log,
                   promotions, faults, history>>

\* The first gap after the n-th candidate, 0 if there is none.
GapAfter(candidates, n) == SelectInSubSeq(candidates, n + 1, Len(candidates), IsGap)

\* The candidate the dedup is at; only gaps are looked up.
NextGap(j) == GapAfter(learned[j], gap[j])
GapAt(j) == Fingerprint(learned[j][NextGap(j)])

FindFingerprint(j) ==
    /\ NextGap(j) # 0
    /\ Goes(j, "find", "record")
    /\ LET known == GapAt(j) \in DOMAIN prints /\ prints[GapAt(j)].linked
       IN  learned' = [learned EXCEPT ![j][NextGap(j)].known = known]
    /\ UNCHANGED <<config, store, artifact, gap, buffer, approved, verdicts, log,
                   counters, history>>

Recorded(j) ==
    /\ recorded' = [f \in DOMAIN recorded \cup {GapAt(j)} |->
                       (IF f \in DOMAIN recorded THEN recorded[f] ELSE 0)
                       + (IF f = GapAt(j) THEN 1 ELSE 0)]
    /\ gap' = [gap EXCEPT ![j] = NextGap(j)]

\* The database merges in one statement.
UpsertFingerprint(j) ==
    /\ ~PrintsInFile
    /\ Goes(j, "record", "find")
    /\ prints' = Counted(prints, GapAt(j)) /\ Recorded(j)
    /\ UNCHANGED <<config, memory, database, learned, artifact, buffer, approved,
                   verdicts, log,
                   counters, written, clean>>

\* The file is read again, merged, truncated and filled.
WritingPrints == {"truncate_prints", "fill_prints"}

ReadFingerprints(j) ==
    /\ PrintsInFile
    /\ Goes(j, "record", "truncate_prints")
    /\ buffer' = [buffer EXCEPT ![j].prints = Counted(prints, GapAt(j))]
    /\ clean' = (clean /\ ~Overlaps(j, WritingPrints))
    /\ UNCHANGED <<config, store, learned, artifact, gap, approved, verdicts, log,
                   counters,
                   recorded, written>>

TruncateFingerprints(j) ==
    /\ Goes(j, "truncate_prints", "fill_prints")
    /\ prints' = NoPrints
    /\ UNCHANGED <<config, memory, database, learned, artifact, gap, buffer, approved,
                   verdicts, log,
                   counters, history>>

FillFingerprints(j) ==
    /\ Goes(j, "fill_prints", "find")
    /\ prints' = buffer[j].prints /\ Recorded(j)
    /\ UNCHANGED <<config, memory, database, learned, artifact, buffer, approved,
                   verdicts, log,
                   counters, written, clean>>

WriteCandidates(j) ==
    /\ NextGap(j) = 0
    /\ Goes(j, "find", "idle")
    /\ artifact' = [artifact EXCEPT ![j] = learned[j]]
    /\ UNCHANGED <<config, store, learned, gap, buffer, approved, verdicts, log,
                   counters, history>>

(* Promotion.                                                              *)

WritingMemory == {"truncate_memory", "fill_memory"}

\* Candidates are judged one by one against the memory as it was read, not
\* against each other; without an artifact there are none.
Promote(j, auto) ==
    /\ promotions < MaxPromotions /\ promotions' = promotions + 1
    /\ LET judged == [i \in DOMAIN artifact[j] |-> Evaluate(artifact[j][i], memory, auto)]
           good == {i \in DOMAIN judged : judged[i] = "approved"}
       IN  /\ verdicts' = [verdicts EXCEPT ![j] = judged]
           /\ approved' = [approved EXCEPT ![j] = good]
           /\ buffer' = [buffer EXCEPT ![j].chunks =
                            Appended(memory, {artifact[j][i] : i \in good})]
           /\ at[j] \in {"idle", "stopped"}
           /\ at' = [at EXCEPT ![j] = IF good = {} THEN "log" ELSE "truncate_memory"]
    /\ clean' = (clean /\ ~Overlaps(j, WritingMemory))
    /\ UNCHANGED <<config, store, learned, artifact, gap, log, runs, faults, recorded,
                   written>>

TruncateMemory(j) ==
    /\ Goes(j, "truncate_memory", "fill_memory")
    /\ memory' = {}
    /\ UNCHANGED <<config, database, prints, learned, artifact, gap, buffer, approved,
                   verdicts, log,
                   counters, history>>

FillMemory(j) ==
    /\ Goes(j, "fill_memory", IF WritesDatabase THEN "upsert" ELSE "log")
    /\ memory' = buffer[j].chunks
    /\ written' = written \cup buffer[j].chunks
    /\ UNCHANGED <<config, database, prints, learned, artifact, gap, buffer, approved,
                   verdicts, log,
                   counters, recorded, clean>>

\* The candidate whose chunk is the next one to insert.
NextChunk(j, i) == at[j] = "upsert" /\ i \in approved[j] /\ \A k \in approved[j] : i <= k

\* That chunk is done with.
Passed(j, i) ==
    /\ approved' = [approved EXCEPT ![j] = @ \ {i}]
    /\ at' = [at EXCEPT ![j] = IF approved[j] = {i} THEN "log" ELSE "upsert"]

\* One statement per chunk, without a transaction around them.
UpsertChunk(j) ==
    /\ \E i \in approved[j] :
         LET c == artifact[j][i]
         IN  /\ NextChunk(j, i) /\ ~KeyTaken(c)
             /\ database' = {row \in database : Content(row.chunk) # Content(c)} \cup {Row(c)}
             /\ Passed(j, i)
    /\ UNCHANGED <<config, memory, prints, learned, artifact, gap, buffer, verdicts,
                   log, counters, history>>

\* Mutant of UpsertRefused: a chunk that cannot be inserted is passed over.
UpsertSkipped(j) ==
    /\ \E i \in approved[j] : NextChunk(j, i) /\ KeyTaken(artifact[j][i]) /\ Passed(j, i)
    /\ UNCHANGED <<config, store, learned, artifact, gap, buffer, verdicts, log,
                   counters, history>>

\* The row cannot be inserted: the promotion throws, and writes no log.
UpsertRefused(j) ==
    /\ \E i \in approved[j] : NextChunk(j, i) /\ KeyTaken(artifact[j][i])
    /\ Goes(j, "upsert", "stopped")
    /\ UNCHANGED <<config, store, learned, artifact, gap, buffer, approved, verdicts,
                   log, counters, history>>

WriteLog(j) ==
    /\ Goes(j, "log", "idle")
    /\ log' = [log EXCEPT ![j] = [candidates |-> artifact[j], verdicts |-> verdicts[j]]]
    /\ UNCHANGED <<config, store, learned, artifact, gap, buffer, approved, verdicts,
                   counters, history>>

(* Faults.                                                                 *)

Fault == faults < MaxFaults /\ faults' = faults + 1

\* The database is down, or DATABASE_URL is not set: the command throws.
DatabaseFails(j) ==
    /\ Fault
    /\ \/ at[j] = "upsert"
       \/ ~PrintsInFile /\ (at[j] = "record" \/ (at[j] = "find" /\ NextGap(j) # 0))
    /\ at' = [at EXCEPT ![j] = "stopped"]
    /\ UNCHANGED <<config, store, learned, artifact, gap, buffer, approved, verdicts,
                   log, runs,
                   promotions, history>>

Kill(j) ==
    /\ Fault
    /\ at[j] \notin {"idle", "stopped"}
    /\ at' = [at EXCEPT ![j] = "stopped"]
    /\ clean' = (clean /\ at[j] \notin {"fill_memory", "fill_prints"})
    /\ UNCHANGED <<config, store, learned, artifact, gap, buffer, approved, verdicts,
                   log, runs,
                   promotions, recorded, written>>

Step(j) ==
    \/ \E events \in Executions : Learn(j, events)
    \/ FindFingerprint(j) \/ UpsertFingerprint(j)
    \/ ReadFingerprints(j) \/ TruncateFingerprints(j) \/ FillFingerprints(j)
    \/ WriteCandidates(j)
    \/ \E auto \in BOOLEAN : Promote(j, auto)
    \/ TruncateMemory(j) \/ FillMemory(j)
    \/ UpsertChunk(j) \/ UpsertRefused(j) \/ WriteLog(j)
    \/ DatabaseFails(j) \/ Kill(j)

Next == \E j \in Jobs : Step(j)

Spec == Init /\ [][Next]_vars

-----------------------------------------------------------------------------
(* Properties.                                                             *)

\* What a log says was promoted was in memory.md and, when the config writes
\* back to it, is in the database; and the database has nothing that memory.md
\* never had.  Whatever fails in between leaves no log, and retries find part
\* of the work done.
LogMeansStored ==
    /\ \A j \in Jobs :
        \A i \in DOMAIN log[j].candidates : log[j].verdicts[i] = "approved" =>
            /\ log[j].candidates[i] \in written
            /\ WritesDatabase => 
                    \E row \in database : Content(row.chunk) = Content(log[j].candidates[i])
    /\ \A row \in database : row.chunk \in written

\* No chunk is lost: as long as promotions do not overlap and none dies while
\* it writes, memory.md has, between two promotions, every chunk it ever had.
MemoryKept ==
    clean /\ (\A j \in Jobs : at[j] \notin WritingMemory) => written \subseteq memory

\* A lesson is learned once: two chunks of memory.md with the same title come
\* from the same run, unless the title has a character the renderer escapes.
\* That holds for overlapping, killed and repeated promotions as well.
LearnedOnce ==
    \A c, d \in memory :
        c.run # d.run /\ Title(c) = Title(d) => IsEscaped(c) \/ IsEscaped(d)

\* What was promoted is kept, and once: the log tells no promotion that was not
\* stored, no promotion drops what an earlier one stored or stores it again.
PromotedIsKept == LogMeansStored /\ MemoryKept /\ LearnedOnce

\* Every recording of a failure counts, and links stay: always in the
\* database, and in the file as long as no two recordings overlap and none
\* dies while it writes.
FailuresCounted ==
    (~PrintsInFile \/ (clean /\ \A j \in Jobs : at[j] # "fill_prints"))
        => prints = [f \in DOMAIN recorded |->
                        [occurrences |-> recorded[f], linked |-> f \in LinkedGaps]]

=============================================================================
