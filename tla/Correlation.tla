----------------------------- MODULE Correlation -----------------------------
(***************************************************************************)
(* What a pull request has to be tested for: the acceptance criteria of    *)
(* its demand are matched, word by word, with the files, routes and        *)
(* schemas its diff touches and with what the memory knows; the best       *)
(* matches become required scenarios, the others are reported, and what    *)
(* the memory was asked is logged.  `pipeline correlate' may run again     *)
(* with a demand or a memory that has changed; the log may fail to be      *)
(* written.  `pipeline risk' rates the same diff.                          *)
(* Scores are counted in units of 1/Scale, risks in thousandths.           *)
(***************************************************************************)
EXTENDS PrDiff

CONSTANTS
    Scale,          \* a multiple of 20 and of the number of words of every criterion
    Diffs,          \* diffs as PrDiff leaves them: the files that are finished
    Demands,        \* demands of the task: their title and their criteria, in order
    Searches,       \* results of the search of the memory
    Histories,      \* contents of run-history.jsonl, line by line
    MaxScenarios,   \* MAX_SCENARIOS
    MaxRelatedFiles, \* MAX_RELATED_FILES
    ManyRemovedLines, \* removed lines that are still no HIGH risk
    MaxCorrelations \* bound: times the command runs

\* The words of a criterion are those of its text; a blank one has a name of its
\* own, and "" names none.
ASSUME CorrelationAssumption ==
    /\ Scale \in Nat /\ Scale % 20 = 0 /\ Scale > 0
    /\ MaxScenarios \in Nat /\ MaxRelatedFiles \in Nat
    /\ \A files \in Diffs : files \in Seq(Range(files))
    /\ \A demand \in Demands :
        /\ demand \in Seq(Range(demand))
        /\ \A c \in Range(demand) : c.name # "" /\ IsFiniteSet(c.words)
        /\ \A c, d \in Range(demand) : c.name = d.name => c = d
    /\ \A found \in Searches :
        /\ found \in Seq(Range(found))
        /\ \A chunk \in Range(found) : chunk.relevance \in Nat

VARIABLES
    diff,           \* pr-diff-context.json
    required,       \* required-scenarios.json and correlation-report.md
    consulted,      \* memory-consultation-log.json
    correlations,   \* runs of `pipeline correlate' that reached the correlation
    risk            \* risk-score.json

correlationVars == <<diff, required, consulted, correlations, risk>>

Nothing == [no |-> 0]
Lesser(a, b) == IF a < b THEN a ELSE b
Greater(a, b) == IF a > b THEN a ELSE b

-----------------------------------------------------------------------------
(* Words.                                                                  *)

Threshold == (3 * Scale) \div 20

Overlap(left, right) ==
    IF left = {} THEN 0 ELSE (Scale * Cardinality(left \cap right)) \div Cardinality(left)

\* A route is one word when it is searched for in a text, and the words of its
\* segments when it is compared with a path.
RouteWord(route) == {[route |-> route]}
Word(w) == [word |-> w]
RouteWords(route) == {Word(w) : w \in Range(route)}
PathWords(p) == {Word(w) : w \in Paths[p].words}

\* String.includes: "/a" is found in "/a/b" and in "/x/a", and "/" in any route.
Mentions(words, route) ==
    \E w \in words : "route" \in DOMAIN w /\
        \E i \in 1 .. Len(w.route) + 1, j \in 0 .. Len(w.route) : SubSeq(w.route, i, j) = route

-----------------------------------------------------------------------------
(* One criterion and the diff.                                             *)

\* Of equally good candidates the first; none of score 0.
FirstBest(candidates) ==
    LET best == Max({0} \cup {c.score : c \in Range(candidates)})
        i == SelectInSeq(candidates, LAMBDA c : c.score = best)
    IN  IF best = 0 THEN [score |-> 0, file |-> 0] ELSE candidates[i]

Distinct(s) ==
    Those(s, {i \in DOMAIN s : \A k \in 1 .. i - 1 : s[k] # s[i]})

Routes(files) ==
    LET of == FilesOfKind(files, "route") IN Distinct([i \in DOMAIN of |-> Route(of[i].path)])
Schemas(files) ==
    LET of == FilesOfKind(files, "schema") IN Distinct([i \in DOMAIN of |-> SchemaId(of[i].path)])

\* The file with most words of the route, or one whose name has the route.
FileForRoute(files, route) ==
    LET of == FilesOfKind(files, "route")
        best == FirstBest([i \in DOMAIN of |->
            [score |-> Overlap(RouteWords(route), PathWords(of[i].path)), file |-> of[i].path]])
        named == SelectInSeq(of, LAMBDA f : Route(f.path) = route)
    IN  IF best.file # 0 THEN best.file
        ELSE IF route # <<>> /\ named # 0 THEN of[named].path ELSE 0

\* The file with the name of the schema, or the first with a word of it.
FileForSchema(files, id) ==
    LET of == FilesOfKind(files, "schema")
        exact == SelectInSeq(of, LAMBDA f : Paths[f.path].schema = id)
        words == UNION {PathWords(f.path) : f \in {g \in Range(of) : SchemaId(g.path) = id}}
        near == SelectInSeq(of, LAMBDA f : PathWords(f.path) \cap words # {})
    IN  of[IF exact # 0 THEN exact ELSE near].path

ScoreOfFile(words, f) == [score |-> Overlap(words, PathWords(f.path)), file |-> f.path]
ScoreOfRoute(words, files, route) ==
    [score |-> Overlap(words, RouteWord(route)), file |-> FileForRoute(files, route)]
ScoreOfSchema(words, files, id) ==
    LET p == FileForSchema(files, id) IN [score |-> Overlap(words, PathWords(p)), file |-> p]

\* Files, then routes, then schemas.
Candidates(words, files) ==
    LET routes == Routes(files)
        schemas == Schemas(files)
    IN  [i \in DOMAIN files |-> ScoreOfFile(words, files[i])]
        \o [i \in DOMAIN routes |-> ScoreOfRoute(words, files, routes[i])]
        \o [i \in DOMAIN schemas |-> ScoreOfSchema(words, files, schemas[i])]

\* The files of any candidate with a score, the best first.
RelatedFiles(words, files) ==
    LET scored == {c \in Range(Candidates(words, files)) : c.score > 0 /\ c.file # 0}
        best(p) == Max({c.score : c \in {d \in scored : d.file = p}})
        paths == SortSeq(SetToSeq({c.file : c \in scored}),
                         LAMBDA p, q : best(p) > best(q) \/ (best(p) = best(q) /\ p < q))
    IN  SubSeq(paths, 1, Lesser(Len(paths), MaxRelatedFiles))

-----------------------------------------------------------------------------
(* The memory.                                                             *)

CorrelationChunks(found) ==
    Those(found, {i \in DOMAIN found : found[i].type \in {"route", "flow", "scenario"}})

RouteHit(chunk, files) ==
    \E route \in AffectedRoutes(files) :
        Mentions(chunk.title \cup chunk.content, route)

Boost(chunk, files) ==
    IF RouteHit(chunk, files) THEN Lesser((7 * Scale) \div 20, (chunk.relevance + Scale) \div 10)
    ELSE Lesser(Scale \div 4, (chunk.relevance \div 10) + (Scale \div 20))

\* Of the chunks on the criterion the first with the best boost, of those with
\* the same the most relevant; none when no chunk is on it.
Boosts(words, files, found) ==
    LET chunks == CorrelationChunks(found)
        hits == Those(chunks, {i \in DOMAIN chunks :
                                Overlap(words, chunks[i].title \cup chunks[i].content) > 0})
        better(c, d) == \/ Boost(c, files) > Boost(d, files)
                        \/ Boost(c, files) = Boost(d, files) /\ c.relevance > d.relevance
    IN  IF hits = <<>> THEN <<>>
        ELSE << hits[SelectInSeq(hits, LAMBDA c : ~\E d \in Range(hits) : better(d, c))] >>

Correlate(criterion, files, found) ==
    LET best == FirstBest(Candidates(criterion.words, files))
        boosts == Boosts(criterion.words, files, found)
    IN  [criterion |-> criterion.name, file |-> best.file,
         chunk |-> IF boosts = <<>> THEN "" ELSE boosts[1].id,
         score |-> IF boosts = <<>> THEN best.score
                   ELSE Lesser(Scale, best.score + Boost(boosts[1], files)),
         related |-> RelatedFiles(criterion.words, files)]

-----------------------------------------------------------------------------
(* Risks.                                                                  *)

RiskItem(type, severity, file, criterion) ==
    [type |-> type, severity |-> severity, file |-> file, criterion |-> criterion]

Removed(f) == Len(SelectSeq(f.lines, LAMBDA l : l.side = "removed"))
Added(f) == Len(SelectSeq(f.lines, LAMBDA l : l.side = "added"))

\* correlateNegativeDiffRegressions; the chunk it names is only wording.
Regressions(files) ==
    {RiskItem(IF Paths[f.path].noise = "manifest" THEN "dependency_change" ELSE "regression",
              IF Paths[f.path].noise = "manifest" THEN "LOW"
              ELSE IF Removed(f) > ManyRemovedLines THEN "HIGH" ELSE "MEDIUM", f.path, "") :
        f \in {g \in Range(files) : Removed(g) > 0 /\ Paths[g.path].noise \in {"no", "manifest"}}}

DiffWords(files) ==
    UNION ({PathWords(f.path) : f \in Range(files)}
           \cup {RouteWord(r) : r \in AffectedRoutes(files)})

\* The demand and the diff have little in common: less than half of the
\* criteria have words of the diff.
Mismatch(criteria, files) ==
    LET covered == SelectSeq(criteria, LAMBDA c : Overlap(c.words, DiffWords(files)) >= Threshold)
    IN  IF DiffWords(files) = {} \/ 2 * Len(covered) >= Len(criteria) THEN {}
        ELSE {RiskItem("demand_diff_mismatch", "MEDIUM", 0, "")}

Uncovered(matches) ==
    {RiskItem("uncovered_criterion", "HIGH", 0, m.criterion) :
        m \in {n \in Range(matches) : n.score < Threshold}}

ScenarioRisk(match, risks) ==
    LET regressed == \E p \in Range(match.related) : \E r \in risks : r.type = "regression" /\ r.file = p
    IN  Lesser(Scale, Scale - Lesser(Scale, match.score) + (IF regressed THEN (Scale \div 4) ELSE 0))

-----------------------------------------------------------------------------
(* The demand and the diff.                                                *)

Blank == "blank"

\* Blank criteria and repetitions are left out.
Consume(criteria) == Distinct(Those(criteria, {i \in DOMAIN criteria : criteria[i].name # Blank}))

\* The best first, of equally good ones the first of the demand.
Ranked(matches) ==
    LET good == {i \in DOMAIN matches : matches[i].score >= Threshold}
        place(i) == Cardinality({j \in good : \/ matches[j].score > matches[i].score
                                              \/ matches[j].score = matches[i].score /\ j <= i})
    IN  [n \in 1 .. Cardinality(good) |-> matches[CHOOSE i \in good : place(i) = n]]

\* Mutant of Planned: the first of the demand instead of the best.
PlannedInOrder(matches, risks) ==
    LET good == SelectSeq(matches, LAMBDA m : m.score >= Threshold)
    IN  [i \in 1 .. Lesser(Len(good), MaxScenarios) |->
            [criterion |-> good[i].criterion, route |-> <<>>, files |-> good[i].related,
             risk |-> ScenarioRisk(good[i], risks)]]

Planned(matches, risks) ==
    LET good == Ranked(matches)
    IN  [i \in 1 .. Lesser(Len(good), MaxScenarios) |->
            [criterion |-> good[i].criterion, route |-> <<>>, files |-> good[i].related,
             risk |-> ScenarioRisk(good[i], risks)]]

\* When no criterion is matched, the affected routes are tested instead.
ForRoutes(files) ==
    LET touches(f, route) == 
            Kind(f.path) = "route" \/ (Len(route) = 1 /\ RouteWords(route) \subseteq PathWords(f.path))
        related(route) == SelectSeq(files, LAMBDA f : touches(f, route))
    IN  [i \in 1 .. Lesser(Len(Routes(files)), MaxScenarios) |->
            [criterion |-> "", route |-> Routes(files)[i],
             files |-> [k \in DOMAIN related(Routes(files)[i]) |-> related(Routes(files)[i])[k].path],
             risk |-> (3 * Scale) \div 5]]

BlockedResult(warnings) ==
    [status |-> "BLOCKED", planned |-> <<>>, matches |-> <<>>, risks |-> {}, warnings |-> warnings]

\* What the matches come to: scenarios for the criteria, or else for the routes.
Concluded(matches, risks, files, found) ==
    LET good == Planned(matches, risks)
        below == IF Uncovered(matches) = {} THEN {} ELSE {"below threshold"}
        capped == IF Len(good) = MaxScenarios THEN {"cap"} ELSE {}
    IN  IF good # <<>> THEN
            [status |-> "OK", planned |-> good, matches |-> matches, risks |-> risks,
             warnings |-> below \cup capped \cup (IF found = <<>> THEN {"no memory"} ELSE {})]
        ELSE IF ForRoutes(files) # <<>> THEN
            [status |-> "OK", planned |-> ForRoutes(files), matches |-> matches, risks |-> risks,
             warnings |-> below \cup {"routes only"} \cup (IF found = <<>> THEN {"no memory"} ELSE {})]
        ELSE BlockedResult(below)

Weighed(matches, criteria, files, found) ==
    Concluded(matches, Regressions(files) \cup Mismatch(criteria, files) \cup Uncovered(matches),
              files, found)

\* correlate.
Result(criteria, files, found) ==
    IF criteria = <<>> \/ files = <<>> THEN BlockedResult({})
    ELSE Weighed([i \in DOMAIN criteria |-> Correlate(criteria[i], files, found)],
                 criteria, files, found)

-----------------------------------------------------------------------------
(* The log of what the memory was asked.                                   *)

Influence(chunk, result) ==
    IF chunk.type = "scenario" THEN "scenario"
    ELSE IF \E m \in Range(result.matches) : m.chunk = chunk.id THEN "plan" ELSE "none"

Gaps(result, files, found) ==
    [criteria |-> {m.criterion : m \in {n \in Range(result.matches) : n.score < Threshold}},
     routes |-> {r \in AffectedRoutes(files) :
            ~\E c \in Range(found) : c.type = "route" /\ Mentions(c.title \cup c.content, r)},
     empty |-> found = <<>>]

-----------------------------------------------------------------------------
(* The risk of the diff.                                                   *)

\* What the kinds of files weigh at most, in the order of the factors.
Weights == [route |-> 250, schema |-> 200, infra |-> 150, docs |-> 30, other |-> 20]
PerFile == [modified |-> 80, added |-> 96, removed |-> 120]

FilesFactor(files, kind) ==
    Lesser(Weights[kind],
           FoldLeft(LAMBDA n, f : n + PerFile[f.status], 0, FilesOfKind(files, kind)))

TestsFactor(files) ==
    IF \E f \in Range(FilesOfKind(files, "test")) : Removed(f) > Added(f) THEN 200 ELSE 0

RemovalFactor(files) ==
    LET removed == FoldLeft(LAMBDA n, f : n + Removed(f), 0, files)
        all == FoldLeft(LAMBDA n, f : n + Removed(f) + Added(f), 0, files)
    IN  IF 5 * removed > all THEN Lesser(100, (200 * removed) \div all) ELSE 0

\* The file begins with a line of comment, which is no JSON: nothing is read.
HistoryHeader == "# run-history.jsonl"
LoadHistory(file) == IF HistoryHeader \in Range(file) THEN <<>> ELSE file

\* Failed runs of the last ten, in percent; three at least.
FailureRate(runsBefore) ==
    LET recent == SubSeq(runsBefore, Greater(1, Len(runsBefore) - 9), Len(runsBefore))
        failed == SelectSeq(recent, LAMBDA status : status \in {"FAILED", "BLOCKED"})
    IN  IF Len(recent) < 3 THEN 0 ELSE (100 * Len(failed)) \div Len(recent)

HistoryFactors(files, runsBefore) ==
    LET rate == FailureRate(runsBefore)
        affected == Cardinality(AffectedRoutes(files)) + Cardinality(AffectedSchemas(files))
    IN  IF rate <= 20 THEN 0
        ELSE Lesser(100, 3 * rate) + Lesser(80, (30 * affected * rate) \div 100)

RiskOf(files, runsBefore) ==
    Lesser(1000, FoldLeft(LAMBDA n, kind : n + FilesFactor(files, kind), 0,
                          <<"route", "schema", "infra", "docs", "other">>)
                 + TestsFactor(files) + RemovalFactor(files) + HistoryFactors(files, runsBefore))

Level(value) ==
    IF value >= 750 THEN "critical" ELSE IF value >= 500 THEN "high"
    ELSE IF value >= 250 THEN "medium" ELSE "low"

-----------------------------------------------------------------------------
CorrelationInit ==
    /\ diff \in Diffs
    /\ required = Nothing /\ consulted = Nothing /\ correlations = 0 /\ risk = "none"

\* Mutant of LogWarning: the failure to write the log is not told.
LogUntold(logFails) == {}

LogWarning(logFails) == IF logFails THEN {"log not written"} ELSE {}

\* The log is written whatever the result, the report only when it is not
\* blocked: then the command throws.
CorrelateDemand(demand, found, logFails) ==
    /\ correlations < MaxCorrelations
    /\ correlations' = correlations + 1
    /\ \E result \in {Result(Consume(demand), diff, found)} :
           /\ consulted' =
                IF logFails THEN consulted
                ELSE [no |-> correlations',
                      influences |-> {<<c.id, Influence(c, result)>> : c \in Range(found)},
                      gaps |-> Gaps(result, diff, found)]
           /\ required' =
                IF result.status = "BLOCKED" THEN required
                ELSE [no |-> correlations', demand |-> Consume(demand), planned |-> result.planned,
                      matches |-> result.matches, risks |-> result.risks,
                      warnings |-> result.warnings \cup LogWarning(logFails)]
    /\ UNCHANGED <<diff, risk>>

ClassifyRisk(history) ==
    /\ risk' = Level(RiskOf(diff, LoadHistory(history)))
    /\ UNCHANGED <<diff, required, consulted, correlations>>

CorrelationNext ==
    \/ \E demand \in Demands, found \in Searches, logFails \in BOOLEAN :
            CorrelateDemand(demand, found, logFails)
    \/ \E history \in Histories : ClassifyRisk(history)

CorrelationSpec == CorrelationInit /\ [][CorrelationNext]_correlationVars

-----------------------------------------------------------------------------
(* Properties.                                                             *)

UncoveredCriteria == {r.criterion : r \in {x \in required.risks : x.type = "uncovered_criterion"}}
PlannedFor == {s.criterion : s \in Range(required.planned)} \ {""}
ScoreFor(name) == (CHOOSE m \in Range(required.matches) : m.criterion = name).score

\* No acceptance criterion is lost: each is planned or reported as uncovered,
\* never both; and one that is left out because of the cap is announced, and
\* matches no better than any that is planned.
CriteriaAccountedFor ==
    required # Nothing =>
        LET names == {c.name : c \in Range(required.demand)}
            omitted == names \ (PlannedFor \cup UncoveredCriteria)
        IN  /\ PlannedFor \cap UncoveredCriteria = {}
            /\ omitted # {} => "cap" \in required.warnings
            /\ \A a \in omitted, b \in PlannedFor : ScoreFor(a) <= ScoreFor(b)
            /\ UncoveredCriteria # {} => "below threshold" \in required.warnings

\* The log is of the same correlation as the report, or of a later one that
\* was blocked, or the report says that it could not be written.  When they
\* are of the same, the log has a gap for every uncovered criterion and no
\* other, and names every chunk a match used with the influence it had.
LogFitsTheReport ==
    required # Nothing =>
        /\ consulted.no < required.no => "log not written" \in required.warnings
        /\ consulted.no = required.no =>
            /\ \A c \in Range(required.demand) :
                    c.name \in consulted.gaps.criteria <=> c.name \in UncoveredCriteria
            /\ \A m \in Range(required.matches) : m.chunk # "" =>
                    \E i \in consulted.influences : i[1] = m.chunk /\ i[2] # "none"

\* The report and the log of the memory account for every criterion.
ReportIsComplete == CriteriaAccountedFor /\ LogFitsTheReport
=============================================================================
