------------------------------- MODULE PrDiff -------------------------------
(***************************************************************************)
(* Reading the diff of a pull request.  git writes it line by line and the *)
(* parser keeps a file under construction and the two line counters of the *)
(* hunk it is in; "truth" is what git wrote.  A removed or an added line   *)
(* whose text begins with "-- " or "++ " looks like the header of a file.  *)
(***************************************************************************)
EXTENDS Selections, Sequences, SequencesExt, FiniteSets, FiniteSetsExt

CONSTANTS
    Paths,          \* in git's order: what tells the paths of the changed files apart
    RouteFiles,     \* last segments that are no part of a URL: page, index, ...
    RouteGroups,    \* segments in parentheses
    MaxFiles,       \* bound: files of a diff
    MaxDiffLines    \* bound: lines of its hunks

\* The words of a path, the patterns it matches, what follows routes/, pages/
\* or app/, the end of its name when that is a .schema.ts, the path without
\* its extension, and whether it is noise for the search of regressions.
ASSUME PathsAssumption ==
    /\ Paths \in Seq(Range(Paths)) /\ MaxFiles \in Nat /\ MaxDiffLines \in Nat
    /\ \A i \in DOMAIN Paths :
        /\ Paths[i].patterns \subseteq {"test", "schema", "route", "infra", "docs"}
        /\ Paths[i].noise \in {"no", "lock", "config", "manifest"}

VARIABLES
    writing,    \* git: what it is writing
    truth,      \* git: the lines it wrote, with their files and numbers
    oldAt, newAt, \* git: the lines of the two sides it is at
    current,    \* the file under construction, NoFile when there is none
    oldLine, newLine, \* the counters of the parser, 0 when undefined
    changedFiles \* the files that are finished

prDiffVars == <<writing, truth, oldAt, newAt, current, oldLine, newLine, changedFiles>>

NoFile == [path |-> 0]
IsOpen == current # NoFile

-----------------------------------------------------------------------------
(* Kinds, routes and schemas of files, by the index of their path.         *)

Kind(p) ==
    LET order == <<"test", "schema", "route", "infra", "docs">>
        i == SelectInSeq(order, LAMBDA k : k \in Paths[p].patterns)
    IN  IF i = 0 THEN "other" ELSE order[i]

Route(p) ==
    LET s == Paths[p].segments
        named == IF s # <<>> /\ Last(s) \in RouteFiles THEN Front(s) ELSE s
    IN  SelectSeq(named, LAMBDA x : x \notin RouteGroups)

SchemaId(p) == IF Paths[p].schema # "" THEN Paths[p].schema ELSE Paths[p].stem

FilesOfKind(files, kind) == Those(files, {i \in DOMAIN files : Kind(files[i].path) = kind})
AffectedRoutes(files) == {Route(f.path) : f \in Range(FilesOfKind(files, "route"))}
AffectedSchemas(files) == {SchemaId(f.path) : f \in Range(FilesOfKind(files, "schema"))}

-----------------------------------------------------------------------------
PrDiffInit ==
    /\ writing = "nothing" /\ truth = <<>> /\ oldAt = 0 /\ newAt = 0
    /\ current = NoFile /\ oldLine = 0 /\ newLine = 0
    /\ changedFiles = <<>>

Status(f) == IF f.oldIsNull THEN "added" ELSE IF f.newIsNull THEN "removed" ELSE "modified"

\* flushCurrentFile: binary files are left out.
Flushed ==
    IF ~IsOpen \/ current.isBinary THEN changedFiles
    ELSE Append(changedFiles, [path |-> current.path, status |-> Status(current),
                               lines |-> current.lines])

\* diff --git.  Renames and changes of mode have nothing more.
FileHeader(p) ==
    /\ writing # "all"
    /\ Len(Flushed) < MaxFiles
    /\ IsOpen => p > current.path
    /\ changedFiles' = Flushed
    /\ current' = [path |-> p, oldIsNull |-> FALSE, newIsNull |-> FALSE,
                   isBinary |-> FALSE, lines |-> <<>>]
    /\ oldLine' = (IF IsOpen THEN 0 ELSE oldLine) /\ newLine' = (IF IsOpen THEN 0 ELSE newLine)
    /\ writing' = "header" /\ oldAt' = 0 /\ newAt' = 0
    /\ UNCHANGED truth

\* Binary files differ; GIT binary patch.
BinaryFile ==
    /\ writing = "header" /\ writing' = "binary"
    /\ current' = [current EXCEPT !.isBinary = TRUE]
    /\ UNCHANGED <<truth, oldAt, newAt, oldLine, newLine, changedFiles>>

\* The two names of the file: --- and +++, of which one may be /dev/null.
FileNames(null) ==
    /\ writing = "header" /\ writing' = "names"
    /\ current' = [current EXCEPT !.oldIsNull = null = "old", !.newIsNull = null = "new"]
    /\ UNCHANGED <<truth, oldAt, newAt, oldLine, newLine, changedFiles>>

\* A hunk begins with the numbers of its first lines; a second one further on.
Hunk(skipped) ==
    /\ writing \in {"names", "lines"} /\ writing' = "hunk"
    /\ Len(truth) < MaxDiffLines
    /\ LET o == IF oldAt = 0 THEN 1 ELSE oldAt + skipped
           n == IF newAt = 0 THEN 1 ELSE newAt + skipped
       IN  /\ oldAt' = o /\ newAt' = n
           /\ oldLine' = o /\ newLine' = n
    /\ UNCHANGED <<truth, current, changedFiles>>

Sides(f) ==
    CASE Status(f) = "added" -> {"added"}
      [] Status(f) = "removed" -> {"removed"}
      [] OTHER -> {"added", "removed", "context"}

LineNumber(side) == IF side = "removed" THEN oldLine ELSE newLine

\* Mutant of Read: a line of context only counts on the new side.
ReadNewOnly(side) ==
    /\ current' = [current EXCEPT !.lines = Append(@, [side |-> side, number |-> LineNumber(side)])]
    /\ oldLine' = oldLine + (IF side = "removed" THEN 1 ELSE 0)
    /\ newLine' = newLine + (IF side # "removed" THEN 1 ELSE 0)

Read(side) ==
    /\ current' = [current EXCEPT !.lines = Append(@, [side |-> side, number |-> LineNumber(side)])]
    /\ oldLine' = oldLine + (IF side # "added" THEN 1 ELSE 0)
    /\ newLine' = newLine + (IF side # "removed" THEN 1 ELSE 0)

\* A line that looks like a header is passed over, its number with it; the
\* text "-- /dev/null" is taken for the name of a file that was not there.
DiffLine(side, looks) ==
    /\ writing \in {"hunk", "lines"} /\ writing' = "lines"
    /\ Len(truth) < MaxDiffLines
    /\ side \in Sides([current EXCEPT !.oldIsNull = @ /\ ~\E t \in Range(truth) : t.looks = "null"])
    /\ looks # "line" => side # "context"
    /\ looks = "null" => side = "removed"
    /\ truth' = Append(truth,
            [path |-> current.path, side |-> side, looks |-> looks,
             number |-> IF side = "removed" THEN oldAt ELSE newAt,
             opens |-> writing = "hunk"])
    /\ oldAt' = oldAt + (IF side # "added" THEN 1 ELSE 0)
    /\ newAt' = newAt + (IF side # "removed" THEN 1 ELSE 0)
    /\ IF looks = "line" THEN Read(side)
       ELSE /\ current' = [current EXCEPT !.oldIsNull = @ \/ looks = "null"]
            /\ UNCHANGED <<oldLine, newLine>>
    /\ UNCHANGED changedFiles

EndOfDiff ==
    /\ writing \in {"nothing", "header", "binary", "lines"} /\ writing' = "all"
    /\ changedFiles' = Flushed
    /\ current' = NoFile
    /\ oldLine' = (IF IsOpen THEN 0 ELSE oldLine) /\ newLine' = (IF IsOpen THEN 0 ELSE newLine)
    /\ UNCHANGED <<truth, oldAt, newAt>>

ReadDiff ==
    \/ \E p \in DOMAIN Paths : FileHeader(p)
    \/ BinaryFile
    \/ \E null \in {"none", "old", "new"} : FileNames(null)
    \/ \E skipped \in {1, 2} : Hunk(skipped)
    \/ \E side \in {"added", "removed", "context"}, looks \in {"line", "header", "null"} :
            DiffLine(side, looks)
    \/ EndOfDiff

PrDiffSpec == PrDiffInit /\ [][ReadDiff]_prDiffVars

-----------------------------------------------------------------------------
\* No line of its hunk up to this one looks like a header.
Undisturbed(i) ==
    \A k \in 1 .. i : truth[k].path = truth[i].path /\ truth[k].looks # "line" =>
        \E h \in k + 1 .. i : truth[h].opens

\* g tells of every line that was read of a file which one git wrote: every line
\* that looks like one, in order, with its side, and its number where Undisturbed.
Reads(g, path, lines) ==
    /\ \A m, n \in DOMAIN lines : m < n => g[m] < g[n]
    /\ {g[n] : n \in DOMAIN lines} = {i \in DOMAIN truth : truth[i].path = path /\ truth[i].looks = "line"}
    /\ \A n \in DOMAIN lines :
        /\ lines[n].side = truth[g[n]].side
        /\ Undisturbed(g[n]) => lines[n].number = truth[g[n]].number

FilesRead == Range(changedFiles) \cup (IF IsOpen THEN {current} ELSE {})

\* Every line that is read belongs to the file, the side and the number git
\* gave it, and no line of a file of text is left out, until a line that looks
\* like a header comes before it in its hunk: those are left out themselves,
\* and shift the numbers of the lines that follow.
LinesAreAsWritten ==
    /\ \A i \in DOMAIN truth : truth[i].looks = "line" => \E f \in FilesRead : f.path = truth[i].path
    /\ \A f \in FilesRead :
        \E g \in [DOMAIN f.lines -> DOMAIN truth] : Reads(g, f.path, f.lines)
=============================================================================
