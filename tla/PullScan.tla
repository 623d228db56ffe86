------------------------------- MODULE PullScan -------------------------------
(***************************************************************************)
(* What a scan says of a pull request: the diff as git gives it            *)
(* (readGitDiff, parseDiffFiles), the risk categories, scores and findings *)
(* of pr-risk (src/scanners/gitDiff.ts), the configuration of the scanned  *)
(* repository (config.ts) with the exit code of the CLI (cli.ts), and the  *)
(* conclusion of the hosted Check Run (hosted/contracts.ts).               *)
(*                                                                         *)
(* A changed file is the set of traits its path and its text have for the  *)
(* predicates of gitDiff.ts: a text trait named like a category stands for *)
(* the words that category looks for in such a file.                       *)
(***************************************************************************)
EXTENDS Integers, Sequences, FiniteSets, FiniteSetsExt

CONSTANTS
  ListedFiles,    \* topRiskyFiles keeps this many, 10
  ReviewedFiles   \* and findings are made of this many of them, 5

ASSUME ListsAssumption == ListedFiles \in Nat \ {0} /\ ReviewedFiles \in Nat \ {0}

Categories == {"auth", "billing", "database", "rls", "api", "env", "permissions",
               "tests", "silent-success", "large"}
Weight == [c \in Categories |->
  CASE c \in {"auth", "billing", "silent-success"} -> 30
    [] c = "rls" -> 35  [] c = "tests" -> 28
    [] c \in {"database", "env"} -> 24
    [] c = "permissions" -> 20  [] c = "large" -> 18  [] c = "api" -> 16]
TrustBoundary == Categories \ {"tests", "large"}
SensitivePaths == {"auth", "billing", "database", "rls", "api", "env", "permissions"}

PathTraits == SensitivePaths \cup {"automation", "test", "spec", "app", "apiRoute", "generated"}
TextTraits == SensitivePaths \cup {"sensitive", "fakeSuccess", "removed", "deleted", "testCall"}
\* plain: the header is `diff --git a/.. b/..`; git quotes an unusual name, and then it is not.
ChangedFiles == [name : STRING, path : SUBSET PathTraits, text : SUBSET TextTraits,
                 lines : Nat, plain : BOOLEAN]

Severities == {"critical", "high", "medium", "low", "info"}
Rank == [s \in Severities |->
  CASE s = "critical" -> 5 [] s = "high" -> 4 [] s = "medium" -> 3 [] s = "low" -> 2 [] s = "info" -> 1]
Rules == {"sensitive-surface", "missing-spec", "diff-unavailable", "no-diff"}
Finding(rule, severity, file) == [rule |-> rule, severity |-> severity, file |-> file]

-----------------------------------------------------------------------------
(* The diff.                                                               *)

\* readGitDiff: the diff against the merge base, else against the base itself, which also
\* shows what the base gained meanwhile; a diff that cannot be read leaves a diagnostic.
GitOutcomes == {"merge_base", "no_merge_base", "unreadable"}
Reading(pull, git) ==
  CASE git = "merge_base"    -> [diff |-> pull.changed, diagnostics |-> {}]
    [] git = "no_merge_base" -> [diff |-> pull.changed \o pull.behind, diagnostics |-> {}]
    [] git = "unreadable"    -> [diff |-> <<>>,
                                 diagnostics |-> {Finding("diff-unavailable", "info", ".")}]

\* parseDiffFiles: lines below a header that is not recognised go to the file before it.
Section(diff, i) == {j \in i..Len(diff) : \A k \in (i + 1)..j : ~ diff[k].plain}
ParsedFile(diff, i) ==
  [name |-> diff[i].name, path |-> diff[i].path, at |-> i,
   text |-> UNION {diff[j].text : j \in Section(diff, i)},
   lines |-> MapThenSumSet(LAMBDA j : diff[j].lines, Section(diff, i))]
ParsedFiles(diff) == {ParsedFile(diff, i) : i \in {j \in DOMAIN diff : diff[j].plain}}

-----------------------------------------------------------------------------
(* classifyPrRisk                                                          *)

\* Automation files have their own rules; test files none of the surfaces.
Surfaces(f) ==
  CASE "automation" \in f.path ->
         {"env"} \cup ({"permissions"} \cap (f.path \cup f.text))
    [] "automation" \notin f.path /\ "test" \in f.path -> {}
    [] OTHER ->
         (f.path \cap (SensitivePaths \ {"rls"}))
         \cup ({"auth", "billing", "api"} \cap (IF "app" \in f.path THEN f.text ELSE {}))
         \cup ({"database", "env", "permissions"} \cap f.text)
         \cup ({"rls"} \cap f.path \cap f.text)

WeakensTests(f) ==
  "removed" \in f.text /\ ("test" \in f.path \/ f.text \cap {"deleted", "testCall"} # {})
FakesSuccess(f) ==
  /\ "fakeSuccess" \in f.text
  /\ "sensitive" \in f.text \/ f.path \cap {"test", "api", "auth", "billing", "rls"} # {}

CategoriesOf(f) ==
  Surfaces(f) \cup {c \in {"tests", "silent-success", "large"} :
    \/ c = "tests" /\ WeakensTests(f)
    \/ c = "silent-success" /\ FakesSuccess(f)
    \/ c = "large" /\ (f.lines > 400 \/ "generated" \in f.path)}

Lesser(a, b) == IF a < b THEN a ELSE b
Score(f) ==
  MapThenSumSet(LAMBDA c : Weight[c], CategoriesOf(f)) + Lesser(30, (f.lines + 19) \div 20)
  + IF "apiRoute" \in f.path THEN 24 ELSE 0

\* The n files with the highest scores, the earlier of two equal ones first.
Ahead(f, g) == Score(f) > Score(g) \/ (Score(f) = Score(g) /\ f.at < g.at)
First(n, files) == {f \in files : Cardinality({g \in files : Ahead(g, f)}) < n}
TopRiskyFiles(files) == First(ListedFiles, {f \in files : CategoriesOf(f) # {}})

SurfaceFindings(files) ==
  {Finding("sensitive-surface", IF Score(f) >= 70 THEN "high" ELSE "medium", f.name) :
     f \in First(ReviewedFiles, TopRiskyFiles(files))}
SpecFindings(files) ==
  {Finding("missing-spec", IF Score(f) >= 70 THEN "medium" ELSE "low", f.name) :
     f \in First(ReviewedFiles, {g \in TopRiskyFiles(files) : CategoriesOf(g) \cap TrustBoundary # {}})}

FileFindings(files) ==
  SurfaceFindings(files) \cup (IF \E f \in files : "spec" \in f.path THEN {} ELSE SpecFindings(files))
NoDiff(reading) ==
  IF reading.diff = <<>> /\ reading.diagnostics = {} THEN {Finding("no-diff", "info", ".")} ELSE {}

PrRiskWithoutDiagnostics(reading) ==  \* mutant: they only keep no-diff away
  FileFindings(ParsedFiles(reading.diff)) \cup NoDiff(reading)
PrRisk(reading) ==
  reading.diagnostics \cup FileFindings(ParsedFiles(reading.diff)) \cup NoDiff(reading)

-----------------------------------------------------------------------------
(* The CLI, in a checkout of the pull request.                             *)

\* .ai-saas-guard.json of the head commit; rules: off, a severity, or as the rule has it.
Configs == [valid : BOOLEAN, failOn : Severities \cup {"none"},
            rules : [Rules -> Severities \cup {"off", "default"}],
            suppressed : SUBSET (Rules \X STRING)]
NoConfig == [valid |-> TRUE, failOn |-> "none", rules |-> [r \in Rules |-> "default"], suppressed |-> {}]

\* applyGuardConfig
Configured(config, findings) ==
  {IF config.rules[f.rule] = "default" THEN f ELSE [f EXCEPT !.severity = config.rules[f.rule]] :
     f \in {g \in findings : config.rules[g.rule] # "off" /\ <<g.rule, g.file>> \notin config.suppressed}}

\* shouldFail
Fails(findings, failOn) == failOn # "none" /\ \E f \in findings : Rank[f.severity] >= Rank[failOn]

\* main: a configuration or a base it refuses, or a finding that meets the threshold of
\* the configuration, is exit code 1.
CliRefuses(pull) == ~ pull.config.valid \/ ~ pull.safeBase
CliFindings(pull, git) == Configured(pull.config, PrRisk(Reading(pull, git)))
CliExitsZero(pull, git) ==
  ~ CliRefuses(pull) /\ ~ Fails(CliFindings(pull, git), pull.config.failOn)

-----------------------------------------------------------------------------
(* The hosted report and its Check Run.                                    *)

\* compactScanRunnerResult, createCompactHostedReport: the counts are those the CLI
\* printed; rule, severity and file are all that is kept of a finding.
Report(findings) ==
  [counts |-> [s \in Severities |-> Cardinality({f \in findings : f.severity = s})],
   evidence |-> findings]
\* getHostedReportFindingTotal
FindingTotal(report) ==
  LET counted == MapThenSumSet(LAMBDA s : report.counts[s], Severities) IN
  IF counted < Cardinality(report.evidence) THEN Cardinality(report.evidence) ELSE counted

\* resolveCheckRunConclusion
Conclusion(report, failOn) ==
  CASE FindingTotal(report) = 0 -> "success"
    [] FindingTotal(report) > 0 /\ Fails(report.evidence, failOn) -> "failure"
    [] OTHER -> "neutral"

\* hostedLaunchGateVerdict, launchGateVerdict: by the worst severity counted.
Verdict(report) ==
  LET some(s) == report.counts[s] > 0 IN
  CASE some("critical") -> "blocked"
    [] some("high") /\ ~ some("critical") -> "review required"
    [] OTHER -> IF some("medium") THEN "check before launch"
                ELSE IF some("low") \/ some("info") THEN "low-noise review"
                ELSE "clear from current heuristics"
=============================================================================
