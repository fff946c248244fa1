----------------------------- MODULE BanditScan -----------------------------
(***************************************************************************)
(* bandit4mal: the scan of a set of files (bandit/core/manager.py,         *)
(* node_visitor.py, tester.py, metrics.py, test_set.py), the command that  *)
(* runs it (bandit/cli/main.py) and bandit-baseline, which runs the        *)
(* command on the parent commit and then on the current one and reports    *)
(* what is new (bandit/cli/baseline.py).                                   *)
(*                                                                         *)
(* A source file is the sequence of its AST nodes in visiting order.  A    *)
(* node has its line, the number of nodes below it, the issue its tests    *)
(* find (or NoIssue) and the exception it leads to: in a test, or in the   *)
(* visitor itself.  A source that cannot be parsed has another kind than   *)
(* "ok", and one that is not in the commit is "gone".                      *)
(***************************************************************************)
EXTENDS Naturals, Sequences, FiniteSets, SequencesExt

CONSTANTS
    Targets,       \* files under the targets, in the order of their names
    Named,         \* those given on the command line rather than found
    Matching,      \* those that match the globs of files to include
    ExcludedPaths, \* those under an excluded path
    Stdin,         \* the file "-"
    Trees,         \* what the commits hold: commit -> file -> source
    ConfigFaults,  \* commits whose configuration or .bandit files are refused
    TestIds,       \* identifiers of plugins and blacklist entries
    Blacklisted,   \* the blacklist entries among them; "B001" names them all
    BanditProfiles,\* the include and exclude sets of a profile
    TestOf,        \* issue -> the test that reports it
    SeverityOf,    \* issue -> its rank
    MinSeverity,   \* the rank asked for
    NoIssue,
    IgnoreNosec, BanditDebug, ExitZero  \* options of the command line

BCommits == {"parent", "current"}
Faults == {"none", "test", "visitor"}

AstNode == [line : Nat, below : Nat, issue : DOMAIN TestOf \cup {NoIssue}, fault : Faults]

(* The nodes below a node follow it, and those below them are among them. *)
PreOrder(nodes) ==
    \A i, j \in DOMAIN nodes :
        i < j /\ j <= i + nodes[i].below => j + nodes[j].below <= i + nodes[i].below

ASSUME BanditAssumption ==
    /\ Targets \subseteq Nat /\ IsFiniteSet(Targets)
    /\ Named \subseteq Targets /\ Matching \subseteq Targets
    /\ ExcludedPaths \subseteq Targets
    /\ \A t \in Trees : DOMAIN t = BCommits /\ \A c \in BCommits : DOMAIN t[c] = Targets
    /\ \A t \in Trees : \A c \in BCommits, f \in Targets :
        t[c][f].nodes \in Seq(AstNode) /\ PreOrder(t[c][f].nodes)
    /\ ConfigFaults \subseteq BCommits
    /\ Blacklisted \subseteq TestIds /\ "B001" \notin TestIds
    /\ NoIssue \notin DOMAIN TestOf
    /\ {IgnoreNosec, BanditDebug, ExitZero} \subseteq BOOLEAN

VARIABLES
    trees, profile,   \* the repository and the profile in use
    command,          \* "bandit" or "bandit-baseline"
    blStep,           \* bandit-baseline: "idle", "parent", "current", "done",
                      \* "refused" or "raised"
    headAt,           \* the commit the branch and the working tree are at
    tmpReport,        \* the file with the parent's report
    bd,               \* bandit: "off", "start", "files", "visit", "exited"
    baseline,         \* issues loaded from the parent's report
    filesList,        \* files scanned or to be scanned
    toScan,           \* those the loop has not reached
    skipped,
    fname, nodeAt,    \* the file at hand and the next node of it
    found,            \* tester.results: results of that file
    results,          \* results of the files scanned to their end
    nosecs,           \* nodes left out because of a nosec comment
    counted,          \* the issue total of the metrics
    exitCode,         \* of the last bandit process; 3 before it ends
    wrote             \* that process wrote its report

blVars == <<trees, profile, command>>
scanVars == <<filesList, toScan, skipped, fname, nodeAt, found, results, nosecs, counted>>
banditVars == <<blVars, blStep, headAt, tmpReport, bd, baseline, scanVars, exitCode, wrote>>

(* An output file that holds no JSON. *)
NoReport == [json |-> FALSE, issues |-> {}]

BanditInit ==
    /\ trees \in Trees /\ profile \in BanditProfiles
    /\ command \in {"bandit", "bandit-baseline"}
    /\ blStep = "idle" /\ headAt = "current" /\ tmpReport = NoReport
    /\ bd = "off" /\ baseline = {}
    /\ filesList = {} /\ toScan = {} /\ skipped = {}
    /\ fname = 0 /\ nodeAt = 0 /\ found = <<>> /\ results = <<>>
    /\ nosecs = 0 /\ counted = 0
    /\ exitCode = 3 /\ wrote = FALSE

-----------------------------------------------------------------------------
(* A bandit process begins.  Its output file is opened while the arguments are
   parsed: whatever becomes of the process, the file is there, and empty. *)
LaunchBandit(c) ==
    /\ headAt' = c
    /\ tmpReport' = IF c = "parent" THEN NoReport ELSE tmpReport
    /\ bd' = "start" /\ baseline' = {}
    /\ filesList' = {} /\ toScan' = {} /\ skipped' = {}
    /\ fname' = 0 /\ nodeAt' = 0 /\ found' = <<>> /\ results' = <<>>
    /\ nosecs' = 0 /\ counted' = 0
    /\ exitCode' = 3 /\ wrote' = FALSE

RunBandit ==
    /\ command = "bandit" /\ bd = "off"
    /\ LaunchBandit("current")
    /\ UNCHANGED <<blVars, blStep>>

(* bandit-baseline refuses to begin: not a git project, a dirty working tree, a
   report or a temporary file in the way, -o among the options, no parent. *)
BaselineRefuses ==
    /\ command = "bandit-baseline" /\ blStep = "idle"
    /\ blStep' = "refused"
    /\ exitCode' = 2
    /\ UNCHANGED <<blVars, headAt, tmpReport, bd, baseline, scanVars, wrote>>

(* A step of bandit-baseline: the branch is reset to the commit and bandit is
   run there.  The code of the first run is looked at only to log it. *)
BaselineStep ==
    /\ command = "bandit-baseline"
    /\ \/ blStep = "idle" /\ blStep' = "parent"
       \/ blStep = "parent" /\ bd = "exited" /\ blStep' = "current"
    /\ LaunchBandit(blStep')
    /\ UNCHANGED blVars

(* The bandit executable cannot be started: nothing catches the exception, and
   the clean-up of baseline_setup is not reached. *)
BanditMissing ==
    /\ command = "bandit-baseline"
    /\ \/ blStep = "idle" /\ headAt' = "parent"
       \/ blStep = "parent" /\ bd = "exited" /\ headAt' = "current"
    /\ blStep' = "raised"
    /\ UNCHANGED <<blVars, tmpReport, bd, baseline, scanVars, exitCode, wrote>>

(* Both runs are over: the temporary folder is removed and the branch is put
   back; the exit code is that of the second run. *)
BaselineEnds ==
    /\ blStep = "current" /\ bd = "exited"
    /\ blStep' = "done"
    /\ headAt' = "current"
    /\ UNCHANGED <<blVars, tmpReport, bd, baseline, scanVars, exitCode, wrote>>

-----------------------------------------------------------------------------
(* The tests a profile selects: B001 alone stands for every blacklist entry,
   and is dropped when one of them is named. *)
Expand(ids) ==
    IF "B001" \notin ids THEN ids
    ELSE IF ids \cap Blacklisted = {} THEN (ids \cup Blacklisted) \ {"B001"}
    ELSE ids \ {"B001"}

GetFilter ==
    LET inc == Expand(profile.include)
        all == IF inc = {} THEN TestIds \cup {"B001"} ELSE inc
    IN  all \ Expand(profile.exclude)

(* validate_profile: the tests are known, and none is both in and out. *)
ValidProfile ==
    /\ profile.include \cup profile.exclude \subseteq TestIds \cup {"B001"}
    /\ profile.include \cap profile.exclude = {}

(* A file named on the command line need not match the globs. *)
IsFileIncluded(f) == f \in Matching \cup Named \cup {Stdin} /\ f \notin ExcludedPaths

DiscoverFiles ==
    {f \in Targets : IsFileIncluded(f) /\ (f \in Named \/ trees[headAt][f].kind # "gone")}

(* populate_baseline: a report that cannot be read as JSON is logged and leaves
   the baseline empty. *)
PopulateBaseline == IF tmpReport.json THEN tmpReport.issues ELSE {}

(* The configuration file cannot be read or is no YAML. *)
ConfigRefused == headAt \in ConfigFaults

(* main() up to the scan. *)
Configure ==
    /\ bd = "start"
    /\ ~ConfigRefused /\ ValidProfile /\ GetFilter \ {"B001"} # {}
    /\ bd' = "files"
    /\ baseline' = IF blStep = "current" THEN PopulateBaseline ELSE {}
    /\ filesList' = DiscoverFiles
    /\ toScan' = DiscoverFiles
    /\ UNCHANGED <<blVars, blStep, headAt, tmpReport, skipped, fname, nodeAt, found,
                   results, nosecs, counted, exitCode, wrote>>

ExitTwo ==
    /\ bd = "start"
    /\ ConfigRefused \/ ~ValidProfile \/ GetFilter \ {"B001"} = {}
    /\ bd' = "exited"
    /\ exitCode' = 2
    /\ UNCHANGED <<blVars, blStep, headAt, tmpReport, baseline, scanVars, wrote>>

Source == trees[headAt][fname]

(* The next file, in the order of the names: it is opened, read and parsed. *)
ParseFile ==
    /\ bd = "files" /\ toScan # {}
    /\ fname' = CHOOSE f \in toScan : \A g \in toScan : f <= g
    /\ toScan' = toScan \ {fname'}
    /\ nodeAt' = 1
    /\ found' = <<>>
    /\ bd' = "visit"
    /\ UNCHANGED <<blVars, blStep, headAt, tmpReport, baseline, filesList, skipped,
                   results, nosecs, counted, exitCode, wrote>>

\* Mutant: the results found before the exception stay.
MutSkipFile ==
    /\ skipped' = skipped \cup {fname}
    /\ filesList' = filesList \ {fname}
    /\ results' = results \o found
    /\ bd' = "files"
    /\ UNCHANGED exitCode

(* A file with a problem moves to the skipped ones, its results are dropped.  The
   name of standard input is not the one in the list: removing it raises, out of
   the handler, and the process dies with a traceback. *)
SkipFile ==
    /\ UNCHANGED results
    /\ IF fname = Stdin
       THEN /\ bd' = "exited" /\ exitCode' = 1
            /\ UNCHANGED <<skipped, filesList>>
       ELSE /\ bd' = "files"
            /\ skipped' = skipped \cup {fname}
            /\ filesList' = filesList \ {fname}
            /\ UNCHANGED exitCode

(* The file cannot be opened, read or parsed; standard input that is a pipe
   cannot be read twice. *)
Unparsable ==
    \/ Source.kind # "ok"
    \/ fname = Stdin /\ Source.pipe /\ ~IgnoreNosec

FileFails ==
    /\ bd = "visit" /\ nodeAt = 1 /\ Unparsable
    /\ SkipFile
    /\ UNCHANGED <<blVars, blStep, headAt, tmpReport, baseline, toScan, fname, nodeAt,
                   found, nosecs, counted, wrote>>

NosecLines == IF IgnoreNosec THEN {} ELSE Source.nosec
Node == Source.nodes[nodeAt]

Visiting == bd = "visit" /\ ~Unparsable /\ nodeAt <= Len(Source.nodes)

(* A node on a nosec line is left out with everything below it. *)
SkipNode ==
    /\ Visiting
    /\ Node.line \in NosecLines
    /\ nosecs' = nosecs + 1
    /\ nodeAt' = nodeAt + 1 + Node.below
    /\ UNCHANGED <<blVars, blStep, headAt, tmpReport, bd, baseline, filesList, toScan,
                   skipped, fname, found, results, counted, exitCode, wrote>>

(* The node's tests run; one that raises is logged and finds nothing. *)
RunTests ==
    /\ Visiting
    /\ Node.line \notin NosecLines
    /\ Node.fault = "none" \/ (Node.fault = "test" /\ ~BanditDebug)
    /\ found' = IF Node.fault = "none" /\ Node.issue # NoIssue
                     /\ TestOf[Node.issue] \in GetFilter
                THEN Append(found, [issue |-> Node.issue, file |-> fname])
                ELSE found
    /\ nodeAt' = nodeAt + 1
    /\ UNCHANGED <<blVars, blStep, headAt, tmpReport, bd, baseline, filesList, toScan,
                   skipped, fname, results, nosecs, counted, exitCode, wrote>>

(* An exception of the visitor, or of a test when debugging, ends the file. *)
VisitFails ==
    /\ Visiting
    /\ Node.line \notin NosecLines
    /\ Node.fault = "visitor" \/ (Node.fault = "test" /\ BanditDebug)
    /\ SkipFile
    /\ UNCHANGED <<blVars, blStep, headAt, tmpReport, baseline, toScan, fname, nodeAt,
                   found, nosecs, counted, wrote>>

(* The metrics add the issues of the file to the total. *)
CountIssues == counted' = counted + Len(found)

EndFile ==
    /\ bd = "visit" /\ ~Unparsable /\ nodeAt > Len(Source.nodes)
    /\ results' = results \o found
    /\ CountIssues
    /\ bd' = "files"
    /\ UNCHANGED <<blVars, blStep, headAt, tmpReport, baseline, filesList, toScan,
                   skipped, fname, nodeAt, found, nosecs, exitCode, wrote>>

-----------------------------------------------------------------------------
(* Issues are the same when everything but the line is. *)
SameIssue(a, b) == a.issue = b.issue /\ a.file = b.file

\* Mutant: the file name is not compared.
MutUnmatched(a) == \A b \in baseline : a.issue # b.issue

(* _compare_baseline_results *)
Unmatched(a) == \A b \in baseline : ~SameIssue(a, b)

(* filter_results: the issues of the severity asked for and, with a baseline, not
   in it. *)
FilterResults ==
    LET ranked == {r \in ToSet(results) : SeverityOf[r.issue] >= MinSeverity}
    IN  IF baseline = {} THEN ranked ELSE {r \in ranked : Unmatched(r)}

(* The report of the JSON formatter, as populate_baseline reads it back. *)
JsonReport == [json |-> TRUE, issues |-> FilterResults]

(* The report is written; the exit code says whether it holds an issue. *)
Report ==
    /\ bd = "files" /\ toScan = {}
    /\ bd' = "exited"
    /\ exitCode' = IF FilterResults # {} /\ ~ExitZero THEN 1 ELSE 0
    /\ wrote' = TRUE
    /\ tmpReport' = IF blStep = "parent" THEN JsonReport ELSE tmpReport
    /\ UNCHANGED <<blVars, blStep, headAt, baseline, scanVars>>

(* The formatter raises: a traceback, and the exit code of one. *)
ReportFails ==
    /\ bd = "files" /\ toScan = {}
    /\ bd' = "exited"
    /\ exitCode' = 1
    /\ UNCHANGED <<blVars, blStep, headAt, tmpReport, baseline, scanVars, wrote>>

BanditNext ==
    \/ RunBandit \/ BaselineRefuses \/ BaselineStep \/ BanditMissing \/ BaselineEnds
    \/ Configure \/ ExitTwo \/ ParseFile \/ FileFails \/ SkipNode \/ RunTests
    \/ VisitFails \/ EndFile \/ Report \/ ReportFails

BanditSpec == BanditInit /\ [][BanditNext]_banditVars

-----------------------------------------------------------------------------
(* The nodes of a file that are tested: none on a nosec line, and none below
   such a node. *)
Tested(c, f) ==
    LET s == trees[c][f]
    IN  {i \in DOMAIN s.nodes :
            \A j \in 1 .. i :
                i <= j + s.nodes[j].below => IgnoreNosec \/ s.nodes[j].line \notin s.nosec}

(* The file is analysed to its end. *)
Analysable(c, f) ==
    LET s == trees[c][f]
    IN  /\ s.kind = "ok"
        /\ f = Stdin => ~s.pipe \/ IgnoreNosec
        /\ \A i \in Tested(c, f) :
            s.nodes[i].fault = "none" \/ (s.nodes[i].fault = "test" /\ ~BanditDebug)

(* The nodes whose issue belongs in the results. *)
Expected(c, f) ==
    {i \in Tested(c, f) :
        LET n == trees[c][f].nodes[i]
        IN  n.fault = "none" /\ n.issue # NoIssue /\ TestOf[n.issue] \in GetFilter}

(* What a report on a commit should say. *)
IssuesOf(c) ==
    UNION {{[issue |-> trees[c][f].nodes[i].issue, file |-> f] : i \in Expected(c, f)} :
            f \in {g \in Targets : IsFileIncluded(g) /\ Analysable(c, g)}}

\* A report that was written accounts for every file that was discovered: each is
\* scanned or skipped and not both, a scanned one has one result for each of its
\* nodes that a selected test objects to and that no nosec comment covers, a
\* skipped one has none although some of its nodes were tested before it failed,
\* and the metrics count the results.
BanditAccounts ==
    wrote /\ bd = "exited" /\ blStep # "raised" =>
        /\ filesList \cap skipped = {}
        /\ filesList \cup skipped = DiscoverFiles
        /\ \A f \in DiscoverFiles :
            /\ f \in filesList <=> Analysable(headAt, f)
            /\ Cardinality({k \in DOMAIN results : results[k].file = f})
                 = IF f \in filesList THEN Cardinality(Expected(headAt, f)) ELSE 0
        /\ counted = Len(results)

(* The nodes of a file for which the report on a commit has this issue. *)
Occurrences(c, f, issue) ==
    {i \in Expected(c, f) :
        IsFileIncluded(f) /\ Analysable(c, f) /\ trees[c][f].nodes[i].issue = issue}

(* Both commits have the issues of the severity asked for equally often. *)
SameCounts ==
    \A f \in Targets, issue \in DOMAIN TestOf :
        SeverityOf[issue] >= MinSeverity =>
            Cardinality(Occurrences("current", f, issue))
              = Cardinality(Occurrences("parent", f, issue))

\* bandit-baseline: at the end the branch is where it was before, and once both
\* runs wrote their reports the exit code is 1 if the current commit has an issue
\* of the severity asked for that the parent's same file has not (unless the
\* options say --exit-zero), and 0 if every file has each such issue as often as
\* the parent's has it.  Nothing is said of a file that has a known issue more
\* often or less often than before: filter_results and _find_candidate_matches
\* document that it is shown again, and the code does not show it.
BaselineReportsNew ==
    blStep = "done" =>
        /\ headAt = "current"
        /\ wrote /\ tmpReport.json =>
            /\ /\ ~ExitZero
               /\ \E i \in IssuesOf("current") \ IssuesOf("parent") :
                       SeverityOf[i.issue] >= MinSeverity
               => exitCode = 1
            /\ SameCounts => exitCode = 0
=============================================================================
