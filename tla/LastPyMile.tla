----------------------------- MODULE LastPyMile -----------------------------
(***************************************************************************)
(* LastPyMile compares a released package with the repository it claims to *)
(* come from: the contents of every source file any commit introduced are  *)
(* collected, and a file of the release whose content is among them is     *)
(* coherent; any other is a phantom, graded by running bandit on it        *)
(* (lastpymile/abstractpackageanalysis.py,                                 *)
(* maliciouscodepackageanalyzer.py).  A content stands for its SHA-512     *)
(* hash.  One process analyses one package, several times when it keeps a  *)
(* cache folder.                                                           *)
(***************************************************************************)
EXTENDS Naturals, Sequences

CONSTANTS
    Commits,       \* what git rev-list prints: 1 is the oldest commit
    FirstParent,   \* the commit each one's stats are taken against, 0 for none
    Files,         \* paths of the repository
    Processable,   \* those that end in .py or .js
    Contents,      \* contents of files
    Absent,        \* a path that is not in a commit's tree
    Histories,     \* the repositories looked at: the tree of every commit
    Releases,      \* the files released for the version
    NoRelease,     \* none of them
    Supported,     \* those with a file type that is unpacked
    Packings,      \* what the releases hold: the contents of .py and .js files
    GitHub,        \* links that name a GitHub repository
    Metadata,      \* the links of the package's metadata, in their order
    Risk,          \* the highest severity bandit reports for a content
    CacheFolder,   \* the option cache_folder is given
    KeepTemp,      \* the option keep_tmp_folder
    MaxAnalyses    \* bound: analyses of the same package one after the other

ASSUME LpmAssumption ==
    /\ Commits \subseteq Nat \ {0}
    /\ FirstParent \in [Commits -> Commits \cup {0}]
    /\ \A c \in Commits : FirstParent[c] < c
    /\ Processable \subseteq Files
    /\ Absent \notin Contents
    /\ Histories \subseteq [Commits -> [Files -> Contents \cup {Absent}]]
    /\ Supported \subseteq Releases /\ NoRelease \notin Releases
    /\ Packings \subseteq [Releases -> SUBSET Contents]
    /\ \A l \in Metadata : l \in Seq(STRING)
    /\ Risk \in [Contents -> 0 .. 3]
    /\ CacheFolder \in BOOLEAN /\ KeepTemp \in BOOLEAN
    /\ MaxAnalyses \in Nat

VARIABLES
    history, packing,  \* the repository and the releases of the package
    links,             \* the links of its metadata
    lpm,               \* the step of the analysis
    rounds,            \* analyses started
    tempFolder,        \* the temporary folder exists
    repoAt,            \* the cached clone: "none" or "cloned"
    cacheFile,         \* release files on disk: "none", "partial", "whole"
    head,              \* the commit checked out, 0 for the clone's own
    scanned,           \* commits already scanned
    sourceHashes,      \* hash -> the commit it was last seen in, 0 for none
    pending,           \* releases the loop has not reached
    release,           \* the release at hand
    result,            \* per release, the list each of its contents is in
    completed          \* the report's "completed": "none", "true", "false"

lpmVars == <<history, packing, links, lpm, rounds, tempFolder, repoAt, cacheFile, head,
             scanned, sourceHashes, pending, release, result, completed>>

LpmSteps == {"idle", "absent", "releases", "sources", "scan", "loop", "unpack", "analyze",
             "cleanup", "raising", "reported", "raised"}
Lists == {"none", "coherent", "phantom", "low", "medium", "high"}
NoResult == [x \in Contents |-> "none"]

LpmTypeOK ==
    /\ history \in Histories /\ packing \in Packings /\ links \in Metadata
    /\ lpm \in LpmSteps
    /\ rounds \in 0 .. MaxAnalyses
    /\ tempFolder \in BOOLEAN
    /\ repoAt \in {"none", "cloned"}
    /\ cacheFile \in [Releases -> {"none", "partial", "whole"}]
    /\ head \in Commits \cup {0}
    /\ scanned \subseteq Commits
    /\ sourceHashes \in [Contents -> Commits \cup {0}]
    /\ pending \subseteq Supported
    /\ release \in Supported \cup {NoRelease}
    /\ result \in [Releases -> [Contents -> Lists]]
    /\ completed \in {"none", "true", "false"}

LpmInit ==
    /\ history \in Histories
    /\ packing \in Packings
    /\ links \in Metadata
    /\ lpm = "idle"
    /\ rounds = 0
    /\ tempFolder = FALSE
    /\ repoAt = "none"
    /\ cacheFile = [r \in Releases |-> "none"]
    /\ head = 0
    /\ scanned = {}
    /\ sourceHashes = [x \in Contents |-> 0]
    /\ pending = {}
    /\ release = NoRelease
    /\ result = [r \in Releases |-> NoResult]
    /\ completed = "none"

-----------------------------------------------------------------------------
(* The package index does not know the package: there is nothing to analyse
   and no report. *)
PackageNotFound ==
    /\ lpm = "idle"
    /\ lpm' = "absent"
    /\ UNCHANGED <<history, packing, links, rounds, tempFolder, repoAt, cacheFile,
                   head, scanned, sourceHashes, pending, release, result, completed>>

(* An analysis begins: a new report, and a temporary folder of its own
   (mkdtemp).  The check for bandit never refuses: it says `and False`. *)
StartAnalysis ==
    /\ lpm \in {"idle", "reported", "raised"}
    /\ rounds < MaxAnalyses
    /\ rounds' = rounds + 1
    /\ tempFolder' = TRUE
    /\ cacheFile' = IF CacheFolder THEN cacheFile ELSE [r \in Releases |-> "none"]
    /\ repoAt' = IF CacheFolder THEN repoAt ELSE "none"
    /\ scanned' = {}
    /\ sourceHashes' = [x \in Contents |-> 0]
    /\ result' = [r \in Releases |-> NoResult]
    /\ completed' = "none"
    /\ lpm' = "releases"
    /\ UNCHANGED <<history, packing, links, head, pending, release>>

(* Only releases of a supported file type are looked at; without one the
   report says so. *)
SelectReleases ==
    /\ lpm = "releases"
    /\ pending' = Supported
    /\ completed' = IF Supported = {} THEN "false" ELSE completed
    /\ lpm' = IF Supported = {} THEN "cleanup" ELSE "sources"
    /\ UNCHANGED <<history, packing, links, rounds, tempFolder, repoAt, cacheFile, head,
                   scanned, sourceHashes, release, result>>

(* The first link of the metadata that names GitHub; NoUrl without one. *)
NoUrl == "none"
GetGitRepositoryUrl ==
    LET found == SelectSeq(links, LAMBDA l : l \in GitHub)
    IN  IF found = <<>> THEN NoUrl ELSE found[1]

(* The repository is the cached clone when there is one, otherwise it is
   cloned from the url of the metadata.  Without a url the report fails; a
   clone that fails raises an exception nothing here catches. *)
PrepareSources ==
    /\ lpm = "sources"
    /\ \/ /\ repoAt = "cloned" \/ GetGitRepositoryUrl # NoUrl
          /\ repoAt' = "cloned"
          /\ head' = IF repoAt = "cloned" THEN head ELSE 0
          /\ lpm' = "scan"
          /\ UNCHANGED completed
       \/ /\ repoAt = "none" /\ GetGitRepositoryUrl = NoUrl
          /\ completed' = "false"
          /\ lpm' = "cleanup"
          /\ UNCHANGED <<repoAt, head>>
       \/ /\ repoAt = "none" /\ GetGitRepositoryUrl # NoUrl
          /\ lpm' = "raising"
          /\ UNCHANGED <<repoAt, head, completed>>
    /\ UNCHANGED <<history, packing, links, rounds, tempFolder, cacheFile, scanned,
                   sourceHashes, pending, release, result>>

ParentTree(c) ==
    IF FirstParent[c] = 0 THEN [f \in Files |-> Absent] ELSE history[FirstParent[c]]

(* commit.stats.files: the paths a commit changed, added or deleted (a rename is
   both). *)
StatsFiles(c) == {f \in Files : history[c][f] # ParentTree(c)[f]}

(* The source files of the commit that are still there. *)
FilesToHash(c) == {f \in StatsFiles(c) : history[c][f] # Absent} \cap Processable

\* Mutant: the working tree is not moved to the commit that is scanned.
MutCheckoutCommit(c) == head' = head

(* git checkout, unless the commit is checked out already. *)
CheckoutCommit(c) == head' = c

(* One commit: it is checked out and the files it touched are hashed as they
   are in the working tree; a hash seen before now names this commit. *)
ScanCommit(c) ==
    /\ lpm = "scan"
    /\ c \notin scanned
    /\ CheckoutCommit(c)
    /\ scanned' = scanned \cup {c}
    /\ sourceHashes' =
        [x \in Contents |->
            IF head' # 0 /\ \E f \in FilesToHash(c) : history[head'][f] = x
            THEN c ELSE sourceHashes[x]]
    /\ UNCHANGED <<history, packing, links, lpm, rounds, tempFolder, repoAt, cacheFile,
                   pending, release, result, completed>>

(* A checkout fails (a repository without a commit, a damaged clone). *)
ScanFails ==
    /\ lpm = "scan"
    /\ lpm' = "raising"
    /\ UNCHANGED <<history, packing, links, rounds, tempFolder, repoAt, cacheFile, head,
                   scanned, sourceHashes, pending, release, result, completed>>

ScanEnds ==
    /\ lpm = "scan"
    /\ scanned = Commits
    /\ lpm' = "loop"
    /\ UNCHANGED <<history, packing, links, rounds, tempFolder, repoAt, cacheFile, head,
                   scanned, sourceHashes, pending, release, result, completed>>

-----------------------------------------------------------------------------
(* The next release: its file is fetched unless it is on disk already. *)
NextRelease ==
    /\ lpm = "loop"
    /\ \E r \in pending :
        /\ release' = r
        /\ pending' = pending \ {r}
        /\ cacheFile' = IF cacheFile[r] = "none"
                        THEN [cacheFile EXCEPT ![r] = "partial"] ELSE cacheFile
    /\ lpm' = "unpack"
    /\ UNCHANGED <<history, packing, links, rounds, tempFolder, repoAt, head, scanned,
                   sourceHashes, result, completed>>

(* urlretrieve failed: the partial file is removed. *)
Discard(r) == cacheFile' = [cacheFile EXCEPT ![r] = "none"]

(* The release cannot be fetched: it is logged and left out of the report. *)
DownloadFails ==
    /\ lpm = "unpack"
    /\ cacheFile[release] = "partial"
    /\ Discard(release)
    /\ lpm' = "loop"
    /\ UNCHANGED <<history, packing, links, rounds, tempFolder, repoAt, head, scanned,
                   sourceHashes, pending, release, result, completed>>

(* The release is on disk; it is unpacked, or cannot be (an egg is opened as a
   compressed tar, which it is not) and is left out. *)
Unpack ==
    /\ lpm = "unpack"
    /\ cacheFile' = IF cacheFile[release] = "partial"
                    THEN [cacheFile EXCEPT ![release] = "whole"] ELSE cacheFile
    /\ lpm' \in {"analyze", "loop"}
    /\ UNCHANGED <<history, packing, links, rounds, tempFolder, repoAt, head, scanned,
                   sourceHashes, pending, release, result, completed>>

(* The list a phantom goes to, by the highest severity bandit found in it. *)
RiskList(x) ==
    CASE Risk[x] = 0 -> "phantom"
      [] Risk[x] = 1 -> "low"
      [] Risk[x] = 2 -> "medium"
      [] OTHER -> "high"

(* Every content of the release goes to one list. *)
AnalyzeRelease ==
    /\ lpm = "analyze"
    /\ result' =
        [result EXCEPT ![release] =
            [x \in Contents |->
                IF x \notin packing[release] THEN "none"
                ELSE IF sourceHashes[x] = 0 THEN RiskList(x) ELSE "coherent"]]
    /\ lpm' = "loop"
    /\ UNCHANGED <<history, packing, links, rounds, tempFolder, repoAt, cacheFile, head,
                   scanned, sourceHashes, pending, release, completed>>

(* bandit is missing, or prints something that is not JSON: the exception ends
   the analysis, the releases already analysed included. *)
BanditFails ==
    /\ lpm = "analyze"
    /\ \E x \in packing[release] : sourceHashes[x] = 0
    /\ lpm' = "raising"
    /\ UNCHANGED <<history, packing, links, rounds, tempFolder, repoAt, cacheFile, head,
                   scanned, sourceHashes, pending, release, result, completed>>

(* Every release was looked at. *)
ReleasesEnd ==
    /\ lpm = "loop"
    /\ pending = {}
    /\ lpm' = "cleanup"
    /\ UNCHANGED <<history, packing, links, rounds, tempFolder, repoAt, cacheFile, head,
                   scanned, sourceHashes, pending, release, result, completed>>

(* The end of startAnalysis, whichever way it ended: a report not failed is
   complete, an exception goes on to the caller, and the folder is removed with
   all that is in it. *)
FinishAnalysis ==
    /\ lpm \in {"cleanup", "raising"}
    /\ completed' = IF lpm = "cleanup" /\ completed = "none" THEN "true" ELSE completed
    /\ tempFolder' = KeepTemp
    /\ lpm' = IF lpm = "cleanup" THEN "reported" ELSE "raised"
    /\ IF CacheFolder \/ KeepTemp
       THEN UNCHANGED <<repoAt, cacheFile>>
       ELSE repoAt' = "none" /\ cacheFile' = [r \in Releases |-> "none"]
    /\ UNCHANGED <<history, packing, links, rounds, head, scanned, sourceHashes,
                   pending, release, result>>

LpmNext ==
    \/ PackageNotFound \/ StartAnalysis \/ SelectReleases \/ PrepareSources
    \/ (\E c \in Commits : ScanCommit(c)) \/ ScanFails \/ ScanEnds
    \/ NextRelease \/ DownloadFails \/ Unpack \/ AnalyzeRelease \/ BanditFails
    \/ ReleasesEnd \/ FinishAnalysis

LpmSpec == LpmInit /\ [][LpmNext]_lpmVars

-----------------------------------------------------------------------------
(* The content is that of a source file of some commit, whether that commit
   changed the file or not. *)
InHistory(x) == \E c \in Commits, f \in Processable : history[c][f] = x

\* The verdicts of a report are right: a file of an analysed release is called
\* coherent exactly when its content is that of some source file of some commit
\* of the repository, although only the files each commit changed are hashed,
\* and a phantom is in the list of its risk.
PhantomsAreReal ==
    \A r \in Releases, x \in Contents :
        result[r][x] # "none" =>
            /\ result[r][x] = "coherent" <=> InHistory(x)
            /\ result[r][x] # "coherent" => result[r][x] = RiskList(x)

\* What an analysis leaves behind: no temporary folder unless it was asked to
\* keep it, and in the cache no file that a failed download cut short, which the
\* next analysis would take for the release.
CleanEnd ==
    lpm \in {"reported", "raised"} =>
        /\ tempFolder = KeepTemp
        /\ \A r \in Releases : cacheFile[r] # "partial"
=============================================================================
