---------------------------- MODULE ToolRequests ----------------------------
(***************************************************************************)
(* The pages that run an analyzer while the visitor waits (views.py, from  *)
(* malcontent to upload_sample, services/execution_service.py and          *)
(* file_service.py).  The threads of several web processes serve them at   *)
(* the same time.  The threads of a process share its package manager      *)
(* object, which remembers the name of the archive it fetched last         *)
(* (pkgmanager/ecosystem.py); all share the folders under /tmp.            *)
(*                                                                         *)
(* An archive stands for the package and version it is the source of, and  *)
(* its base name for the folder and the report named after it.             *)
(***************************************************************************)
EXTENDS Naturals

CONSTANTS
    Threads,       \* threads of the web processes
    Processes,
    ProcessOf,     \* thread -> its process
    Archives,      \* packages that are asked for
    NoArchive,
    Namespaces,    \* ecosystems in which a package of that name exists
    MaxRequests    \* bound: requests served

ASSUME ToolAssumption ==
    /\ ProcessOf \in [Threads -> Processes]
    /\ NoArchive \notin Archives
    /\ "none" \notin Namespaces
    /\ MaxRequests \in Nat

Kinds == {"bandit", "squats", "source", "sample", "upload", "other"}
BanditSteps == {"asked", "fetch", "chunks", "fetched", "extract", "extracted", "scan",
                "read", "cleanup"}
ToolSteps == BanditSteps \cup {"idle", "docker", "sarif", "parts", "upload", "answered"}
Parts == {"analysis", "squats", "source"}
ReportFiles == [json : BOOLEAN, of : SUBSET Archives]
Responses == [ok : BOOLEAN, of : SUBSET Archives]

VARIABLES
    at, kind, want,    \* per thread: its step, the page and the package
    namespace,         \* per thread: the ecosystem asked for
    archiveFilename,   \* per process: pypi_pkg_manager.archive_filename
    downloadFolder,    \* bandit4mal_downloaded exists
    downloads,         \* archives in it: "none", "cut" or "whole"
    extractDirectory,  \* per thread: the folder it extracts to and scans
    outputFile,        \* per thread: the report it has bandit write
    extracted,         \* per folder: the archives whose files are in it
    jsonResults,       \* per report file: the archives it is about
    sarif,             \* oss-find-source's file of a name: its ecosystem
    parts,             \* per thread: futures of submit_sample not finished
    uploads,           \* files left in MEDIA_ROOT
    response,          \* per thread: the answer
    served,            \* requests begun
    overlapped,        \* two scans of one process were ever in progress at once
    crossed            \* archives two scans of which ever were

requestVars == <<at, kind, want, namespace, served>>
banditFiles == <<archiveFilename, downloadFolder, downloads, extractDirectory, outputFile,
                 extracted, jsonResults>>
toolVars == <<requestVars, banditFiles, sarif, parts, uploads, response, overlapped, crossed>>

ToolTypeOK ==
    /\ at \in [Threads -> ToolSteps]
    /\ kind \in [Threads -> Kinds]
    /\ want \in [Threads -> Archives \cup {NoArchive}]
    /\ namespace \in [Threads -> Namespaces \cup {"none"}]
    /\ archiveFilename \in [Processes -> Archives \cup {NoArchive}]
    /\ downloadFolder \in BOOLEAN
    /\ downloads \in [Archives -> {"none", "cut", "whole"}]
    /\ extractDirectory \in [Threads -> Archives \cup {NoArchive}]
    /\ outputFile \in [Threads -> Archives \cup {NoArchive}]
    /\ extracted \in [Archives -> SUBSET Archives]
    /\ jsonResults \in [Archives -> ReportFiles]
    /\ sarif \in [Archives -> Namespaces \cup {"none"}]
    /\ parts \in [Threads -> SUBSET Parts]
    /\ uploads \in Nat
    /\ response \in [Threads -> Responses]
    /\ served \in Nat
    /\ overlapped \in BOOLEAN
    /\ crossed \subseteq Archives

NoFile == [json |-> FALSE, of |-> {}]
NoResponse == [ok |-> FALSE, of |-> {}]

ToolInit ==
    /\ at = [t \in Threads |-> "idle"]
    /\ kind = [t \in Threads |-> "other"]
    /\ want = [t \in Threads |-> NoArchive] /\ namespace = [t \in Threads |-> "none"]
    /\ archiveFilename = [p \in Processes |-> NoArchive]
    /\ downloadFolder = FALSE
    /\ downloads = [a \in Archives |-> "none"]
    /\ extractDirectory = [t \in Threads |-> NoArchive]
    /\ outputFile = [t \in Threads |-> NoArchive]
    /\ extracted = [a \in Archives |-> {}]
    /\ jsonResults = [a \in Archives |-> NoFile]
    /\ sarif = [a \in Archives |-> "none"]
    /\ parts = [t \in Threads |-> {}]
    /\ uploads = 0
    /\ response = [t \in Threads |-> NoResponse]
    /\ served = 0
    /\ overlapped = FALSE /\ crossed = {}

-----------------------------------------------------------------------------
Go(t, step) == at' = [at EXCEPT ![t] = step]

(* The request is answered.  An exception is the web server's error page; what
   the request has put on disk stays there. *)
Answer(t, answer) ==
    /\ Go(t, "answered")
    /\ response' = [response EXCEPT ![t] = answer]
Raise(t) == Answer(t, NoResponse)

(* Scans in progress. *)
Scanning(t) == at[t] \in BanditSteps

(* A form arrives.  Each page begins with a step of its own: the scan makes sure
   of the folder for archives, the upload is saved under a name of its own. *)
FirstStep(k) ==
    CASE k = "bandit" -> "asked"
      [] k \in {"squats", "source"} -> "docker"
      [] k = "sample" -> "parts"
      [] k = "upload" -> "upload"
      [] OTHER -> "answered"

AcceptForm(t) ==
    /\ at[t] \in {"idle", "answered"}
    /\ served < MaxRequests
    /\ served' = served + 1
    /\ \E k \in Kinds, a \in Archives, e \in Namespaces :
        /\ kind' = [kind EXCEPT ![t] = k]
        /\ want' = [want EXCEPT ![t] = a]
        /\ namespace' = [namespace EXCEPT ![t] = e]
        /\ Go(t, FirstStep(k))
        /\ downloadFolder' = (downloadFolder \/ k = "bandit")
        /\ uploads' = IF k = "upload" THEN uploads + 1 ELSE uploads
        /\ parts' = IF k = "sample" THEN [parts EXCEPT ![t] = Parts] ELSE parts
        /\ response' = [response EXCEPT ![t] = [ok |-> k # "bandit", of |-> {}]]
        /\ overlapped' = (overlapped \/ (k = "bandit" /\
                \E s \in Threads : Scanning(s) /\ ProcessOf[s] = ProcessOf[t]))
        /\ crossed' = IF k = "bandit" /\ \E s \in Threads : Scanning(s) /\ want[s] = a
                      THEN crossed \cup {a} ELSE crossed
    /\ UNCHANGED <<archiveFilename, downloads, extractDirectory, outputFile, extracted,
                   jsonResults, sarif>>

-----------------------------------------------------------------------------
(* run_bandit4mal.  download_archive: PyPI is asked for the URL of the source
   archive, whose name the manager keeps. *)
NameArchive(t) ==
    /\ at[t] = "asked"
    /\ archiveFilename' = [archiveFilename EXCEPT ![ProcessOf[t]] = want[t]]
    /\ Go(t, "fetch")
    /\ UNCHANGED <<kind, want, namespace, served, downloadFolder, downloads,
                   extractDirectory, outputFile, extracted, jsonResults, sarif, parts,
                   uploads, response, overlapped, crossed>>

(* The archive's file is created, if the folder is still there. *)
OpenArchive(t) ==
    /\ at[t] = "fetch"
    /\ IF downloadFolder
       THEN /\ downloads' = [downloads EXCEPT ![want[t]] = "cut"]
            /\ Go(t, "chunks")
            /\ UNCHANGED response
       ELSE Raise(t) /\ UNCHANGED downloads
    /\ UNCHANGED <<kind, want, namespace, served, archiveFilename, downloadFolder,
                   extractDirectory, outputFile, extracted, jsonResults, sarif, parts,
                   uploads, overlapped, crossed>>

(* The last chunk is written: to a file that is gone, when the folder was removed
   meanwhile, and to one that another scan may be writing. *)
DownloadEnds(t) ==
    /\ at[t] = "chunks"
    /\ \/ downloads[want[t]] = "none" /\ UNCHANGED downloads
       \/ /\ downloads[want[t]] # "none"
          /\ downloads' = [downloads EXCEPT ![want[t]] = "whole"]
       \/ /\ \E s \in Threads \ {t} : at[s] = "chunks" /\ want[s] = want[t]
          /\ UNCHANGED downloads
    /\ Go(t, "fetched")
    /\ UNCHANGED <<kind, want, namespace, served, archiveFilename, downloadFolder,
                   extractDirectory, outputFile, extracted, jsonResults, sarif, parts,
                   uploads, response, overlapped, crossed>>

\* Mutant: every scan extracts to the same folder.
MutGetBaseFilename(t) == CHOOSE a \in Archives : TRUE

(* get_base_filename(): of the archive the process fetched last. *)
GetBaseFilename(t) == archiveFilename[ProcessOf[t]]

NameFolder(t) ==
    /\ at[t] = "fetched"
    /\ extractDirectory' = [extractDirectory EXCEPT ![t] = GetBaseFilename(t)]
    /\ Go(t, "extract")
    /\ UNCHANGED <<kind, want, namespace, served, archiveFilename, downloadFolder, downloads,
                   outputFile, extracted, jsonResults, sarif, parts, uploads, response,
                   overlapped, crossed>>

(* The members are listed first, which an archive cut short does not survive,
   and then written beside what the folder holds. *)
ExtractArchive(t) ==
    /\ at[t] = "extract"
    /\ IF downloads[want[t]] = "whole"
       THEN /\ extracted' = [extracted EXCEPT ![extractDirectory[t]] = @ \cup {want[t]}]
            /\ Go(t, "extracted")
            /\ UNCHANGED response
       ELSE Raise(t) /\ UNCHANGED extracted
    /\ UNCHANGED <<kind, want, namespace, served, archiveFilename, downloadFolder, downloads,
                   extractDirectory, outputFile, jsonResults, sarif, parts, uploads,
                   overlapped, crossed>>

NameOutput(t) ==
    /\ at[t] = "extracted"
    /\ outputFile' = [outputFile EXCEPT ![t] = GetBaseFilename(t)]
    /\ Go(t, "scan")
    /\ UNCHANGED <<kind, want, namespace, served, archiveFilename, downloadFolder, downloads,
                   extractDirectory, extracted, jsonResults, sarif, parts, uploads,
                   response, overlapped, crossed>>

(* bandit scans the folder and writes its report, or dies and leaves the report
   empty.  Its exit code is 1 in both cases when it found something or died of an
   exception; any other but 0 and 1 is raised when the report is read. *)
ScanFolder(t) ==
    /\ at[t] = "scan"
    /\ \E report \in {[json |-> TRUE, of |-> extracted[extractDirectory[t]]], NoFile} :
        jsonResults' = [jsonResults EXCEPT ![outputFile[t]] = report]
    /\ Go(t, "read")
    /\ UNCHANGED <<kind, want, namespace, served, archiveFilename, downloadFolder, downloads,
                   extractDirectory, outputFile, extracted, sarif, parts, uploads, response,
                   overlapped, crossed>>

ReadReport(t) ==
    /\ at[t] = "read"
    /\ IF jsonResults[outputFile[t]].json
       THEN /\ response' = [response EXCEPT
                    ![t] = [ok |-> TRUE, of |-> jsonResults[outputFile[t]].of]]
            /\ Go(t, "cleanup")
       ELSE Raise(t)
    /\ UNCHANGED <<kind, want, namespace, served, banditFiles, sarif, parts, uploads,
                   overlapped, crossed>>

(* The folder and all archives, those of the other scans included, are removed;
   rmtree catches every error. *)
RemoveFolders(t) ==
    /\ at[t] = "cleanup"
    /\ extracted' = [extracted EXCEPT ![extractDirectory[t]] = {}]
    /\ downloadFolder' = FALSE
    /\ downloads' = [a \in Archives |-> "none"]
    /\ Go(t, "answered")
    /\ UNCHANGED <<kind, want, namespace, served, archiveFilename, extractDirectory,
                   outputFile, jsonResults, sarif, parts, uploads, response, overlapped,
                   crossed>>

(* What the scan calls fails (PyPI does not answer or has no source archive, the
   disk is full, bandit is not installed): nothing is cleaned up. *)
ScanRaises(t) ==
    /\ at[t] \in {"asked", "fetch", "chunks", "extract", "scan"}
    /\ Raise(t)
    /\ UNCHANGED <<kind, want, namespace, served, banditFiles, sarif, parts, uploads,
                   overlapped, crossed>>

-----------------------------------------------------------------------------
(* OSSGadget writes its file, unless it has nothing to write; the name of
   oss-find-source's file does not say the ecosystem.  A failure is raised. *)
RunContainer(t) ==
    /\ at[t] = "docker"
    /\ \/ /\ kind[t] = "source"
          /\ sarif' = [sarif EXCEPT ![want[t]] = namespace[t]]
          /\ Go(t, "sarif") /\ UNCHANGED response
       \/ Go(t, "sarif") /\ UNCHANGED <<sarif, response>>
       \/ Raise(t) /\ UNCHANGED sarif
    /\ UNCHANGED <<kind, want, namespace, served, banditFiles, parts, uploads, overlapped,
                   crossed>>

(* The file is read, whoever wrote it; without one the answer is empty.
   oss-find-source forgives a file it cannot read, oss-find-squats does not. *)
ReadSarif(t) ==
    /\ at[t] = "sarif"
    /\ \/ Answer(t, [ok |-> TRUE, of |-> IF kind[t] = "source" /\ sarif[want[t]] = "none"
                                         THEN {} ELSE {want[t]}])
       \/ Answer(t, [ok |-> TRUE, of |-> {}])
       \/ kind[t] = "squats" /\ Raise(t)
    /\ UNCHANGED <<kind, want, namespace, served, banditFiles, sarif, parts, uploads,
                   overlapped, crossed>>

(* submit_sample: a future of the pool ends; the first exception, in the order
   the results are asked for, is raised once all of them have ended. *)
FutureEnds(t) ==
    /\ at[t] = "parts"
    /\ \E p \in parts[t] :
        /\ parts' = [parts EXCEPT ![t] = @ \ {p}]
        /\ sarif' \in {sarif} \cup
                (IF p = "source" THEN {[sarif EXCEPT ![want[t]] = namespace[t]]} ELSE {})
        /\ \E ok \in BOOLEAN :
            response' = [response EXCEPT ![t].ok = @ /\ ok]
    /\ at' = IF parts'[t] = {} THEN [at EXCEPT ![t] = "answered"] ELSE at
    /\ UNCHANGED <<kind, want, namespace, served, banditFiles, uploads, overlapped, crossed>>

(* upload_sample: the file is removed when the analysis is over, and a second
   time by the view; an analysis that raises leaves it. *)
UploadAnalysed(t) ==
    /\ at[t] = "upload"
    /\ \/ uploads' = uploads - 1 /\ Answer(t, [ok |-> TRUE, of |-> {want[t]}])
       \/ Raise(t) /\ UNCHANGED uploads
    /\ UNCHANGED <<kind, want, namespace, served, banditFiles, sarif, parts, overlapped,
                   crossed>>

ToolNext ==
    \E t \in Threads :
        \/ AcceptForm(t) \/ NameArchive(t) \/ OpenArchive(t) \/ DownloadEnds(t)
        \/ NameFolder(t) \/ ExtractArchive(t) \/ NameOutput(t) \/ ScanFolder(t)
        \/ ReadReport(t) \/ RemoveFolders(t) \/ ScanRaises(t)
        \/ RunContainer(t) \/ ReadSarif(t) \/ FutureEnds(t) \/ UploadAnalysed(t)

ToolSpec == ToolInit /\ [][ToolNext]_toolVars

-----------------------------------------------------------------------------
\* The report of a scan: as long as no process has served two scans at a time, a
\* report is about the package that was asked for and no other, although all
\* scans share their folders and a failed one leaves its files there; and it
\* covers the package, unless two processes have scanned that package at once.
OwnBanditReport ==
    ~overlapped =>
        \A t \in Threads :
            kind[t] = "bandit" /\ at[t] = "answered" /\ response[t].ok =>
                /\ response[t].of \subseteq {want[t]}
                /\ want[t] \in response[t].of \/ want[t] \in crossed
=============================================================================
