--------------------------- MODULE AnalyzersProofs ---------------------------
(***************************************************************************)
(* Proofs about the analyzers: the package lists of the submission form    *)
(* and the reports of the pages that run bandit, which several processes   *)
(* share; the verdicts of LastPyMile; the exploration and the alarms of    *)
(* the sandbox script; the reports of bandit and of bandit-baseline; the   *)
(* repository py2src finds.  The runs check them one at a time             *)
(* (Analyzers); each has its own specification here.                       *)
(***************************************************************************)
EXTENDS LastPyMile, SandboxScript, ToolRequests, PackageLists, BanditScan, URLFinder,
        WellFoundedInduction, FiniteSetTheorems, SequenceTheorems, TLAPS

(* A short list has a reason wherever it is kept: in a request, in the file, in
   a process's memo. *)
Reason(g) == g \in Csv \cup shortened

ShortHasReason ==
    /\ \A r \in Readers : names[r] = "short" => Reason(registry[r])
    /\ \A g \in Registries : listFile[g] = "short" => Reason(g)
    /\ \A p \in WebProcesses, g \in Registries : memo[p][g] = "short" => Reason(g)

ListInv == ListTypeOK /\ ShortHasReason

(* What one step of a reader does to the list at hand, the file and the memo. *)
LEMMA ReadGivesContent ==
    ASSUME ListInv, NEW g \in Registries
    PROVE  /\ Content(g) \in {"none", "whole", "short"}
           /\ Content(g) = "short" => Reason(g)
  BY DEF ListInv, ListTypeOK, ShortHasReason, Content, Reason

(* Every step of the package lists keeps their types. *)
LEMMA ListTypeStep ==
    ASSUME ListAssumption, ListTypeOK, [ListNext]_listVars
    PROVE  ListTypeOK'
  <1> USE DEF ListTypeOK
  <1>1. ASSUME NEW r \in Readers, Lookup(r) PROVE ListTypeOK'
    <2>1. PICK g \in Registries :
            /\ registry' = [registry EXCEPT ![r] = g]
            /\ IF memo[ReaderIn[r]][g] # "none" THEN Serve(r, memo[ReaderIn[r]][g])
               ELSE /\ doing' = [doing EXCEPT ![r] = "open"]
                    /\ names' = [names EXCEPT ![r] = "none"]
      BY <1>1 DEF Lookup
    <2>2. memo[ReaderIn[r]][g] \in {"none", "whole", "short"}
      BY ListAssumption DEF ListAssumption
    <2>3. doing' \in [Readers -> {"idle", "open", "fetch", "write", "memo", "served"}]
      BY <2>1 DEF Serve
    <2>4. names' \in [Readers -> {"none", "whole", "short"}]
      BY <2>1, <2>2 DEF Serve
    <2>5. registry' \in [Readers -> Registries] /\ lookups' \in Nat
      BY <1>1, <2>1 DEF Lookup
    <2> QED  BY <1>1, <2>3, <2>4, <2>5 DEF Lookup
  <1>2. ASSUME NEW r \in Readers, ReadFile(r) PROVE ListTypeOK'
    <2>1. Content(registry[r]) \in {"none", "whole", "short"}
      BY DEF Content
    <2> QED  BY <1>2, <2>1 DEF ReadFile, Serve
  <1>3. ASSUME NEW r \in Readers, Fetch(r) PROVE ListTypeOK'
    BY <1>3 DEF Fetch
  <1>4. ASSUME NEW r \in Readers, FetchFails(r) PROVE ListTypeOK'
    BY <1>4 DEF FetchFails
  <1>5. ASSUME NEW r \in Readers, WriteEnds(r) PROVE ListTypeOK'
    BY <1>5 DEF WriteEnds
  <1>6. ASSUME NEW r \in Readers, WriteFails(r) PROVE ListTypeOK'
    <2>1. CASE registry[r] \in {"wolfi", "crates"}
      BY <1>6, <2>1 DEF WriteFails, Serve
    <2>2. CASE registry[r] \notin {"wolfi", "crates"}
      <3>1. /\ doing' = [doing EXCEPT ![r] = "memo"]
            /\ names' = [names EXCEPT ![r] = "short"]
            /\ shortened' = shortened \cup {registry[r]}
            /\ UNCHANGED <<registry, listFile, memo, lookups>>
        BY <1>6, <2>2 DEF WriteFails
      <3> QED  BY <3>1
    <2> QED  BY <2>1, <2>2
  <1>7. ASSUME NEW r \in Readers, Memoise(r) PROVE ListTypeOK'
    BY <1>7, ListAssumption DEF Memoise, Serve, ListAssumption
  <1>8. ASSUME NEW p \in WebProcesses, ProcessDies(p) PROVE ListTypeOK'
    BY <1>8 DEF ProcessDies
  <1>9. CASE UNCHANGED listVars
    BY <1>9 DEF listVars
  <1> QED  BY <1>1, <1>2, <1>3, <1>4, <1>5, <1>6, <1>7, <1>8, <1>9 DEF ListNext

(* Every step keeps the reason of a short list with it. *)
LEMMA ShortStep ==
    ASSUME ListAssumption, ListInv, [ListNext]_listVars
    PROVE  ShortHasReason'
  <1> USE DEF ListInv, ListTypeOK, ShortHasReason, Reason
  <1>1. ASSUME NEW r \in Readers, Lookup(r) PROVE ShortHasReason'
    BY <1>1, ListAssumption DEF Lookup, Serve, ListAssumption
  <1>2. ASSUME NEW r \in Readers, ReadFile(r) PROVE ShortHasReason'
    BY <1>2, ReadGivesContent DEF ReadFile, Serve
  <1>3. ASSUME NEW r \in Readers, Fetch(r) PROVE ShortHasReason'
    BY <1>3 DEF Fetch
  <1>4. ASSUME NEW r \in Readers, FetchFails(r) PROVE ShortHasReason'
    BY <1>4 DEF FetchFails
  <1>5. ASSUME NEW r \in Readers, WriteEnds(r) PROVE ShortHasReason'
    BY <1>5 DEF WriteEnds
  <1>6. ASSUME NEW r \in Readers, WriteFails(r) PROVE ShortHasReason'
    BY <1>6 DEF WriteFails, Serve
  <1>7. ASSUME NEW r \in Readers, Memoise(r) PROVE ShortHasReason'
    BY <1>7, ListAssumption DEF Memoise, Serve, ListAssumption
  <1>8. ASSUME NEW p \in WebProcesses, ProcessDies(p) PROVE ShortHasReason'
    BY <1>8 DEF ProcessDies
  <1>9. CASE UNCHANGED listVars
    BY <1>9 DEF listVars
  <1> QED  BY <1>1, <1>2, <1>3, <1>4, <1>5, <1>6, <1>7, <1>8, <1>9 DEF ListNext

(* Unless a fetch of it came out short or its file could not be written, no
   visitor gets a short list from a registry whose file is JSON, for any number
   of web processes and threads that read, write and die while they write
   (repository_service.py). *)
THEOREM JsonListsAreWhole == ListSpec => []ListsWhole
  <1>1. ListInit => ListInv
    BY DEF ListInit, ListInv, ListTypeOK, ShortHasReason, Registries
  <1>2. ListInv /\ [ListNext]_listVars => ListInv'
    BY ListAssumption, ListTypeStep, ShortStep DEF ListInv
  <1>3. ListInv => ListsWhole
    BY DEF ListInv, ListTypeOK, ShortHasReason, Reason, ListsWhole
  <1> QED  BY <1>1, <1>2, <1>3, PTL DEF ListSpec

-----------------------------------------------------------------------------
(* The part of the state of the pages that a scan depends on. *)
ScanTypeOK ==
    /\ at \in [Threads -> ToolSteps]
    /\ kind \in [Threads -> Kinds]
    /\ want \in [Threads -> Archives \cup {NoArchive}]
    /\ archiveFilename \in [Processes -> Archives \cup {NoArchive}]
    /\ extractDirectory \in [Threads -> Archives \cup {NoArchive}]
    /\ outputFile \in [Threads -> Archives \cup {NoArchive}]
    /\ extracted \in [Archives -> SUBSET Archives]
    /\ jsonResults \in [Archives -> ReportFiles]
    /\ response \in [Threads -> Responses]
    /\ overlapped \in BOOLEAN
    /\ crossed \subseteq Archives

PageSteps == {"docker", "sarif", "parts", "upload"}
NamedSteps == BanditSteps \ {"asked"}
FolderSteps == {"extract", "extracted", "scan", "read", "cleanup"}
OutputSteps == {"scan", "read", "cleanup"}

(* A request is about a package, only a scan takes the steps of one, and the
   names it reads are set by then, its own or not; two scans of one package at a
   time make it crossed. *)
ScansKnown ==
    /\ \A t \in Threads : /\ Scanning(t) => kind[t] = "bandit"
                          /\ at[t] # "idle" => want[t] \in Archives
    /\ \A t \in Threads :
        /\ at[t] \in NamedSteps => archiveFilename[ProcessOf[t]] \in Archives
        /\ at[t] \in FolderSteps => extractDirectory[t] \in Archives
        /\ at[t] \in OutputSteps => outputFile[t] \in Archives
    /\ \A t \in Threads : at[t] \in PageSteps => kind[t] # "bandit"
    /\ \A s, t \in Threads :
        s # t /\ Scanning(s) /\ Scanning(t) /\ want[s] = want[t] => want[t] \in crossed

(* While no process serves two scans at a time, the names that a scan reads from
   what it shares are those of its own archive ... *)
OwnNames ==
    /\ \A s, t \in Threads :
        Scanning(s) /\ Scanning(t) /\ ProcessOf[s] = ProcessOf[t] => s = t
    /\ \A t \in Threads :
        /\ at[t] \in NamedSteps => archiveFilename[ProcessOf[t]] = want[t]
        /\ at[t] \in FolderSteps => extractDirectory[t] = want[t]
        /\ at[t] \in OutputSteps => outputFile[t] = want[t]

(* ... so a folder and a report hold nothing of another archive ... *)
OwnFiles ==
    \A a \in Archives : extracted[a] \subseteq {a} /\ jsonResults[a].of \subseteq {a}

(* ... and what the scan has just put there is still there. *)
FilesKept ==
    \A t \in Threads : want[t] \notin crossed =>
        /\ at[t] \in {"extracted", "scan"} => want[t] \in extracted[want[t]]
        /\ at[t] = "read" /\ jsonResults[want[t]].json => want[t] \in jsonResults[want[t]].of

OwnResponse ==
    \A t \in Threads :
        kind[t] = "bandit" /\ at[t] \in {"cleanup", "answered"} /\ response[t].ok =>
            /\ response[t].of \subseteq {want[t]}
            /\ want[t] \in response[t].of \/ want[t] \in crossed

ScanInv ==
    /\ ScanTypeOK
    /\ ScansKnown
    /\ ~overlapped => OwnNames /\ OwnFiles /\ FilesKept /\ OwnResponse

(* The error page is an answer. *)
LEMMA NoResponseType == NoResponse \in Responses /\ NoResponse.ok = FALSE
  BY DEF NoResponse, Responses

(* A step of a page that does not scan leaves the scans and their files alone. *)
PageEffect(t) ==
    /\ at[t] \in PageSteps
    /\ \E step \in PageSteps \cup {"answered"} : at' = [at EXCEPT ![t] = step]
    /\ \E answer \in Responses : response' = [response EXCEPT ![t] = answer]
    /\ UNCHANGED <<kind, want, overlapped, crossed, banditFiles>>

(* The pages that run OSSGadget, submit a sample or upload one take such steps. *)
LEMMA PageStepEffect ==
    ASSUME ToolAssumption, ScanTypeOK, ScansKnown, NEW t \in Threads,
           RunContainer(t) \/ ReadSarif(t) \/ FutureEnds(t) \/ UploadAnalysed(t)
    PROVE  PageEffect(t)
  <1> USE DEF ScanTypeOK, PageSteps
  <1>0. /\ NoResponse \in Responses /\ response[t] \in Responses
        /\ response = [response EXCEPT ![t] = response[t]]
        /\ at[t] \in PageSteps => at = [at EXCEPT ![t] = at[t]]
    BY DEF Responses, NoResponse
  <1>1. CASE RunContainer(t)
    <2>1. CASE Raise(t)
      BY <1>0, <1>1, <2>1 DEF RunContainer, Raise, Answer, Go, PageEffect
    <2>2. CASE Go(t, "sarif") /\ UNCHANGED response
      BY <1>0, <1>1, <2>2 DEF RunContainer, Go, PageEffect
    <2> QED  BY <1>1, <2>1, <2>2 DEF RunContainer
  <1>2. CASE ReadSarif(t)
    <2>1. PICK answer \in Responses : Answer(t, answer)
      <3>1. [ok |-> TRUE, of |-> {}] \in Responses
        BY DEF Responses
      <3>2. [ok |-> TRUE, of |-> {want[t]}] \in Responses
        BY <1>2 DEF ReadSarif, Responses, ScansKnown
      <3> QED  BY <1>0, <1>2, <3>1, <3>2 DEF ReadSarif, Raise
    <2> QED  BY <1>2, <2>1 DEF ReadSarif, Answer, Go, PageEffect
  <1>3. CASE FutureEnds(t)
    BY <1>0, <1>3 DEF FutureEnds, PageEffect, Responses
  <1>4. CASE UploadAnalysed(t)
    <2>1. [ok |-> TRUE, of |-> {want[t]}] \in Responses
      BY <1>4 DEF UploadAnalysed, Responses, ScansKnown
    <2>2. PICK answer \in Responses : Answer(t, answer)
      BY <1>0, <1>4, <2>1 DEF UploadAnalysed, Raise
    <2> QED  BY <1>4, <2>2 DEF UploadAnalysed, Answer, Go, PageEffect
  <1> QED  BY <1>1, <1>2, <1>3, <1>4

(* Every step of the pages keeps the types of what a scan depends on. *)
LEMMA ScanTypeStep ==
    ASSUME ToolAssumption, ScanTypeOK, ScansKnown, [ToolNext]_toolVars
    PROVE  ScanTypeOK'
  <1> USE ToolAssumption DEF NamedSteps, FolderSteps, OutputSteps, PageSteps,
       ToolAssumption, ScanTypeOK, ToolSteps, BanditSteps, Kinds, ReportFiles, Responses,
       NoResponse, ScansKnown, Scanning
  <1>1. ASSUME NEW t \in Threads, AcceptForm(t) PROVE ScanTypeOK'
    BY <1>1 DEF AcceptForm, Go, Answer, Raise, banditFiles, FirstStep
  <1>2. ASSUME NEW t \in Threads, NameArchive(t) PROVE ScanTypeOK'
    BY <1>2 DEF NameArchive, Go, Answer, Raise, banditFiles
  <1>3. ASSUME NEW t \in Threads, OpenArchive(t) PROVE ScanTypeOK'
    <2>1. at[t] = "fetch" /\ UNCHANGED <<kind, want, archiveFilename, extractDirectory,
                                         outputFile, extracted,
                         jsonResults, overlapped, crossed>>
      BY <1>3 DEF OpenArchive, banditFiles
    <2>2. CASE Go(t, "chunks") /\ UNCHANGED response
      BY <2>1, <2>2, NoResponseType DEF Go
    <2>3. CASE Raise(t)
      BY <2>1, <2>3, NoResponseType DEF Go, Raise, Answer
    <2> QED  BY <1>3, <2>2, <2>3 DEF OpenArchive
  <1>4. ASSUME NEW t \in Threads, DownloadEnds(t) PROVE ScanTypeOK'
    BY <1>4 DEF DownloadEnds, Go, Answer, Raise, banditFiles
  <1>5. ASSUME NEW t \in Threads, NameFolder(t) PROVE ScanTypeOK'
    BY <1>5 DEF NameFolder, Go, Answer, Raise, banditFiles, GetBaseFilename
  <1>6. ASSUME NEW t \in Threads, ExtractArchive(t) PROVE ScanTypeOK'
    <2>1. at[t] = "extract" /\ UNCHANGED <<kind, want, archiveFilename, extractDirectory,
                                           outputFile,
                         jsonResults, overlapped, crossed>>
      BY <1>6 DEF ExtractArchive, banditFiles
    <2>2. CASE /\ extracted' = [extracted EXCEPT ![extractDirectory[t]] = @ \cup {want[t]}]
               /\ Go(t, "extracted")
               /\ UNCHANGED response
      BY <2>1, <2>2, NoResponseType DEF Go
    <2>3. CASE Raise(t) /\ UNCHANGED extracted
      BY <2>1, <2>3, NoResponseType DEF Go, Raise, Answer
    <2> QED  BY <1>6, <2>2, <2>3 DEF ExtractArchive
  <1>7. ASSUME NEW t \in Threads, NameOutput(t) PROVE ScanTypeOK'
    BY <1>7 DEF NameOutput, Go, Answer, Raise, banditFiles, GetBaseFilename
  <1>8. ASSUME NEW t \in Threads, ScanFolder(t) PROVE ScanTypeOK'
    <2>1. /\ [json |-> TRUE, of |-> extracted[extractDirectory[t]]] \in ReportFiles
          /\ NoFile \in ReportFiles
      BY <1>8 DEF ScanFolder, NoFile
    <2>2. PICK report \in ReportFiles :
            jsonResults' = [jsonResults EXCEPT ![outputFile[t]] = report]
      BY ONLY <1>8, <2>1 DEF ScanFolder
    <2> QED  BY <1>8, <2>2 DEF ScanFolder, Go
  <1>9. ASSUME NEW t \in Threads, ReadReport(t) PROVE ScanTypeOK'
    <2>1. at[t] = "read" /\ UNCHANGED <<kind, want, archiveFilename, extractDirectory,
                                        outputFile, extracted,
                         jsonResults, overlapped, crossed>>
      BY <1>9 DEF ReadReport, banditFiles
    <2>2. CASE /\ jsonResults[outputFile[t]].json
               /\ response' = [response EXCEPT
                       ![t] = [ok |-> TRUE, of |-> jsonResults[outputFile[t]].of]]
               /\ Go(t, "cleanup")
      BY <2>1, <2>2, NoResponseType DEF Go
    <2>3. CASE Raise(t)
      BY <2>1, <2>3, NoResponseType DEF Go, Raise, Answer
    <2> QED  BY <1>9, <2>2, <2>3 DEF ReadReport
  <1>10. ASSUME NEW t \in Threads, RemoveFolders(t) PROVE ScanTypeOK'
    BY <1>10 DEF RemoveFolders, Go, Answer, Raise, banditFiles
  <1>11. ASSUME NEW t \in Threads, ScanRaises(t) PROVE ScanTypeOK'
    BY <1>11 DEF ScanRaises, Go, Answer, Raise, banditFiles
  <1>12. ASSUME NEW t \in Threads, RunContainer(t) PROVE ScanTypeOK'
    <2>1. PageEffect(t)
      BY <1>12, PageStepEffect
    <2> QED  BY <2>1 DEF PageEffect, banditFiles
  <1>13. ASSUME NEW t \in Threads, ReadSarif(t) PROVE ScanTypeOK'
    <2>1. PageEffect(t)
      BY <1>13, PageStepEffect
    <2> QED  BY <2>1 DEF PageEffect, banditFiles
  <1>14. ASSUME NEW t \in Threads, FutureEnds(t) PROVE ScanTypeOK'
    <2>1. PageEffect(t)
      BY <1>14, PageStepEffect
    <2> QED  BY <2>1 DEF PageEffect, banditFiles
  <1>15. ASSUME NEW t \in Threads, UploadAnalysed(t) PROVE ScanTypeOK'
    <2>1. PageEffect(t)
      BY <1>15, PageStepEffect
    <2> QED  BY <2>1 DEF PageEffect, banditFiles
  <1>16. CASE UNCHANGED toolVars
    BY <1>16 DEF toolVars, requestVars, banditFiles
  <1> QED  BY <1>1, <1>2, <1>3, <1>4, <1>5, <1>6, <1>7, <1>8, <1>9, <1>10, <1>11, <1>12,
       <1>13, <1>14, <1>15, <1>16 DEF ToolNext

(* Every step keeps count of what is being scanned. *)
LEMMA ScansKnownStep ==
    ASSUME ToolAssumption, ScanTypeOK, ScansKnown, [ToolNext]_toolVars
    PROVE  ScansKnown'
  <1> USE ToolAssumption DEF NamedSteps, FolderSteps, OutputSteps, PageSteps,
       ToolAssumption, ScanTypeOK, ToolSteps, BanditSteps, Kinds, ReportFiles, Responses,
       NoResponse, ScansKnown, Scanning
  <1>1. ASSUME NEW t \in Threads, AcceptForm(t) PROVE ScansKnown'
    BY <1>1 DEF AcceptForm, Go, Answer, Raise, banditFiles, FirstStep
  <1>2. ASSUME NEW t \in Threads, NameArchive(t) PROVE ScansKnown'
    BY <1>2 DEF NameArchive, Go, Answer, Raise, banditFiles
  <1>3. ASSUME NEW t \in Threads, OpenArchive(t) PROVE ScansKnown'
    <2>1. at[t] = "fetch" /\ UNCHANGED <<kind, want, archiveFilename, extractDirectory,
                                         outputFile, extracted,
                         jsonResults, overlapped, crossed>>
      BY <1>3 DEF OpenArchive, banditFiles
    <2>2. CASE Go(t, "chunks") /\ UNCHANGED response
      BY <2>1, <2>2, NoResponseType DEF Go
    <2>3. CASE Raise(t)
      BY <2>1, <2>3, NoResponseType DEF Go, Raise, Answer
    <2> QED  BY <1>3, <2>2, <2>3 DEF OpenArchive
  <1>4. ASSUME NEW t \in Threads, DownloadEnds(t) PROVE ScansKnown'
    BY <1>4 DEF DownloadEnds, Go, Answer, Raise, banditFiles
  <1>5. ASSUME NEW t \in Threads, NameFolder(t) PROVE ScansKnown'
    BY <1>5 DEF NameFolder, Go, Answer, Raise, banditFiles, GetBaseFilename
  <1>6. ASSUME NEW t \in Threads, ExtractArchive(t) PROVE ScansKnown'
    <2>1. at[t] = "extract" /\ UNCHANGED <<kind, want, archiveFilename, extractDirectory,
                                           outputFile,
                         jsonResults, overlapped, crossed>>
      BY <1>6 DEF ExtractArchive, banditFiles
    <2>2. CASE /\ extracted' = [extracted EXCEPT ![extractDirectory[t]] = @ \cup {want[t]}]
               /\ Go(t, "extracted")
               /\ UNCHANGED response
      BY <2>1, <2>2, NoResponseType DEF Go
    <2>3. CASE Raise(t) /\ UNCHANGED extracted
      BY <2>1, <2>3, NoResponseType DEF Go, Raise, Answer
    <2> QED  BY <1>6, <2>2, <2>3 DEF ExtractArchive
  <1>7. ASSUME NEW t \in Threads, NameOutput(t) PROVE ScansKnown'
    BY <1>7 DEF NameOutput, Go, Answer, Raise, banditFiles, GetBaseFilename
  <1>8. ASSUME NEW t \in Threads, ScanFolder(t) PROVE ScansKnown'
    BY <1>8 DEF ScanFolder, Go, Answer, Raise, banditFiles, NoFile
  <1>9. ASSUME NEW t \in Threads, ReadReport(t) PROVE ScansKnown'
    <2>1. at[t] = "read" /\ UNCHANGED <<kind, want, archiveFilename, extractDirectory,
                                        outputFile, extracted,
                         jsonResults, overlapped, crossed>>
      BY <1>9 DEF ReadReport, banditFiles
    <2>2. CASE /\ jsonResults[outputFile[t]].json
               /\ response' = [response EXCEPT
                       ![t] = [ok |-> TRUE, of |-> jsonResults[outputFile[t]].of]]
               /\ Go(t, "cleanup")
      BY <2>1, <2>2, NoResponseType DEF Go
    <2>3. CASE Raise(t)
      BY <2>1, <2>3, NoResponseType DEF Go, Raise, Answer
    <2> QED  BY <1>9, <2>2, <2>3 DEF ReadReport
  <1>10. ASSUME NEW t \in Threads, RemoveFolders(t) PROVE ScansKnown'
    BY <1>10 DEF RemoveFolders, Go, Answer, Raise, banditFiles
  <1>11. ASSUME NEW t \in Threads, ScanRaises(t) PROVE ScansKnown'
    BY <1>11 DEF ScanRaises, Go, Answer, Raise, banditFiles
  <1>12. ASSUME NEW t \in Threads, RunContainer(t) PROVE ScansKnown'
    <2>1. PageEffect(t)
      BY <1>12, PageStepEffect
    <2> QED  BY <2>1 DEF PageEffect, banditFiles
  <1>13. ASSUME NEW t \in Threads, ReadSarif(t) PROVE ScansKnown'
    <2>1. PageEffect(t)
      BY <1>13, PageStepEffect
    <2> QED  BY <2>1 DEF PageEffect, banditFiles
  <1>14. ASSUME NEW t \in Threads, FutureEnds(t) PROVE ScansKnown'
    <2>1. PageEffect(t)
      BY <1>14, PageStepEffect
    <2> QED  BY <2>1 DEF PageEffect, banditFiles
  <1>15. ASSUME NEW t \in Threads, UploadAnalysed(t) PROVE ScansKnown'
    <2>1. PageEffect(t)
      BY <1>15, PageStepEffect
    <2> QED  BY <2>1 DEF PageEffect, banditFiles
  <1>16. CASE UNCHANGED toolVars
    BY <1>16 DEF toolVars, requestVars, banditFiles
  <1> QED  BY <1>1, <1>2, <1>3, <1>4, <1>5, <1>6, <1>7, <1>8, <1>9, <1>10, <1>11, <1>12,
       <1>13, <1>14, <1>15, <1>16 DEF ToolNext

(* As long as scans of one process do not overlap, every step keeps the names of a scan. *)
LEMMA OwnNamesStep ==
    ASSUME ToolAssumption, ScanTypeOK, ScansKnown, OwnNames, ~overlapped',
         [ToolNext]_toolVars
    PROVE  OwnNames'
  <1> USE ToolAssumption DEF NamedSteps, FolderSteps, OutputSteps, PageSteps,
       ToolAssumption, ScanTypeOK, ToolSteps, BanditSteps, Kinds, ReportFiles, Responses,
       NoResponse, ScansKnown, Scanning, OwnNames
  <1>1. ASSUME NEW t \in Threads, AcceptForm(t) PROVE OwnNames'
    <2>1. PICK k \in Kinds, a \in Archives :
            /\ kind' = [kind EXCEPT ![t] = k]
            /\ want' = [want EXCEPT ![t] = a]
            /\ at' = [at EXCEPT ![t] = FirstStep(k)]
            /\ overlapped' = (overlapped \/ (k = "bandit" /\
                    \E s \in Threads : Scanning(s) /\ ProcessOf[s] = ProcessOf[t]))
      BY <1>1 DEF AcceptForm, Go
    <2>2. UNCHANGED <<archiveFilename, extractDirectory, outputFile>> /\ ~Scanning(t)
      BY <1>1 DEF AcceptForm
    <2>3. k = "bandit" => \A s \in Threads : Scanning(s) => ProcessOf[s] # ProcessOf[t]
      BY <2>1
    <2>4. k # "bandit" => FirstStep(k) \notin BanditSteps
      BY DEF FirstStep
    <2>5. FirstStep(k) \notin NamedSteps \cup FolderSteps \cup OutputSteps
      BY DEF FirstStep
    <2>6. \A s \in Threads \ {t} : at'[s] = at[s] /\ want'[s] = want[s]
      BY <2>1
    <2>7. at'[t] = FirstStep(k)
      BY <2>1
    <2>8. ASSUME NEW s \in Threads, NEW u \in Threads, Scanning(s)', Scanning(u)',
                 ProcessOf[s] = ProcessOf[u]
          PROVE  s = u
      <3>1. CASE s = t \/ u = t
        BY <2>3, <2>4, <2>6, <2>7, <2>8, <3>1
      <3>2. CASE s # t /\ u # t
        BY <2>6, <2>8, <3>2
      <3> QED  BY <3>1, <3>2
    <2>9. ASSUME NEW s \in Threads
          PROVE  /\ at'[s] \in NamedSteps => archiveFilename'[ProcessOf[s]] = want'[s]
                 /\ at'[s] \in FolderSteps => extractDirectory'[s] = want'[s]
                 /\ at'[s] \in OutputSteps => outputFile'[s] = want'[s]
      BY <2>2, <2>5, <2>6, <2>7, <2>9
    <2> QED  BY <2>8, <2>9
  <1>2. ASSUME NEW t \in Threads, NameArchive(t) PROVE OwnNames'
    BY <1>2 DEF NameArchive, Go, Answer, Raise, banditFiles
  <1>3. ASSUME NEW t \in Threads, OpenArchive(t) PROVE OwnNames'
    <2>1. at[t] = "fetch" /\ UNCHANGED <<kind, want, archiveFilename, extractDirectory,
                                         outputFile, extracted,
                         jsonResults, overlapped, crossed>>
      BY <1>3 DEF OpenArchive, banditFiles
    <2>2. CASE Go(t, "chunks") /\ UNCHANGED response
      BY <2>1, <2>2, NoResponseType DEF Go
    <2>3. CASE Raise(t)
      BY <2>1, <2>3, NoResponseType DEF Go, Raise, Answer
    <2> QED  BY <1>3, <2>2, <2>3 DEF OpenArchive
  <1>4. ASSUME NEW t \in Threads, DownloadEnds(t) PROVE OwnNames'
    BY <1>4 DEF DownloadEnds, Go, Answer, Raise, banditFiles
  <1>5. ASSUME NEW t \in Threads, NameFolder(t) PROVE OwnNames'
    BY <1>5 DEF NameFolder, Go, Answer, Raise, banditFiles, GetBaseFilename
  <1>6. ASSUME NEW t \in Threads, ExtractArchive(t) PROVE OwnNames'
    <2>1. at[t] = "extract" /\ UNCHANGED <<kind, want, archiveFilename, extractDirectory,
                                           outputFile,
                         jsonResults, overlapped, crossed>>
      BY <1>6 DEF ExtractArchive, banditFiles
    <2>2. CASE /\ extracted' = [extracted EXCEPT ![extractDirectory[t]] = @ \cup {want[t]}]
               /\ Go(t, "extracted")
               /\ UNCHANGED response
      BY <2>1, <2>2, NoResponseType DEF Go
    <2>3. CASE Raise(t) /\ UNCHANGED extracted
      BY <2>1, <2>3, NoResponseType DEF Go, Raise, Answer
    <2> QED  BY <1>6, <2>2, <2>3 DEF ExtractArchive
  <1>7. ASSUME NEW t \in Threads, NameOutput(t) PROVE OwnNames'
    BY <1>7 DEF NameOutput, Go, Answer, Raise, banditFiles, GetBaseFilename
  <1>8. ASSUME NEW t \in Threads, ScanFolder(t) PROVE OwnNames'
    BY <1>8 DEF ScanFolder, Go, Answer, Raise, banditFiles, NoFile
  <1>9. ASSUME NEW t \in Threads, ReadReport(t) PROVE OwnNames'
    <2>1. at[t] = "read" /\ UNCHANGED <<kind, want, archiveFilename, extractDirectory,
                                        outputFile, extracted,
                         jsonResults, overlapped, crossed>>
      BY <1>9 DEF ReadReport, banditFiles
    <2>2. CASE /\ jsonResults[outputFile[t]].json
               /\ response' = [response EXCEPT
                       ![t] = [ok |-> TRUE, of |-> jsonResults[outputFile[t]].of]]
               /\ Go(t, "cleanup")
      BY <2>1, <2>2, NoResponseType DEF Go
    <2>3. CASE Raise(t)
      BY <2>1, <2>3, NoResponseType DEF Go, Raise, Answer
    <2> QED  BY <1>9, <2>2, <2>3 DEF ReadReport
  <1>10. ASSUME NEW t \in Threads, RemoveFolders(t) PROVE OwnNames'
    BY <1>10 DEF RemoveFolders, Go, Answer, Raise, banditFiles
  <1>11. ASSUME NEW t \in Threads, ScanRaises(t) PROVE OwnNames'
    BY <1>11 DEF ScanRaises, Go, Answer, Raise, banditFiles
  <1>12. ASSUME NEW t \in Threads, RunContainer(t) PROVE OwnNames'
    <2>1. PageEffect(t)
      BY <1>12, PageStepEffect
    <2> QED  BY <2>1 DEF PageEffect, banditFiles
  <1>13. ASSUME NEW t \in Threads, ReadSarif(t) PROVE OwnNames'
    <2>1. PageEffect(t)
      BY <1>13, PageStepEffect
    <2> QED  BY <2>1 DEF PageEffect, banditFiles
  <1>14. ASSUME NEW t \in Threads, FutureEnds(t) PROVE OwnNames'
    <2>1. PageEffect(t)
      BY <1>14, PageStepEffect
    <2> QED  BY <2>1 DEF PageEffect, banditFiles
  <1>15. ASSUME NEW t \in Threads, UploadAnalysed(t) PROVE OwnNames'
    <2>1. PageEffect(t)
      BY <1>15, PageStepEffect
    <2> QED  BY <2>1 DEF PageEffect, banditFiles
  <1>16. CASE UNCHANGED toolVars
    BY <1>16 DEF toolVars, requestVars, banditFiles
  <1> QED  BY <1>1, <1>2, <1>3, <1>4, <1>5, <1>6, <1>7, <1>8, <1>9, <1>10, <1>11, <1>12,
       <1>13, <1>14, <1>15, <1>16 DEF ToolNext

(* As long as scans of one process do not overlap, no step mixes archives. *)
LEMMA OwnFilesStep ==
    ASSUME ToolAssumption, ScanTypeOK, ScansKnown, OwnNames, OwnFiles, ~overlapped',
         [ToolNext]_toolVars
    PROVE  OwnFiles'
  <1> USE ToolAssumption DEF NamedSteps, FolderSteps, OutputSteps, PageSteps,
       ToolAssumption, ScanTypeOK, ToolSteps, BanditSteps, Kinds, ReportFiles, Responses,
       NoResponse, ScansKnown, Scanning, OwnNames, OwnFiles
  <1>1. ASSUME NEW t \in Threads, AcceptForm(t) PROVE OwnFiles'
    BY <1>1 DEF AcceptForm, Go, Answer, Raise, banditFiles, FirstStep
  <1>2. ASSUME NEW t \in Threads, NameArchive(t) PROVE OwnFiles'
    BY <1>2 DEF NameArchive, Go, Answer, Raise, banditFiles
  <1>3. ASSUME NEW t \in Threads, OpenArchive(t) PROVE OwnFiles'
    <2>1. at[t] = "fetch" /\ UNCHANGED <<kind, want, archiveFilename, extractDirectory,
                                         outputFile, extracted,
                         jsonResults, overlapped, crossed>>
      BY <1>3 DEF OpenArchive, banditFiles
    <2>2. CASE Go(t, "chunks") /\ UNCHANGED response
      BY <2>1, <2>2, NoResponseType DEF Go
    <2>3. CASE Raise(t)
      BY <2>1, <2>3, NoResponseType DEF Go, Raise, Answer
    <2> QED  BY <1>3, <2>2, <2>3 DEF OpenArchive
  <1>4. ASSUME NEW t \in Threads, DownloadEnds(t) PROVE OwnFiles'
    BY <1>4 DEF DownloadEnds, Go, Answer, Raise, banditFiles
  <1>5. ASSUME NEW t \in Threads, NameFolder(t) PROVE OwnFiles'
    BY <1>5 DEF NameFolder, Go, Answer, Raise, banditFiles, GetBaseFilename
  <1>6. ASSUME NEW t \in Threads, ExtractArchive(t) PROVE OwnFiles'
    <2>1. at[t] = "extract" /\ UNCHANGED <<kind, want, archiveFilename, extractDirectory,
                                           outputFile,
                         jsonResults, overlapped, crossed>>
      BY <1>6 DEF ExtractArchive, banditFiles
    <2>2. CASE /\ extracted' = [extracted EXCEPT ![extractDirectory[t]] = @ \cup {want[t]}]
               /\ Go(t, "extracted")
               /\ UNCHANGED response
      BY <2>1, <2>2, NoResponseType DEF Go
    <2>3. CASE Raise(t) /\ UNCHANGED extracted
      BY <2>1, <2>3, NoResponseType DEF Go, Raise, Answer
    <2> QED  BY <1>6, <2>2, <2>3 DEF ExtractArchive
  <1>7. ASSUME NEW t \in Threads, NameOutput(t) PROVE OwnFiles'
    BY <1>7 DEF NameOutput, Go, Answer, Raise, banditFiles, GetBaseFilename
  <1>8. ASSUME NEW t \in Threads, ScanFolder(t) PROVE OwnFiles'
    BY <1>8 DEF ScanFolder, Go, Answer, Raise, banditFiles, NoFile
  <1>9. ASSUME NEW t \in Threads, ReadReport(t) PROVE OwnFiles'
    <2>1. at[t] = "read" /\ UNCHANGED <<kind, want, archiveFilename, extractDirectory,
                                        outputFile, extracted,
                         jsonResults, overlapped, crossed>>
      BY <1>9 DEF ReadReport, banditFiles
    <2>2. CASE /\ jsonResults[outputFile[t]].json
               /\ response' = [response EXCEPT
                       ![t] = [ok |-> TRUE, of |-> jsonResults[outputFile[t]].of]]
               /\ Go(t, "cleanup")
      BY <2>1, <2>2, NoResponseType DEF Go
    <2>3. CASE Raise(t)
      BY <2>1, <2>3, NoResponseType DEF Go, Raise, Answer
    <2> QED  BY <1>9, <2>2, <2>3 DEF ReadReport
  <1>10. ASSUME NEW t \in Threads, RemoveFolders(t) PROVE OwnFiles'
    BY <1>10 DEF RemoveFolders, Go, Answer, Raise, banditFiles
  <1>11. ASSUME NEW t \in Threads, ScanRaises(t) PROVE OwnFiles'
    BY <1>11 DEF ScanRaises, Go, Answer, Raise, banditFiles
  <1>12. ASSUME NEW t \in Threads, RunContainer(t) PROVE OwnFiles'
    <2>1. PageEffect(t)
      BY <1>12, PageStepEffect
    <2> QED  BY <2>1 DEF PageEffect, banditFiles
  <1>13. ASSUME NEW t \in Threads, ReadSarif(t) PROVE OwnFiles'
    <2>1. PageEffect(t)
      BY <1>13, PageStepEffect
    <2> QED  BY <2>1 DEF PageEffect, banditFiles
  <1>14. ASSUME NEW t \in Threads, FutureEnds(t) PROVE OwnFiles'
    <2>1. PageEffect(t)
      BY <1>14, PageStepEffect
    <2> QED  BY <2>1 DEF PageEffect, banditFiles
  <1>15. ASSUME NEW t \in Threads, UploadAnalysed(t) PROVE OwnFiles'
    <2>1. PageEffect(t)
      BY <1>15, PageStepEffect
    <2> QED  BY <2>1 DEF PageEffect, banditFiles
  <1>16. CASE UNCHANGED toolVars
    BY <1>16 DEF toolVars, requestVars, banditFiles
  <1> QED  BY <1>1, <1>2, <1>3, <1>4, <1>5, <1>6, <1>7, <1>8, <1>9, <1>10, <1>11, <1>12,
       <1>13, <1>14, <1>15, <1>16 DEF ToolNext

(* As long as scans of one process do not overlap, no step removes what a scan put into a folder that is its own. *)
LEMMA FilesKeptStep ==
    ASSUME ToolAssumption, ScanTypeOK, ScansKnown, OwnNames, OwnFiles, FilesKept,
         ~overlapped', [ToolNext]_toolVars
    PROVE  FilesKept'
  <1> USE ToolAssumption DEF NamedSteps, FolderSteps, OutputSteps, PageSteps,
       ToolAssumption, ScanTypeOK, ToolSteps, BanditSteps, Kinds, ReportFiles, Responses,
       NoResponse, ScansKnown, Scanning, OwnNames, FilesKept
  <1>1. ASSUME NEW t \in Threads, AcceptForm(t) PROVE FilesKept'
    BY <1>1 DEF AcceptForm, Go, Answer, Raise, banditFiles, FirstStep
  <1>2. ASSUME NEW t \in Threads, NameArchive(t) PROVE FilesKept'
    BY <1>2 DEF NameArchive, Go, Answer, Raise, banditFiles
  <1>3. ASSUME NEW t \in Threads, OpenArchive(t) PROVE FilesKept'
    <2>1. at[t] = "fetch" /\ UNCHANGED <<kind, want, archiveFilename, extractDirectory,
                                         outputFile, extracted,
                         jsonResults, overlapped, crossed>>
      BY <1>3 DEF OpenArchive, banditFiles
    <2>2. CASE Go(t, "chunks") /\ UNCHANGED response
      BY <2>1, <2>2, NoResponseType DEF Go
    <2>3. CASE Raise(t)
      BY <2>1, <2>3, NoResponseType DEF Go, Raise, Answer
    <2> QED  BY <1>3, <2>2, <2>3 DEF OpenArchive
  <1>4. ASSUME NEW t \in Threads, DownloadEnds(t) PROVE FilesKept'
    BY <1>4 DEF DownloadEnds, Go, Answer, Raise, banditFiles
  <1>5. ASSUME NEW t \in Threads, NameFolder(t) PROVE FilesKept'
    BY <1>5 DEF NameFolder, Go, Answer, Raise, banditFiles, GetBaseFilename
  <1>6. ASSUME NEW t \in Threads, ExtractArchive(t) PROVE FilesKept'
    <2>1. at[t] = "extract" /\ UNCHANGED <<kind, want, archiveFilename, extractDirectory,
                                           outputFile,
                         jsonResults, overlapped, crossed>>
      BY <1>6 DEF ExtractArchive, banditFiles
    <2>2. CASE /\ extracted' = [extracted EXCEPT ![extractDirectory[t]] = @ \cup {want[t]}]
               /\ Go(t, "extracted")
               /\ UNCHANGED response
      BY <2>1, <2>2, NoResponseType DEF Go
    <2>3. CASE Raise(t) /\ UNCHANGED extracted
      BY <2>1, <2>3, NoResponseType DEF Go, Raise, Answer
    <2> QED  BY <1>6, <2>2, <2>3 DEF ExtractArchive
  <1>7. ASSUME NEW t \in Threads, NameOutput(t) PROVE FilesKept'
    BY <1>7 DEF NameOutput, Go, Answer, Raise, banditFiles, GetBaseFilename
  <1>8. ASSUME NEW t \in Threads, ScanFolder(t) PROVE FilesKept'
    BY <1>8 DEF ScanFolder, Go, Answer, Raise, banditFiles, NoFile
  <1>9. ASSUME NEW t \in Threads, ReadReport(t) PROVE FilesKept'
    <2>1. at[t] = "read" /\ UNCHANGED <<kind, want, archiveFilename, extractDirectory,
                                        outputFile, extracted,
                         jsonResults, overlapped, crossed>>
      BY <1>9 DEF ReadReport, banditFiles
    <2>2. CASE /\ jsonResults[outputFile[t]].json
               /\ response' = [response EXCEPT
                       ![t] = [ok |-> TRUE, of |-> jsonResults[outputFile[t]].of]]
               /\ Go(t, "cleanup")
      BY <2>1, <2>2, NoResponseType DEF Go
    <2>3. CASE Raise(t)
      BY <2>1, <2>3, NoResponseType DEF Go, Raise, Answer
    <2> QED  BY <1>9, <2>2, <2>3 DEF ReadReport
  <1>10. ASSUME NEW t \in Threads, RemoveFolders(t) PROVE FilesKept'
    BY <1>10 DEF RemoveFolders, Go, Answer, Raise, banditFiles
  <1>11. ASSUME NEW t \in Threads, ScanRaises(t) PROVE FilesKept'
    BY <1>11 DEF ScanRaises, Go, Answer, Raise, banditFiles
  <1>12. ASSUME NEW t \in Threads, RunContainer(t) PROVE FilesKept'
    <2>1. PageEffect(t)
      BY <1>12, PageStepEffect
    <2> QED  BY <2>1 DEF PageEffect, banditFiles
  <1>13. ASSUME NEW t \in Threads, ReadSarif(t) PROVE FilesKept'
    <2>1. PageEffect(t)
      BY <1>13, PageStepEffect
    <2> QED  BY <2>1 DEF PageEffect, banditFiles
  <1>14. ASSUME NEW t \in Threads, FutureEnds(t) PROVE FilesKept'
    <2>1. PageEffect(t)
      BY <1>14, PageStepEffect
    <2> QED  BY <2>1 DEF PageEffect, banditFiles
  <1>15. ASSUME NEW t \in Threads, UploadAnalysed(t) PROVE FilesKept'
    <2>1. PageEffect(t)
      BY <1>15, PageStepEffect
    <2> QED  BY <2>1 DEF PageEffect, banditFiles
  <1>16. CASE UNCHANGED toolVars
    BY <1>16 DEF toolVars, requestVars, banditFiles
  <1> QED  BY <1>1, <1>2, <1>3, <1>4, <1>5, <1>6, <1>7, <1>8, <1>9, <1>10, <1>11, <1>12,
       <1>13, <1>14, <1>15, <1>16 DEF ToolNext

(* As long as scans of one process do not overlap, every answer is about its own archive. *)
LEMMA OwnResponseStep ==
    ASSUME ToolAssumption, ScanTypeOK, ScansKnown, OwnNames, OwnFiles, FilesKept,
         OwnResponse, ~overlapped', [ToolNext]_toolVars
    PROVE  OwnResponse'
  <1> USE ToolAssumption DEF NamedSteps, FolderSteps, OutputSteps, PageSteps,
       ToolAssumption, ScanTypeOK, ToolSteps, BanditSteps, Kinds, ReportFiles, Responses,
       NoResponse, ScansKnown, Scanning, OwnNames, OwnFiles, FilesKept, OwnResponse
  <1>1. ASSUME NEW t \in Threads, AcceptForm(t) PROVE OwnResponse'
    BY <1>1 DEF AcceptForm, Go, Answer, Raise, banditFiles, FirstStep
  <1>2. ASSUME NEW t \in Threads, NameArchive(t) PROVE OwnResponse'
    BY <1>2 DEF NameArchive, Go, Answer, Raise, banditFiles
  <1>3. ASSUME NEW t \in Threads, OpenArchive(t) PROVE OwnResponse'
    <2>1. at[t] = "fetch" /\ UNCHANGED <<kind, want, archiveFilename, extractDirectory,
                                         outputFile, extracted,
                         jsonResults, overlapped, crossed>>
      BY <1>3 DEF OpenArchive, banditFiles
    <2>2. CASE Go(t, "chunks") /\ UNCHANGED response
      BY <2>1, <2>2, NoResponseType DEF Go
    <2>3. CASE Raise(t)
      BY <2>1, <2>3, NoResponseType DEF Go, Raise, Answer
    <2> QED  BY <1>3, <2>2, <2>3 DEF OpenArchive
  <1>4. ASSUME NEW t \in Threads, DownloadEnds(t) PROVE OwnResponse'
    BY <1>4 DEF DownloadEnds, Go, Answer, Raise, banditFiles
  <1>5. ASSUME NEW t \in Threads, NameFolder(t) PROVE OwnResponse'
    BY <1>5 DEF NameFolder, Go, Answer, Raise, banditFiles, GetBaseFilename
  <1>6. ASSUME NEW t \in Threads, ExtractArchive(t) PROVE OwnResponse'
    <2>1. at[t] = "extract" /\ UNCHANGED <<kind, want, archiveFilename, extractDirectory,
                                           outputFile,
                         jsonResults, overlapped, crossed>>
      BY <1>6 DEF ExtractArchive, banditFiles
    <2>2. CASE /\ extracted' = [extracted EXCEPT ![extractDirectory[t]] = @ \cup {want[t]}]
               /\ Go(t, "extracted")
               /\ UNCHANGED response
      BY <2>1, <2>2, NoResponseType DEF Go
    <2>3. CASE Raise(t) /\ UNCHANGED extracted
      BY <2>1, <2>3, NoResponseType DEF Go, Raise, Answer
    <2> QED  BY <1>6, <2>2, <2>3 DEF ExtractArchive
  <1>7. ASSUME NEW t \in Threads, NameOutput(t) PROVE OwnResponse'
    BY <1>7 DEF NameOutput, Go, Answer, Raise, banditFiles, GetBaseFilename
  <1>8. ASSUME NEW t \in Threads, ScanFolder(t) PROVE OwnResponse'
    BY <1>8 DEF ScanFolder, Go, Answer, Raise, banditFiles, NoFile
  <1>9. ASSUME NEW t \in Threads, ReadReport(t) PROVE OwnResponse'
    <2>1. at[t] = "read" /\ UNCHANGED <<kind, want, archiveFilename, extractDirectory,
                                        outputFile, extracted,
                         jsonResults, overlapped, crossed>>
      BY <1>9 DEF ReadReport, banditFiles
    <2>2. CASE /\ jsonResults[outputFile[t]].json
               /\ response' = [response EXCEPT
                       ![t] = [ok |-> TRUE, of |-> jsonResults[outputFile[t]].of]]
               /\ Go(t, "cleanup")
      BY <2>1, <2>2, NoResponseType DEF Go
    <2>3. CASE Raise(t)
      BY <2>1, <2>3, NoResponseType DEF Go, Raise, Answer
    <2> QED  BY <1>9, <2>2, <2>3 DEF ReadReport
  <1>10. ASSUME NEW t \in Threads, RemoveFolders(t) PROVE OwnResponse'
    BY <1>10 DEF RemoveFolders, Go, Answer, Raise, banditFiles
  <1>11. ASSUME NEW t \in Threads, ScanRaises(t) PROVE OwnResponse'
    BY <1>11 DEF ScanRaises, Go, Answer, Raise, banditFiles
  <1>12. ASSUME NEW t \in Threads, RunContainer(t) PROVE OwnResponse'
    <2>1. PageEffect(t)
      BY <1>12, PageStepEffect
    <2> QED  BY <2>1 DEF PageEffect, banditFiles
  <1>13. ASSUME NEW t \in Threads, ReadSarif(t) PROVE OwnResponse'
    <2>1. PageEffect(t)
      BY <1>13, PageStepEffect
    <2> QED  BY <2>1 DEF PageEffect, banditFiles
  <1>14. ASSUME NEW t \in Threads, FutureEnds(t) PROVE OwnResponse'
    <2>1. PageEffect(t)
      BY <1>14, PageStepEffect
    <2> QED  BY <2>1 DEF PageEffect, banditFiles
  <1>15. ASSUME NEW t \in Threads, UploadAnalysed(t) PROVE OwnResponse'
    <2>1. PageEffect(t)
      BY <1>15, PageStepEffect
    <2> QED  BY <2>1 DEF PageEffect, banditFiles
  <1>16. CASE UNCHANGED toolVars
    BY <1>16 DEF toolVars, requestVars, banditFiles
  <1> QED  BY <1>1, <1>2, <1>3, <1>4, <1>5, <1>6, <1>7, <1>8, <1>9, <1>10, <1>11, <1>12,
       <1>13, <1>14, <1>15, <1>16 DEF ToolNext

(* Scans of one process that have overlapped stay so. *)
LEMMA OverlapStays ==
    ASSUME ScanTypeOK, [ToolNext]_toolVars, ~overlapped'
    PROVE  ~overlapped
  <1>1. ASSUME NEW t \in Threads, AcceptForm(t) PROVE overlapped => overlapped'
    BY <1>1 DEF AcceptForm
  <1>3. CASE UNCHANGED overlapped
    BY <1>3
  <1>4. ToolNext => UNCHANGED overlapped \/ \E t \in Threads : AcceptForm(t)
    BY DEF ToolNext, NameArchive, OpenArchive, DownloadEnds,
         NameFolder, ExtractArchive, NameOutput, ScanFolder, ReadReport, RemoveFolders,
         ScanRaises, RunContainer, ReadSarif, FutureEnds, UploadAnalysed
  <1> QED  BY <1>1, <1>3, <1>4 DEF toolVars

(* The report of a scan is about the package asked for, and covers it, for any
   number of threads and processes that share the folders under /tmp, as long as
   no process serves two scans at a time (run_bandit4mal). *)
THEOREM BanditReportsAreOwn == ToolSpec => []OwnBanditReport
  <1>1. ToolInit => ScanInv
    <2> SUFFICES ASSUME ToolInit PROVE ScanInv
      OBVIOUS
    <2>1. ScanTypeOK
      BY ToolAssumption DEF ToolInit, ScanTypeOK, ToolSteps, Kinds, ReportFiles,
           Responses,
            NoFile, NoResponse, ToolAssumption
    <2>2. \A t \in Threads : ~Scanning(t) /\ at[t] = "idle" /\ kind[t] = "other"
      BY DEF ToolInit, Scanning, BanditSteps
    <2>3. ScansKnown /\ OwnNames /\ OwnResponse /\ FilesKept
      BY <2>2 DEF ScansKnown, OwnNames, OwnResponse, FilesKept, NamedSteps, FolderSteps,
            OutputSteps, BanditSteps
    <2>4. OwnFiles
      BY DEF ToolInit, OwnFiles, NoFile
    <2> QED  BY <2>1, <2>3, <2>4 DEF ScanInv
  <1>2. ScanInv /\ [ToolNext]_toolVars => ScanInv'
    <2> SUFFICES ASSUME ScanInv, [ToolNext]_toolVars PROVE ScanInv'
      OBVIOUS
    <2>1. ScanTypeOK' /\ ScansKnown'
      BY ToolAssumption, ScanTypeStep, ScansKnownStep DEF ScanInv
    <2>2. ASSUME ~overlapped' PROVE OwnNames' /\ OwnFiles' /\ FilesKept' /\ OwnResponse'
      <3>1. OwnNames /\ OwnFiles /\ FilesKept /\ OwnResponse
        BY <2>2, OverlapStays DEF ScanInv
      <3> QED  BY <2>2, <3>1, ToolAssumption, OwnNamesStep, OwnFilesStep, FilesKeptStep,
                  OwnResponseStep DEF ScanInv
    <2> QED  BY <2>1, <2>2 DEF ScanInv
  <1>3. ScanInv => OwnBanditReport
    BY DEF ScanInv, OwnResponse, OwnBanditReport
  <1> QED  BY <1>1, <1>2, <1>3, PTL DEF ToolSpec

-----------------------------------------------------------------------------
(* LastPyMile.  What the scan of the commits has collected: the hashes of the
   files each scanned commit introduced, and nothing that no commit holds. *)
HashesComplete ==
    \A c \in scanned, f \in Files :
        f \in FilesToHash(c) => sourceHashes[history[c][f]] # 0

HashesSound == \A x \in Contents : sourceHashes[x] # 0 => InHistory(x)

(* A release is looked at only when every commit has been scanned. *)
AllScanned == lpm \in {"loop", "unpack", "analyze"} => scanned = Commits

(* Of what is left on disk: a cut file only while it is being fetched, the
   temporary folder only while the analysis runs. *)
CutWhileFetched ==
    \A r \in Releases : cacheFile[r] = "partial" => lpm = "unpack" /\ release = r

ReleaseAtHand == lpm \in {"unpack", "analyze"} => release \in Supported

LpmInv ==
    /\ LpmTypeOK
    /\ HashesComplete
    /\ HashesSound
    /\ AllScanned
    /\ PhantomsAreReal
    /\ ReleaseAtHand
    /\ CutWhileFetched
    /\ CleanEnd

(* A nonempty set of commits has an oldest one. *)
LEMMA OldestCommit ==
    ASSUME LpmAssumption, NEW S, S \subseteq Commits, S # {}
    PROVE  \E c \in S : \A d \in S : ~(d < c)
  <1>1. S \subseteq Nat
    BY DEF LpmAssumption
  <1>2. \E c \in S : \A d \in S : ~(<<d, c>> \in OpToRel(<, Nat))
    BY <1>1, NatLessThanWellFounded, WFMin
  <1> QED  BY <1>1, <1>2 DEF OpToRel

(* Hashing what each commit changed is enough: once every commit has been
   scanned, the content of every source file of every commit is known. *)
LEMMA ChangesCoverHistory ==
    ASSUME LpmAssumption, LpmTypeOK, HashesComplete, scanned = Commits,
           NEW x \in Contents, InHistory(x)
    PROVE  sourceHashes[x] # 0
  <1>1. PICK b \in Commits, f \in Processable : history[b][f] = x
    BY DEF InHistory
  <1> DEFINE S == {c \in Commits : history[c][f] = x}
  <1>2. PICK c \in S : \A d \in S : ~(d < c)
    BY <1>1, OldestCommit
  <1>3. ParentTree(c)[f] # x
    BY <1>2 DEF ParentTree, LpmAssumption
  <1>4. f \in FilesToHash(c)
    BY <1>2, <1>3 DEF FilesToHash, StatsFiles, LpmAssumption
  <1> QED  BY <1>2, <1>4 DEF HashesComplete, LpmAssumption

(* Every step of an analysis keeps the types. *)
LEMMA LpmTypeStep ==
    ASSUME LpmAssumption, LpmTypeOK, LpmInv, [LpmNext]_lpmVars
    PROVE  LpmTypeOK'
  <1> USE LpmAssumption DEF LpmAssumption, LpmTypeOK, LpmSteps, Lists, NoResult
  <1>1. CASE PackageNotFound
    BY <1>1 DEF PackageNotFound
  <1>2. CASE StartAnalysis
    BY <1>2 DEF StartAnalysis
  <1>3. CASE SelectReleases
    BY <1>3 DEF SelectReleases
  <1>4. CASE PrepareSources
    BY <1>4 DEF PrepareSources
  <1>5. ASSUME NEW c \in Commits, ScanCommit(c) PROVE LpmTypeOK'
    BY <1>5 DEF ScanCommit, CheckoutCommit
  <1>6. CASE ScanFails
    BY <1>6 DEF ScanFails
  <1>7. CASE ScanEnds
    BY <1>7 DEF ScanEnds
  <1>8. CASE NextRelease
    BY <1>8 DEF NextRelease
  <1>9. CASE DownloadFails
    BY <1>9 DEF DownloadFails, Discard
  <1>10. CASE Unpack
    BY <1>10 DEF Unpack
  <1>11. CASE AnalyzeRelease
    BY <1>11 DEF AnalyzeRelease, LpmInv, RiskList
  <1>12. CASE BanditFails
    BY <1>12 DEF BanditFails
  <1>13. CASE ReleasesEnd
    BY <1>13 DEF ReleasesEnd
  <1>14. CASE FinishAnalysis
    BY <1>14 DEF FinishAnalysis
  <1>15. CASE UNCHANGED lpmVars
    BY <1>15 DEF lpmVars
  <1> QED  BY <1>1, <1>2, <1>3, <1>4, <1>5, <1>6, <1>7, <1>8, <1>9, <1>10, <1>11, <1>12,
       <1>13, <1>14, <1>15 DEF LpmNext

(* Every step keeps the hashes of the commits scanned so far. *)
LEMMA HashesCompleteStep ==
    ASSUME LpmAssumption, LpmTypeOK, HashesComplete, [LpmNext]_lpmVars
    PROVE  HashesComplete'
  <1> USE LpmAssumption DEF LpmAssumption, LpmTypeOK, LpmSteps, HashesComplete,
       FilesToHash, StatsFiles, ParentTree
  <1>1. CASE PackageNotFound
    BY <1>1 DEF PackageNotFound
  <1>2. CASE StartAnalysis
    BY <1>2 DEF StartAnalysis
  <1>3. CASE SelectReleases
    BY <1>3 DEF SelectReleases
  <1>4. CASE PrepareSources
    BY <1>4 DEF PrepareSources
  <1>5. ASSUME NEW c \in Commits, ScanCommit(c) PROVE HashesComplete'
    BY <1>5 DEF ScanCommit, CheckoutCommit
  <1>6. CASE ScanFails
    BY <1>6 DEF ScanFails
  <1>7. CASE ScanEnds
    BY <1>7 DEF ScanEnds
  <1>8. CASE NextRelease
    BY <1>8 DEF NextRelease
  <1>9. CASE DownloadFails
    BY <1>9 DEF DownloadFails, Discard
  <1>10. CASE Unpack
    BY <1>10 DEF Unpack
  <1>11. CASE AnalyzeRelease
    BY <1>11 DEF AnalyzeRelease
  <1>12. CASE BanditFails
    BY <1>12 DEF BanditFails
  <1>13. CASE ReleasesEnd
    BY <1>13 DEF ReleasesEnd
  <1>14. CASE FinishAnalysis
    BY <1>14 DEF FinishAnalysis
  <1>15. CASE UNCHANGED lpmVars
    BY <1>15 DEF lpmVars
  <1> QED  BY <1>1, <1>2, <1>3, <1>4, <1>5, <1>6, <1>7, <1>8, <1>9, <1>10, <1>11, <1>12,
       <1>13, <1>14, <1>15 DEF LpmNext

(* A step adds only hashes of files of the history. *)
LEMMA HashesSoundStep ==
    ASSUME LpmAssumption, LpmTypeOK, HashesSound, [LpmNext]_lpmVars
    PROVE  HashesSound'
  <1> USE LpmAssumption DEF LpmAssumption, LpmTypeOK, LpmSteps, HashesSound, InHistory
  <1>1. CASE PackageNotFound
    BY <1>1 DEF PackageNotFound
  <1>2. CASE StartAnalysis
    BY <1>2 DEF StartAnalysis
  <1>3. CASE SelectReleases
    BY <1>3 DEF SelectReleases
  <1>4. CASE PrepareSources
    BY <1>4 DEF PrepareSources
  <1>5. ASSUME NEW c \in Commits, ScanCommit(c) PROVE HashesSound'
    BY <1>5 DEF ScanCommit, CheckoutCommit, FilesToHash, StatsFiles
  <1>6. CASE ScanFails
    BY <1>6 DEF ScanFails
  <1>7. CASE ScanEnds
    BY <1>7 DEF ScanEnds
  <1>8. CASE NextRelease
    BY <1>8 DEF NextRelease
  <1>9. CASE DownloadFails
    BY <1>9 DEF DownloadFails, Discard
  <1>10. CASE Unpack
    BY <1>10 DEF Unpack
  <1>11. CASE AnalyzeRelease
    BY <1>11 DEF AnalyzeRelease
  <1>12. CASE BanditFails
    BY <1>12 DEF BanditFails
  <1>13. CASE ReleasesEnd
    BY <1>13 DEF ReleasesEnd
  <1>14. CASE FinishAnalysis
    BY <1>14 DEF FinishAnalysis
  <1>15. CASE UNCHANGED lpmVars
    BY <1>15 DEF lpmVars
  <1> QED  BY <1>1, <1>2, <1>3, <1>4, <1>5, <1>6, <1>7, <1>8, <1>9, <1>10, <1>11, <1>12,
       <1>13, <1>14, <1>15 DEF LpmNext

(* The releases come after the last commit. *)
LEMMA AllScannedStep ==
    ASSUME LpmAssumption, LpmTypeOK, AllScanned, [LpmNext]_lpmVars
    PROVE  AllScanned'
  <1> USE LpmAssumption DEF LpmAssumption, LpmTypeOK, LpmSteps, AllScanned
  <1>1. CASE PackageNotFound
    BY <1>1 DEF PackageNotFound
  <1>2. CASE StartAnalysis
    BY <1>2 DEF StartAnalysis
  <1>3. CASE SelectReleases
    BY <1>3 DEF SelectReleases
  <1>4. CASE PrepareSources
    BY <1>4 DEF PrepareSources
  <1>5. ASSUME NEW c \in Commits, ScanCommit(c) PROVE AllScanned'
    BY <1>5 DEF ScanCommit, CheckoutCommit
  <1>6. CASE ScanFails
    BY <1>6 DEF ScanFails
  <1>7. CASE ScanEnds
    BY <1>7 DEF ScanEnds
  <1>8. CASE NextRelease
    BY <1>8 DEF NextRelease
  <1>9. CASE DownloadFails
    BY <1>9 DEF DownloadFails, Discard
  <1>10. CASE Unpack
    BY <1>10 DEF Unpack
  <1>11. CASE AnalyzeRelease
    BY <1>11 DEF AnalyzeRelease
  <1>12. CASE BanditFails
    BY <1>12 DEF BanditFails
  <1>13. CASE ReleasesEnd
    BY <1>13 DEF ReleasesEnd
  <1>14. CASE FinishAnalysis
    BY <1>14 DEF FinishAnalysis
  <1>15. CASE UNCHANGED lpmVars
    BY <1>15 DEF lpmVars
  <1> QED  BY <1>1, <1>2, <1>3, <1>4, <1>5, <1>6, <1>7, <1>8, <1>9, <1>10, <1>11, <1>12,
       <1>13, <1>14, <1>15 DEF LpmNext

(* Every step keeps the verdicts right: they are given when every commit has been scanned. *)
LEMMA PhantomStep ==
    ASSUME LpmAssumption, LpmInv, [LpmNext]_lpmVars
    PROVE  PhantomsAreReal'
  <1> USE LpmAssumption DEF LpmAssumption, LpmTypeOK, LpmSteps, LpmInv, PhantomsAreReal,
       NoResult, InHistory, RiskList, Lists
  <1>1. CASE PackageNotFound
    BY <1>1 DEF PackageNotFound
  <1>2. CASE StartAnalysis
    BY <1>2 DEF StartAnalysis
  <1>3. CASE SelectReleases
    BY <1>3 DEF SelectReleases
  <1>4. CASE PrepareSources
    BY <1>4 DEF PrepareSources
  <1>5. ASSUME NEW c \in Commits, ScanCommit(c) PROVE PhantomsAreReal'
    BY <1>5 DEF ScanCommit, CheckoutCommit
  <1>6. CASE ScanFails
    BY <1>6 DEF ScanFails
  <1>7. CASE ScanEnds
    BY <1>7 DEF ScanEnds
  <1>8. CASE NextRelease
    BY <1>8 DEF NextRelease
  <1>9. CASE DownloadFails
    BY <1>9 DEF DownloadFails, Discard
  <1>10. CASE Unpack
    BY <1>10 DEF Unpack
  <1>11. CASE AnalyzeRelease
    <2>1. scanned = Commits /\ release \in Releases
      BY <1>11 DEF AnalyzeRelease, AllScanned, ReleaseAtHand
    <2>2. \A x \in Contents : sourceHashes[x] # 0 <=> InHistory(x)
      BY <2>1, ChangesCoverHistory DEF HashesSound
    <2>3. \A x \in Contents : RiskList(x) \notin {"none", "coherent"}
      OBVIOUS
    <2>4. UNCHANGED history
      BY <1>11 DEF AnalyzeRelease
    <2> HIDE DEF RiskList, InHistory
    <2>5. \A r \in Releases, x \in Contents :
            \/ result'[r][x] = result[r][x]
            \/ result'[r][x] = "none"
            \/ result'[r][x] = RiskList(x) /\ sourceHashes[x] = 0
            \/ result'[r][x] = "coherent" /\ sourceHashes[x] # 0
      BY <1>11, <2>1 DEF AnalyzeRelease
    <2>6. \A x \in Contents : RiskList(x)' = RiskList(x) /\ (InHistory(x)' <=> InHistory(x))
      BY <2>4 DEF RiskList, InHistory
    <2>7. ASSUME NEW r \in Releases, NEW x \in Contents, result'[r][x] # "none"
          PROVE  /\ result'[r][x] = "coherent" <=> InHistory(x)
                 /\ result'[r][x] # "coherent" => result'[r][x] = RiskList(x)
      BY <2>2, <2>3, <2>5, <2>7
    <2> QED  BY <2>6, <2>7
  <1>12. CASE BanditFails
    BY <1>12 DEF BanditFails
  <1>13. CASE ReleasesEnd
    BY <1>13 DEF ReleasesEnd
  <1>14. CASE FinishAnalysis
    BY <1>14 DEF FinishAnalysis
  <1>15. CASE UNCHANGED lpmVars
    BY <1>15 DEF lpmVars
  <1> QED  BY <1>1, <1>2, <1>3, <1>4, <1>5, <1>6, <1>7, <1>8, <1>9, <1>10, <1>11, <1>12,
       <1>13, <1>14, <1>15 DEF LpmNext

(* Every step keeps what is on disk in order. *)
LEMMA CutStep ==
    ASSUME LpmAssumption, LpmInv, [LpmNext]_lpmVars
    PROVE  (CutWhileFetched /\ CleanEnd /\ ReleaseAtHand)'
  <1> USE LpmAssumption DEF LpmAssumption, LpmTypeOK, LpmSteps, LpmInv, CutWhileFetched,
       CleanEnd, ReleaseAtHand
  <1>1. CASE PackageNotFound
    BY <1>1 DEF PackageNotFound
  <1>2. CASE StartAnalysis
    BY <1>2 DEF StartAnalysis
  <1>3. CASE SelectReleases
    BY <1>3 DEF SelectReleases
  <1>4. CASE PrepareSources
    BY <1>4 DEF PrepareSources
  <1>5. ASSUME NEW c \in Commits,
       ScanCommit(c) PROVE (CutWhileFetched /\ CleanEnd /\ ReleaseAtHand)'
    BY <1>5 DEF ScanCommit, CheckoutCommit
  <1>6. CASE ScanFails
    BY <1>6 DEF ScanFails
  <1>7. CASE ScanEnds
    BY <1>7 DEF ScanEnds
  <1>8. CASE NextRelease
    BY <1>8 DEF NextRelease
  <1>9. CASE DownloadFails
    BY <1>9 DEF DownloadFails, Discard
  <1>10. CASE Unpack
    BY <1>10 DEF Unpack
  <1>11. CASE AnalyzeRelease
    BY <1>11 DEF AnalyzeRelease
  <1>12. CASE BanditFails
    BY <1>12 DEF BanditFails
  <1>13. CASE ReleasesEnd
    BY <1>13 DEF ReleasesEnd
  <1>14. CASE FinishAnalysis
    BY <1>14 DEF FinishAnalysis
  <1>15. CASE UNCHANGED lpmVars
    BY <1>15 DEF lpmVars
  <1> QED  BY <1>1, <1>2, <1>3, <1>4, <1>5, <1>6, <1>7, <1>8, <1>9, <1>10, <1>11, <1>12,
       <1>13, <1>14, <1>15 DEF LpmNext

(* Every reachable state of an analysis satisfies the invariant. *)
LEMMA LpmInvariant == LpmSpec => []LpmInv
  <1>1. LpmInit => LpmInv
    <2> SUFFICES ASSUME LpmInit PROVE LpmInv
      OBVIOUS
    <2>0. /\ rounds \in 0 .. MaxAnalyses
          /\ [x \in Contents |-> 0] \in [Contents -> Commits \cup {0}]
          /\ [r \in Releases |-> NoResult] \in [Releases -> [Contents -> Lists]]
          /\ [r \in Releases |-> "none"] \in [Releases -> {"none", "partial", "whole"}]
      BY LpmAssumption DEF LpmAssumption, LpmInit, Lists, NoResult
    <2>1. LpmTypeOK
      BY <2>0 DEF LpmInit, LpmTypeOK, LpmSteps
    <2>2. PhantomsAreReal
      BY DEF LpmInit, PhantomsAreReal, NoResult
    <2> QED  BY <2>1, <2>2 DEF LpmInit, LpmInv, HashesComplete, HashesSound, AllScanned,
                ReleaseAtHand, CutWhileFetched, CleanEnd
  <1>2. LpmInv /\ [LpmNext]_lpmVars => LpmInv'
    <2> SUFFICES ASSUME LpmInv, [LpmNext]_lpmVars PROVE LpmInv'
      OBVIOUS
    <2>1. LpmTypeOK' /\ HashesComplete' /\ HashesSound' /\ AllScanned'
      BY LpmAssumption, LpmTypeStep, HashesCompleteStep, HashesSoundStep, AllScannedStep
         DEF LpmInv
    <2> QED  BY LpmAssumption, <2>1, PhantomStep, CutStep DEF LpmInv
  <1> QED  BY <1>1, <1>2, PTL DEF LpmSpec

(* The verdicts of LastPyMile are right, whatever the history, in whatever order
   its commits are scanned: a file of a release is coherent exactly when its
   content is that of a source file of some commit (abstractpackageanalysis.py,
   maliciouscodepackageanalyzer.py). *)
THEOREM VerdictsAreRight == LpmSpec => []PhantomsAreReal
  BY LpmInvariant, PTL DEF LpmInv

(* An analysis leaves no temporary folder it was not asked to keep, and no file
   that a failed download cut short. *)
THEOREM AnalysisEndsClean == LpmSpec => []CleanEnd
  BY LpmInvariant, PTL DEF LpmInv

-----------------------------------------------------------------------------
(* The sandbox script.  A call is in progress only within a module, where the
   alarm's handler is the script's own. *)
CallsInModule ==
    /\ call # NoCall => sx = "module"
    /\ handler = "raise" <=> sx = "module"

Frames == Seq(Seq(DOMAIN Returns))

(* The types of what the exploration of return values goes through. *)
ExploreTypeOK ==
    /\ seenTypes \subseteq Types /\ IsFiniteSet(seenTypes)
    /\ stack \in Frames
    /\ explored \in [Types -> Nat]
    /\ members \in Seq(DOMAIN Returns \cup Types)
    /\ modulesLeft \in Seq(DOMAIN MembersOf \cup Unimportable)

(* A type is investigated when it is first seen; a class is instantiated only
   with no frame open. *)
SeenIsExplored ==
    /\ \A t \in Types : explored[t] = IF t \in seenTypes THEN 1 ELSE 0
    /\ call \in Types => stack = <<>>
    /\ Len(stack) <= 1 + Cardinality(seenTypes)

(* try_call_methods opens a frame. *)
LEMMA PushFrame ==
    ASSUME ScriptAssumption, NEW t \in Types, NEW s \in Frames
    PROVE  <<MethodsOf[t]>> \o s \in Frames /\ Len(<<MethodsOf[t]>> \o s) = Len(s) + 1
  <1>1. <<MethodsOf[t]>> \in Frames /\ Len(<<MethodsOf[t]>>) = 1
    BY DEF ScriptAssumption, Frames
  <1>2. Len(s) \in Nat
    BY LenProperties DEF Frames
  <1> QED  BY <1>1, <1>2, ConcatProperties DEF Frames

(* A frame moves on to its next method. *)
LEMMA NextInFrame ==
    ASSUME NEW s \in Frames, s # <<>>, Head(s) # <<>>
    PROVE  /\ <<Tail(Head(s))>> \o Tail(s) \in Frames
           /\ Len(<<Tail(Head(s))>> \o Tail(s)) = Len(s)
           /\ Head(Head(s)) \in DOMAIN Returns
  <1>1. /\ Head(s) \in Seq(DOMAIN Returns) /\ Tail(s) \in Frames
        /\ Len(Tail(s)) = Len(s) - 1 /\ Len(s) \in Nat
    BY HeadTailProperties, LenProperties DEF Frames
  <1>2. Head(Head(s)) \in DOMAIN Returns /\ Tail(Head(s)) \in Seq(DOMAIN Returns)
    BY <1>1, HeadTailProperties
  <1>3. <<Tail(Head(s))>> \in Frames /\ Len(<<Tail(Head(s))>>) = 1
    <2>1. ASSUME NEW x \in Seq(DOMAIN Returns) PROVE <<x>> \in Frames /\ Len(<<x>>) = 1
      BY DEF Frames
    <2> QED  BY <1>2, <2>1
  <1>4. /\ <<Tail(Head(s))>> \o Tail(s) \in Frames
        /\ Len(<<Tail(Head(s))>> \o Tail(s)) = 1 + Len(Tail(s))
    BY <1>1, <1>3, ConcatProperties DEF Frames
  <1> QED  BY <1>1, <1>2, <1>4

(* A frame is left. *)
LEMMA PopFrame ==
    ASSUME NEW s \in Frames, s # <<>>
    PROVE  Tail(s) \in Frames /\ Len(Tail(s)) <= Len(s) /\ Len(Tail(s)) \in Nat
  <1>1. /\ Tail(s) \in Frames
        /\ Len(Tail(s)) = Len(s) - 1 /\ Len(s) \in Nat /\ Len(Tail(s)) \in Nat
    BY HeadTailProperties, LenProperties DEF Frames
  <1> QED  BY <1>1

ScriptInv == CallsInModule /\ AlarmIsCleared /\ ExploreTypeOK /\ SeenIsExplored

(* Every step of the script keeps calls within a module. *)
LEMMA CallsInModuleStep ==
    ASSUME ScriptAssumption, CallsInModule, [ScriptNext]_scriptVars
    PROVE  CallsInModule'
  <1> USE ScriptAssumption DEF ScriptAssumption, CallsInModule
  <1>1. CASE ParseArguments
    BY <1>1 DEF ParseArguments, Exit, callVars
  <1>2. CASE SearchFails
    BY <1>2 DEF SearchFails, Exit, callVars
  <1>3. CASE StepSucceeds
    BY <1>3 DEF StepSucceeds, callVars
  <1>4. CASE InstallFails
    BY <1>4 DEF InstallFails, Exit, callVars
  <1>5. CASE RunFails
    BY <1>5 DEF RunFails, Exit, callVars
  <1>6. CASE StepsEnd
    BY <1>6 DEF StepsEnd, Exit, callVars
  <1>7. CASE ExecutePackage
    BY <1>7 DEF ExecutePackage, callVars
  <1>8. CASE ExecuteModule
    BY <1>8 DEF ExecuteModule, Exit, callVars
  <1>9. CASE ModulesEnd
    BY <1>9 DEF ModulesEnd, callVars
  <1>10. CASE ModuleEnds
    BY <1>10 DEF ModuleEnds, LeaveModule
  <1>11. CASE NextMethod
    BY <1>11 DEF NextMethod, Invoke
  <1>12. CASE NextMember
    BY <1>12 DEF NextMember, Invoke
  <1>13. CASE FunctionReturns
    BY <1>13 DEF FunctionReturns, Disarm, MarkSeen
  <1>14. CASE ClassReturns
    BY <1>14 DEF ClassReturns, Disarm
  <1>15. CASE CallRaises
    BY <1>15 DEF CallRaises, AfterException, LeaveModule
  <1>16. CASE CallTimesOut
    BY <1>16 DEF CallTimesOut, AfterException, LeaveModule
  <1>17. CASE StrayAlarm
    BY <1>17 DEF StrayAlarm, AfterException, LeaveModule
  <1>18. CASE UNCHANGED scriptVars
    BY <1>18 DEF scriptVars, callVars
  <1>19. CASE ResultRaises
    BY <1>19 DEF ResultRaises, Disarm, LeaveModule
  <1> QED  BY <1>1, <1>2, <1>3, <1>4, <1>5, <1>6, <1>7, <1>8, <1>9, <1>10, <1>11, <1>12,
       <1>13, <1>14, <1>15, <1>16, <1>17, <1>18, <1>19 DEF ScriptNext

(* Every step of the script keeps an alarm to its call, unless the call raised. *)
LEMMA AlarmStep ==
    ASSUME ScriptAssumption, CallsInModule, ExploreTypeOK, AlarmIsCleared,
         [ScriptNext]_scriptVars
    PROVE  AlarmIsCleared'
  <1> USE ScriptAssumption DEF ScriptAssumption, CallsInModule, AlarmIsCleared
  <1>1. CASE ParseArguments
    BY <1>1 DEF ParseArguments, Exit, callVars
  <1>2. CASE SearchFails
    BY <1>2 DEF SearchFails, Exit, callVars
  <1>3. CASE StepSucceeds
    BY <1>3 DEF StepSucceeds, callVars
  <1>4. CASE InstallFails
    BY <1>4 DEF InstallFails, Exit, callVars
  <1>5. CASE RunFails
    BY <1>5 DEF RunFails, Exit, callVars
  <1>6. CASE StepsEnd
    BY <1>6 DEF StepsEnd, Exit, callVars
  <1>7. CASE ExecutePackage
    BY <1>7 DEF ExecutePackage, callVars
  <1>8. CASE ExecuteModule
    BY <1>8 DEF ExecuteModule, Exit, callVars
  <1>9. CASE ModulesEnd
    BY <1>9 DEF ModulesEnd, callVars
  <1>10. CASE ModuleEnds
    BY <1>10 DEF ModuleEnds, LeaveModule
  <1>11. CASE NextMethod
    <2>1. CASE Head(stack) = <<>>
      BY <1>11, <2>1 DEF NextMethod
    <2>2. CASE Head(stack) # <<>>
      <3>1. Head(Head(stack)) # NoCall
        BY <1>11, <2>2, NextInFrame DEF NextMethod, ExploreTypeOK
      <3>2. CASE Head(Head(stack)) \in Unbindable
        BY <1>11, <2>2, <3>2 DEF NextMethod, Invoke
      <3>3. CASE Head(Head(stack)) \notin Unbindable
        BY <1>11, <2>2, <3>1, <3>3 DEF NextMethod, Invoke
      <3> QED  BY <3>2, <3>3
    <2> QED  BY <2>1, <2>2
  <1>12. CASE NextMember
    <2>1. Head(members) # NoCall
      BY <1>12, HeadTailProperties DEF NextMember, ExploreTypeOK
    <2>2. CASE Head(members) \in Unbindable
      BY <1>12, <2>2 DEF NextMember, Invoke
    <2>3. CASE Head(members) \notin Unbindable
      BY <1>12, <2>1, <2>3 DEF NextMember, Invoke
    <2> QED  BY <2>2, <2>3
  <1>13. CASE FunctionReturns
    BY <1>13 DEF FunctionReturns, Disarm, MarkSeen
  <1>14. CASE ClassReturns
    BY <1>14 DEF ClassReturns, Disarm
  <1>15. CASE CallRaises
    BY <1>15 DEF CallRaises, AfterException, LeaveModule
  <1>16. CASE CallTimesOut
    BY <1>16 DEF CallTimesOut, AfterException, LeaveModule
  <1>17. CASE StrayAlarm
    BY <1>17 DEF StrayAlarm, AfterException, LeaveModule
  <1>18. CASE UNCHANGED scriptVars
    BY <1>18 DEF scriptVars, callVars
  <1>19. CASE ResultRaises
    BY <1>19 DEF ResultRaises, Disarm, LeaveModule
  <1> QED  BY <1>1, <1>2, <1>3, <1>4, <1>5, <1>6, <1>7, <1>8, <1>9, <1>10, <1>11, <1>12,
       <1>13, <1>14, <1>15, <1>16, <1>17, <1>18, <1>19 DEF ScriptNext

(* Every step of the script keeps the types of the exploration. *)
LEMMA ExploreTypeStep ==
    ASSUME ScriptAssumption, CallsInModule, ExploreTypeOK, [ScriptNext]_scriptVars
    PROVE  ExploreTypeOK'
  <1> USE ScriptAssumption DEF ScriptAssumption, ExploreTypeOK
  <1>1. CASE ParseArguments
    BY <1>1 DEF ParseArguments, Exit, callVars
  <1>2. CASE SearchFails
    BY <1>2 DEF SearchFails, Exit, callVars
  <1>3. CASE StepSucceeds
    BY <1>3 DEF StepSucceeds, callVars
  <1>4. CASE InstallFails
    BY <1>4 DEF InstallFails, Exit, callVars
  <1>5. CASE RunFails
    BY <1>5 DEF RunFails, Exit, callVars
  <1>6. CASE StepsEnd
    BY <1>6 DEF StepsEnd, Exit, callVars
  <1>7. CASE ExecutePackage
    BY <1>7 DEF ExecutePackage, callVars
  <1>8. CASE ExecuteModule
    <2>1. /\ Head(modulesLeft) \in DOMAIN MembersOf \cup Unimportable
          /\ Tail(modulesLeft) \in Seq(DOMAIN MembersOf \cup Unimportable)
      BY <1>8, HeadTailProperties DEF ExecuteModule
    <2>2. CASE module' \in Unimportable
      BY <1>8, <2>1, <2>2 DEF ExecuteModule, callVars
    <2>3. CASE module' \notin Unimportable
      <3>1. members' \in Seq(DOMAIN Returns \cup Types)
        BY <1>8, <2>1, <2>3 DEF ExecuteModule
      <3>2. stack' \in Frames
        BY <1>8, <2>3 DEF ExecuteModule, Frames
      <3>3. seenTypes' = {} /\ explored' = [t \in Types |-> 0] /\ modulesLeft' = Tail(modulesLeft)
        BY <1>8, <2>3 DEF ExecuteModule
      <3> QED  BY <2>1, <3>1, <3>2, <3>3, FS_EmptySet
    <2> QED  BY <2>2, <2>3
  <1>9. CASE ModulesEnd
    BY <1>9 DEF ModulesEnd, callVars
  <1>10. CASE ModuleEnds
    <2>1. <<>> \in Frames /\ <<>> \in Seq(DOMAIN Returns \cup Types)
      BY DEF Frames
    <2> QED  BY <1>10, <2>1 DEF ModuleEnds, LeaveModule
  <1>11. CASE NextMethod
    <2>1. CASE Head(stack) = <<>>
      BY <1>11, <2>1, PopFrame DEF NextMethod
    <2>2. CASE Head(stack) # <<>>
      BY <1>11, <2>2, NextInFrame DEF NextMethod, Invoke
    <2> QED  BY <2>1, <2>2
  <1>12. CASE NextMember
    <2>1. Tail(members) \in Seq(DOMAIN Returns \cup Types)
      BY <1>12, HeadTailProperties DEF NextMember
    <2> QED  BY <1>12, <2>1 DEF NextMember, Invoke
  <1>13. CASE FunctionReturns
    <2>1. PICK t \in Returns[call] :
            IF t # NoneType /\ ModuleOf[t] = module /\ t \notin seenTypes
            THEN /\ seenTypes' = seenTypes \cup {t}
                 /\ explored' = [explored EXCEPT ![t] = @ + 1]
                 /\ stack' = <<MethodsOf[t]>> \o stack
            ELSE UNCHANGED <<seenTypes, explored, stack>>
      BY <1>13 DEF FunctionReturns, MarkSeen
    <2>2. CASE UNCHANGED <<seenTypes, explored, stack>>
      BY <1>13, <2>2 DEF FunctionReturns
    <2>3. CASE /\ t # NoneType /\ t \notin seenTypes
               /\ seenTypes' = seenTypes \cup {t}
               /\ explored' = [explored EXCEPT ![t] = @ + 1]
               /\ stack' = <<MethodsOf[t]>> \o stack
      <3>1. t \in Types
        BY <1>13, <2>1, <2>3 DEF FunctionReturns
      <3>2. stack' \in Frames
        BY <2>3, <3>1, PushFrame
      <3>3. seenTypes' \subseteq Types /\ IsFiniteSet(seenTypes')
        BY <2>3, <3>1, FS_AddElement
      <3>4. explored' \in [Types -> Nat]
        BY <2>3, <3>1
      <3> QED  BY <1>13, <3>2, <3>3, <3>4 DEF FunctionReturns
    <2> QED  BY <2>1, <2>2, <2>3
  <1>14. CASE ClassReturns
    <2>1. stack' \in Frames
      BY <1>14, PushFrame DEF ClassReturns
    <2> QED  BY <1>14, <2>1 DEF ClassReturns
  <1>15. CASE CallRaises
    <2>1. <<>> \in Frames /\ <<>> \in Seq(DOMAIN Returns \cup Types)
      BY DEF Frames
    <2>2. /\ members' \in {members, <<>>} /\ stack' \in {stack, <<>>}
          /\ UNCHANGED <<seenTypes, explored, modulesLeft>>
      BY <1>15 DEF CallRaises, AfterException, LeaveModule
    <2> QED  BY <2>1, <2>2
  <1>16. CASE CallTimesOut
    <2>1. <<>> \in Frames /\ <<>> \in Seq(DOMAIN Returns \cup Types)
      BY DEF Frames
    <2>2. /\ members' \in {members, <<>>} /\ stack' \in {stack, <<>>}
          /\ UNCHANGED <<seenTypes, explored, modulesLeft>>
      BY <1>16 DEF CallTimesOut, AfterException, LeaveModule
    <2> QED  BY <2>1, <2>2
  <1>17. CASE StrayAlarm
    <2>1. <<>> \in Frames /\ <<>> \in Seq(DOMAIN Returns \cup Types)
      BY DEF Frames
    <2>2. /\ members' \in {members, <<>>} /\ stack' \in {stack, <<>>}
          /\ UNCHANGED <<seenTypes, explored, modulesLeft>>
      BY <1>17 DEF StrayAlarm, AfterException, LeaveModule
    <2> QED  BY <2>1, <2>2
  <1>18. CASE UNCHANGED scriptVars
    BY <1>18 DEF scriptVars, callVars
  <1>19. CASE ResultRaises
    <2>1. <<>> \in Frames /\ <<>> \in Seq(DOMAIN Returns \cup Types)
      BY DEF Frames
    <2>2. /\ members' = <<>> /\ stack' = <<>>
          /\ UNCHANGED <<seenTypes, explored, modulesLeft>>
      BY <1>19 DEF ResultRaises, LeaveModule
    <2> QED  BY <2>1, <2>2
  <1> QED  BY <1>1, <1>2, <1>3, <1>4, <1>5, <1>6, <1>7, <1>8, <1>9, <1>10, <1>11, <1>12,
       <1>13, <1>14, <1>15, <1>16, <1>17, <1>18, <1>19 DEF ScriptNext

(* Every step of the script investigates a type only when it marks it as seen. *)
LEMMA ExploreStep ==
    ASSUME ScriptAssumption, CallsInModule, ExploreTypeOK, ExploreTypeOK',
         SeenIsExplored, [ScriptNext]_scriptVars
    PROVE  SeenIsExplored'
  <1> USE ScriptAssumption DEF ScriptAssumption, ExploreTypeOK, SeenIsExplored,
       CallsInModule
  <1>1. CASE ParseArguments
    BY <1>1 DEF ParseArguments, Exit, callVars
  <1>2. CASE SearchFails
    BY <1>2 DEF SearchFails, Exit, callVars
  <1>3. CASE StepSucceeds
    BY <1>3 DEF StepSucceeds, callVars
  <1>4. CASE InstallFails
    BY <1>4 DEF InstallFails, Exit, callVars
  <1>5. CASE RunFails
    BY <1>5 DEF RunFails, Exit, callVars
  <1>6. CASE StepsEnd
    BY <1>6 DEF StepsEnd, Exit, callVars
  <1>7. CASE ExecutePackage
    BY <1>7 DEF ExecutePackage, callVars
  <1>8. CASE ExecuteModule
    <2>1. CASE module' \in Unimportable
      BY <1>8, <2>1 DEF ExecuteModule, callVars
    <2>2. CASE module' \notin Unimportable
      BY <1>8, <2>2, FS_EmptySet DEF ExecuteModule
    <2> QED  BY <2>1, <2>2
  <1>9. CASE ModulesEnd
    BY <1>9 DEF ModulesEnd, callVars
  <1>10. CASE ModuleEnds
    BY <1>10 DEF ModuleEnds, LeaveModule
  <1>11. CASE NextMethod
    <2>0. Cardinality(seenTypes) \in Nat
      BY FS_CardinalityType
    <2>1. CASE Head(stack) = <<>>
      <3>1. Len(stack') <= Len(stack) /\ Len(stack') \in Nat /\ Len(stack) \in Nat
        BY <1>11, <2>1, PopFrame, LenProperties DEF NextMethod, Frames
      <3> QED  BY <1>11, <2>0, <2>1, <3>1 DEF NextMethod
    <2>2. CASE Head(stack) # <<>>
      BY <1>11, <2>2, NextInFrame DEF NextMethod, Invoke
    <2> QED  BY <2>1, <2>2
  <1>12. CASE NextMember
    BY <1>12 DEF NextMember, Invoke
  <1>13. CASE FunctionReturns
    <2>1. PICK t \in Returns[call] :
            IF t # NoneType /\ ModuleOf[t] = module /\ t \notin seenTypes
            THEN /\ seenTypes' = seenTypes \cup {t}
                 /\ explored' = [explored EXCEPT ![t] = @ + 1]
                 /\ stack' = <<MethodsOf[t]>> \o stack
            ELSE UNCHANGED <<seenTypes, explored, stack>>
      BY <1>13 DEF FunctionReturns, MarkSeen
    <2>2. call' = NoCall
      BY <1>13 DEF FunctionReturns
    <2>3. CASE UNCHANGED <<seenTypes, explored, stack>>
      BY <2>2, <2>3
    <2>4. CASE /\ t # NoneType /\ t \notin seenTypes
               /\ seenTypes' = seenTypes \cup {t}
               /\ explored' = [explored EXCEPT ![t] = @ + 1]
               /\ stack' = <<MethodsOf[t]>> \o stack
      <3>1. t \in Types
        BY <1>13, <2>1, <2>4 DEF FunctionReturns
      <3>2. Len(stack') = Len(stack) + 1 /\ Len(stack) \in Nat
        BY <2>4, <3>1, PushFrame, LenProperties DEF Frames
      <3>3. Cardinality(seenTypes') = Cardinality(seenTypes) + 1 /\ Cardinality(seenTypes) \in Nat
        BY <2>4, FS_AddElement, FS_CardinalityType
      <3>4. \A u \in Types : explored'[u] = IF u \in seenTypes' THEN 1 ELSE 0
        BY <2>4, <3>1
      <3> QED  BY <2>2, <3>2, <3>3, <3>4
    <2> QED  BY <2>1, <2>3, <2>4
  <1>14. CASE ClassReturns
    <2>1. stack = <<>> /\ call \in Types /\ call' = NoCall /\ UNCHANGED <<seenTypes,
         explored>>
      BY <1>14 DEF ClassReturns
    <2>2. Len(stack') <= 1
      BY <1>14, <2>1, PushFrame DEF ClassReturns
    <2>3. Len(stack') \in Nat /\ Cardinality(seenTypes) \in Nat
      BY LenProperties, FS_CardinalityType DEF Frames
    <2> QED  BY <2>1, <2>2, <2>3
  <1>15. CASE CallRaises
    BY <1>15 DEF CallRaises, AfterException, LeaveModule
  <1>16. CASE CallTimesOut
    BY <1>16 DEF CallTimesOut, AfterException, LeaveModule
  <1>17. CASE StrayAlarm
    <2>1. UNCHANGED <<seenTypes, explored>>
      BY <1>17 DEF StrayAlarm
    <2>2. Cardinality(seenTypes) \in Nat
      BY FS_CardinalityType
    <2>3. /\ stack' \in {stack, <<>>}
          /\ call' = NoCall \/ UNCHANGED <<stack, call>>
      BY <1>17 DEF StrayAlarm, AfterException, LeaveModule
    <2>4. Len(stack') <= 1 + Cardinality(seenTypes)
      BY <2>2, <2>3
    <2>5. call' \in Types => stack' = <<>>
      BY <2>3
    <2> QED  BY <2>1, <2>4, <2>5
  <1>18. CASE UNCHANGED scriptVars
    BY <1>18 DEF scriptVars, callVars
  <1>19. CASE ResultRaises
    <2>1. UNCHANGED <<seenTypes, explored>> /\ stack' = <<>> /\ call' = NoCall
      BY <1>19 DEF ResultRaises, LeaveModule
    <2>2. Cardinality(seenTypes) \in Nat
      BY FS_CardinalityType
    <2>3. Len(stack') <= 1 + Cardinality(seenTypes)
      BY <2>1, <2>2
    <2> QED  BY <2>1, <2>3
  <1> QED  BY <1>1, <1>2, <1>3, <1>4, <1>5, <1>6, <1>7, <1>8, <1>9, <1>10, <1>11, <1>12,
       <1>13, <1>14, <1>15, <1>16, <1>17, <1>18, <1>19 DEF ScriptNext

(* Every reachable state of the script satisfies the invariant. *)
LEMMA ScriptInvariant == ScriptSpec => []ScriptInv
  <1>1. ScriptInit => ScriptInv
    <2> SUFFICES ASSUME ScriptInit PROVE ScriptInv
      OBVIOUS
    <2>1. IsFiniteSet({}) /\ Cardinality({}) = 0
      BY FS_EmptySet
    <2>2. ExploreTypeOK
      BY <2>1 DEF ScriptInit, ExploreTypeOK, Frames
    <2>3. SeenIsExplored
      BY <2>1, ScriptAssumption DEF ScriptInit, SeenIsExplored, ScriptAssumption
    <2> QED  BY <2>2, <2>3 DEF ScriptInit, ScriptInv, CallsInModule, AlarmIsCleared
  <1>2. ScriptInv /\ [ScriptNext]_scriptVars => ScriptInv'
    BY ScriptAssumption, CallsInModuleStep, AlarmStep, ExploreTypeStep, ExploreStep
       DEF ScriptInv
  <1> QED  BY <1>1, <1>2, PTL DEF ScriptSpec

(* The exploration of return values ends, however the types of a module return
   each other: a type is investigated at most once, and the frames are never more
   than the types seen and the one of an instance (analyze-python.py). *)
THEOREM ExplorationIsBounded == ScriptSpec => []ExploredOnce
  <1>1. ScriptInv => ExploredOnce
    BY DEF ScriptInv, SeenIsExplored, ExploredOnce, ExploreTypeOK
  <1> QED  BY <1>1, ScriptInvariant, PTL

(* An alarm outlives its call only when the call ended with an exception, for
   every package (analyze-python.py, invoke_function). *)
THEOREM AlarmsAreCleared == ScriptSpec => []AlarmIsCleared
  BY ScriptInvariant, PTL DEF ScriptInv

-----------------------------------------------------------------------------
(* bandit: what its variables hold. *)
Finding == [issue : DOMAIN TestOf, file : Targets]

BanditTypeOK ==
    /\ trees \in Trees
    /\ headAt \in BCommits
    /\ blStep \in {"idle", "parent", "current", "done", "refused", "raised"}
    /\ bd \in {"off", "start", "files", "visit", "exited"}
    /\ wrote \in BOOLEAN
    /\ toScan \subseteq Targets /\ filesList \subseteq Targets /\ skipped \subseteq Targets
    /\ found \in Seq(Finding) /\ results \in Seq(Finding)
    /\ counted \in Nat
    /\ bd = "visit" => fname \in Targets /\ nodeAt \in Nat \ {0}

(* bandit-baseline runs bandit on the commit of its step; a report is written by a
   process that then exits. *)
StepsInOrder ==
    /\ command = "bandit" => blStep = "idle"
    /\ command # "bandit" /\ blStep = "idle" => bd = "off"
    /\ blStep \in {"idle", "current", "done"} => headAt = "current"
    /\ blStep = "parent" => headAt = "parent"
    /\ blStep \in {"done", "raised"} => bd \in {"off", "exited"}
    /\ blStep = "done" => bd = "exited"
    /\ wrote => bd = "exited"
    /\ bd = "start" => skipped = {} /\ results = <<>> /\ counted = 0

(* The scan goes on, or has ended with a report. *)
InScan == bd \in {"files", "visit"} \/ (wrote /\ blStep # "raised")

(* The files the scan is done with. *)
Past == DiscoverFiles \ (toScan \cup (IF bd = "visit" THEN {fname} ELSE {}))

IssuesIn(c, f, nodes) == {trees[c][f].nodes[i].issue : i \in nodes}

FilesDivided ==
    InScan =>
        /\ toScan \subseteq filesList
        /\ filesList \cap skipped = {} /\ filesList \cup skipped = DiscoverFiles
        /\ bd = "visit" => fname \in filesList \ toScan
        /\ bd = "exited" => toScan = {}
        /\ \A f \in Past : f \in filesList <=> Analysable(headAt, f)

(* The results are those of the files scanned to their end. *)
ResultsOf(f) == {k \in DOMAIN results : results[k].file = f}

ResultsExpected ==
    InScan =>
        /\ \A k \in DOMAIN results : results[k].file \in Past \cap filesList
        /\ \A f \in Past \cap filesList :
            /\ Cardinality(ResultsOf(f)) = Cardinality(Expected(headAt, f))
            /\ {results[k].issue : k \in ResultsOf(f)} = IssuesIn(headAt, f, Expected(headAt, f))
        /\ counted = Len(results)

(* Within a file: what a nosec comment covers is behind, and what was tested
   before the node at hand was tested as it should be. *)
Before == 1 .. (nodeAt - 1)

NosecBehind ==
    bd = "visit" =>
        /\ Unparsable => nodeAt = 1
        /\ \A j \in DOMAIN Source.nodes :
            j < nodeAt /\ Source.nodes[j].line \in NosecLines => j + Source.nodes[j].below < nodeAt

FoundExpected ==
    bd = "visit" =>
        LET expected == Expected(headAt, fname) \cap Before
        IN  /\ \A i \in Tested(headAt, fname) \cap Before :
                \/ Source.nodes[i].fault = "none"
                \/ Source.nodes[i].fault = "test" /\ ~BanditDebug
            /\ \A k \in DOMAIN found : found[k].file = fname
            /\ Len(found) = Cardinality(expected)
            /\ {found[k].issue : k \in DOMAIN found} = IssuesIn(headAt, fname, expected)

(* The reports: what the parent's holds, what the current run compares with, and
   the exit code that follows. *)
Severe(issues) == {i \in issues : SeverityOf[i.issue] >= MinSeverity}

ReportsRight ==
    /\ tmpReport.json \in BOOLEAN
    /\ blStep = "idle" => ~tmpReport.json
    /\ blStep \in {"parent", "current", "done"} /\ tmpReport.json =>
        /\ tmpReport.issues = Severe(IssuesOf("parent"))
        /\ blStep = "parent" => wrote
    /\ blStep = "parent" => baseline = {}
    /\ blStep = "current" /\ bd \in {"files", "visit"} => baseline = PopulateBaseline
    /\ blStep \in {"current", "done"} /\ wrote /\ tmpReport.json =>
        /\ exitCode \in {0, 1}
        /\ exitCode = 1 <=> ~ExitZero /\ Severe(IssuesOf("current")) \ Severe(IssuesOf("parent")) # {}

BanditInv ==
    /\ BanditTypeOK /\ StepsInOrder /\ FilesDivided /\ ResultsExpected /\ NosecBehind
    /\ FoundExpected /\ ReportsRight

(* A set of numbers has a least one. *)
LEMMA LeastOfSet ==
    ASSUME NEW S, S \subseteq Nat, S # {}
    PROVE  \E n \in S : \A m \in S : n <= m
  <1>1. PICK n \in S : \A m \in S : ~(<<m, n>> \in OpToRel(<, Nat))
    BY NatLessThanWellFounded, WFMin
  <1>2. \A m \in S : ~(m < n)
    BY <1>1 DEF OpToRel
  <1> QED  BY <1>2

(* The repository and the profile stay, and with them what is expected of a scan. *)
LEMMA BanditSame ==
    ASSUME UNCHANGED blVars
    PROVE  /\ GetFilter' = GetFilter
           /\ \A c, f : /\ Tested(c, f)' = Tested(c, f) /\ Expected(c, f)' = Expected(c, f)
                        /\ Analysable(c, f)' <=> Analysable(c, f)
           /\ \A c, f, nodes : IssuesIn(c, f, nodes)' = IssuesIn(c, f, nodes)
           /\ \A c : IssuesOf(c)' = IssuesOf(c)
           /\ headAt' = headAt => DiscoverFiles' = DiscoverFiles
           /\ headAt' = headAt /\ fname' = fname =>
                Source' = Source /\ NosecLines' = NosecLines /\ (Unparsable' <=> Unparsable)
  <1>1. trees' = trees /\ profile' = profile
    BY DEF blVars
  <1>2. GetFilter' = GetFilter
    BY <1>1 DEF GetFilter
  <1>3. \A c, f : Tested(c, f)' = Tested(c, f)
    BY <1>1 DEF Tested
  <1>4. \A c, f : Expected(c, f)' = Expected(c, f)
    BY <1>1, <1>2, <1>3 DEF Expected
  <1>5. \A c, f : Analysable(c, f)' <=> Analysable(c, f)
    BY <1>1, <1>3 DEF Analysable
  <1>6. \A c, f, nodes : IssuesIn(c, f, nodes)' = IssuesIn(c, f, nodes)
    BY <1>1 DEF IssuesIn
  <1>7. \A c : IssuesOf(c)' = IssuesOf(c)
    BY <1>1, <1>4, <1>5 DEF IssuesOf
  <1>8. headAt' = headAt => DiscoverFiles' = DiscoverFiles
    BY <1>1 DEF DiscoverFiles
  <1>9. headAt' = headAt /\ fname' = fname =>
            Source' = Source /\ NosecLines' = NosecLines /\ (Unparsable' <=> Unparsable)
    BY <1>1 DEF Source, NosecLines, Unparsable
  <1> QED  BY <1>2, <1>3, <1>4, <1>5, <1>6, <1>7, <1>8, <1>9

(* The nodes of a file. *)
LEMMA NodesTyped ==
    ASSUME BanditTypeOK, NEW c \in BCommits, NEW f \in Targets
    PROVE  LET n == trees[c][f].nodes IN
           /\ n \in Seq(AstNode) /\ PreOrder(n) /\ Len(n) \in Nat /\ DOMAIN n = 1 .. Len(n)
           /\ \A i \in DOMAIN n : n[i] \in AstNode
           /\ Tested(c, f) \subseteq 1 .. Len(n) /\ Expected(c, f) \subseteq Tested(c, f)
           /\ \A S \in SUBSET Expected(c, f) : IsFiniteSet(S) /\ Cardinality(S) \in Nat
  <1> DEFINE n == trees[c][f].nodes
  <1>1. n \in Seq(AstNode) /\ PreOrder(n)
    BY BanditAssumption DEF BanditTypeOK, BanditAssumption
  <1>2. Len(n) \in Nat /\ DOMAIN n = 1 .. Len(n)
    BY <1>1, LenProperties
  <1>3. \A i \in DOMAIN n : n[i] \in AstNode
    BY <1>1, <1>2, ElementOfSeq
  <1>4. Tested(c, f) \subseteq 1 .. Len(n) /\ Expected(c, f) \subseteq Tested(c, f)
    BY <1>2 DEF Tested, Expected
  <1>5. IsFiniteSet(1 .. Len(n))
    BY <1>2, FS_Interval
  <1>6. \A S \in SUBSET Expected(c, f) : IsFiniteSet(S) /\ Cardinality(S) \in Nat
    BY <1>4, <1>5, FS_Subset, FS_CardinalityType
  <1> QED  BY <1>1, <1>2, <1>3, <1>4, <1>6

(* The visitor is at a node of the file. *)
LEMMA NodeTyped ==
    ASSUME BanditInv, Visiting
    PROVE  /\ headAt \in BCommits /\ fname \in Targets /\ nodeAt \in Nat \ {0}
           /\ nodeAt \in DOMAIN Source.nodes
           /\ Node \in AstNode /\ Node.below \in Nat /\ Source = trees[headAt][fname]
  <1>1. headAt \in BCommits /\ fname \in Targets /\ nodeAt \in Nat \ {0}
    BY DEF BanditInv, BanditTypeOK, Visiting
  <1>2. nodeAt \in DOMAIN Source.nodes /\ Node \in AstNode
    BY <1>1, NodesTyped DEF BanditInv, Visiting, Source, Node
  <1> QED  BY <1>1, <1>2 DEF AstNode, Source

(* A node the visitor reaches is one to be tested, unless it is on a nosec line ... *)
LEMMA ReachedIsTested ==
    ASSUME BanditInv, Visiting, Node.line \notin NosecLines
    PROVE  nodeAt \in Tested(headAt, fname)
  <1>1. ASSUME NEW j \in 1 .. nodeAt, nodeAt <= j + Source.nodes[j].below
        PROVE  IgnoreNosec \/ Source.nodes[j].line \notin Source.nosec
    <2>1. j \in DOMAIN Source.nodes /\ Source.nodes[j].below \in Nat
      <3>1. DOMAIN Source.nodes = 1 .. Len(Source.nodes) /\ Len(Source.nodes) \in Nat
        BY NodeTyped, NodesTyped DEF BanditInv
      <3>2. j \in DOMAIN Source.nodes
        BY <3>1, NodeTyped
      <3>3. Source.nodes[j] \in AstNode
        BY <3>2, NodeTyped, NodesTyped DEF BanditInv
      <3> QED  BY <3>2, <3>3 DEF AstNode
    <2>2. CASE j = nodeAt
      BY <2>2 DEF Node, NosecLines
    <2>3. CASE j < nodeAt
      <3>1. Source.nodes[j].line \notin NosecLines
        BY <1>1, <2>1, <2>3, NodeTyped DEF BanditInv, NosecBehind, Visiting
      <3> QED  BY <3>1 DEF NosecLines
    <2> QED  BY <2>2, <2>3, NodeTyped
  <1> QED  BY <1>1, NodeTyped DEF Tested

(* ... in which case neither it nor what is below it is to be tested. *)
LEMMA CoveredIsNotTested ==
    ASSUME BanditInv, Visiting, Node.line \in NosecLines,
           NEW i \in Tested(headAt, fname), nodeAt <= i
    PROVE  nodeAt + Node.below < i
  <1>1. i \in Nat /\ nodeAt \in 1 .. i
    BY NodeTyped, NodesTyped DEF BanditInv
  <1>2. i <= nodeAt + Node.below => IgnoreNosec \/ Node.line \notin Source.nosec
    BY <1>1, NodeTyped DEF Tested, Node
  <1> QED  BY <1>1, <1>2, NodeTyped DEF NosecLines

(* A file that could not be analysed to its end is skipped. *)
LEMMA SkipFileKeeps ==
    ASSUME BanditInv, bd = "visit", SkipFile, ~Analysable(headAt, fname),
           UNCHANGED <<blVars, blStep, headAt, tmpReport, baseline, toScan, fname, found,
                       counted,
                       wrote>>
    PROVE  BanditInv'
  <1>1. /\ wrote = FALSE /\ InScan /\ fname \in filesList /\ fname \notin toScan
        /\ fname \in Targets /\ fname \in DiscoverFiles /\ blStep \notin {"done", "raised"}
    BY DEF BanditInv, BanditTypeOK, StepsInOrder, InScan, FilesDivided
  <1>2. CASE fname = Stdin
    <2>1. /\ bd' = "exited" /\ UNCHANGED <<results, skipped, filesList>> /\ ~InScan'
      BY <1>1, <1>2 DEF SkipFile, InScan
    <2>2. BanditTypeOK' /\ StepsInOrder'
      BY <1>1, <2>1 DEF BanditInv, BanditTypeOK, StepsInOrder, blVars
    <2>3. ReportsRight'
      BY <1>1, <2>1, BanditSame DEF BanditInv, ReportsRight, Severe
    <2> QED  BY <2>1, <2>2, <2>3
             DEF BanditInv, FilesDivided, ResultsExpected, NosecBehind, FoundExpected
  <1>3. CASE fname # Stdin
    <2>1. /\ bd' = "files" /\ skipped' = skipped \cup {fname} /\ filesList' = filesList \ {fname}
          /\ UNCHANGED <<results, exitCode>> /\ InScan'
      BY <1>3 DEF SkipFile, InScan
    <2>2. DiscoverFiles' = DiscoverFiles /\ Past' = Past \cup {fname}
      BY <1>1, <2>1, BanditSame DEF Past
    <2>3. BanditTypeOK' /\ StepsInOrder'
      BY <1>1, <2>1 DEF BanditInv, BanditTypeOK, StepsInOrder, blVars
    <2>4. FilesDivided'
      BY <1>1, <2>1, <2>2, BanditSame DEF BanditInv, FilesDivided
    <2>5. ResultsExpected'
      <3>1. fname \notin Past
        BY DEF Past
      <3>2. Past' \cap filesList' = Past \cap filesList
        BY <2>1, <2>2, <3>1
      <3>3. \A f : ResultsOf(f)' = ResultsOf(f)
        BY <2>1 DEF ResultsOf
      <3> QED  BY <1>1, <2>1, <3>2, <3>3, BanditSame DEF BanditInv, ResultsExpected
    <2>6. ReportsRight'
      BY <1>1, <2>1, BanditSame DEF BanditInv, ReportsRight, Severe, PopulateBaseline
    <2> QED  BY <2>1, <2>3, <2>4, <2>5, <2>6 DEF BanditInv, NosecBehind, FoundExpected
  <1> QED  BY <1>2, <1>3

(* Which it could not if it cannot be parsed, or a node that is reached fails. *)
LEMMA FileFailsStep ==
    ASSUME BanditInv, FileFails \/ VisitFails
    PROVE  BanditInv'
  <1>1. CASE FileFails
    <2>1. ~Analysable(headAt, fname)
      BY <1>1 DEF FileFails, Unparsable, Analysable, Source
    <2> QED  BY <1>1, <2>1, SkipFileKeeps DEF FileFails
  <1>2. CASE VisitFails
    <2>1. Visiting /\ Node.line \notin NosecLines
      BY <1>2 DEF VisitFails
    <2>2. nodeAt \in Tested(headAt, fname)
      BY <2>1, ReachedIsTested
    <2>3. ~Analysable(headAt, fname)
      BY <1>2, <2>2 DEF VisitFails, Analysable, Node, Source
    <2> QED  BY <1>2, <2>1, <2>3, SkipFileKeeps DEF VisitFails, Visiting
  <1> QED  BY <1>1, <1>2

(* While a file is visited only the place in it and its findings change. *)
LEMMA VisitKeeps ==
    ASSUME BanditInv, Visiting, found' \in Seq(Finding), nodeAt' \in Nat \ {0},
           UNCHANGED <<blVars, blStep, headAt, tmpReport, bd, baseline, filesList, toScan,
                       skipped, fname, results, counted, exitCode, wrote>>
    PROVE  BanditTypeOK' /\ StepsInOrder' /\ FilesDivided' /\ ResultsExpected' /\ ReportsRight'
  <1>1. BanditTypeOK' /\ StepsInOrder'
    BY DEF BanditInv, BanditTypeOK, StepsInOrder, blVars
  <1>2. DiscoverFiles' = DiscoverFiles /\ Past' = Past /\ InScan' = InScan
    BY BanditSame DEF Past, InScan
  <1>3. FilesDivided'
    BY <1>2, BanditSame DEF BanditInv, FilesDivided
  <1>4. ResultsExpected'
    <2>1. \A f : ResultsOf(f)' = ResultsOf(f)
      BY DEF ResultsOf
    <2> QED  BY <1>2, <2>1, BanditSame DEF BanditInv, ResultsExpected
  <1>5. ReportsRight'
    BY BanditSame DEF BanditInv, ReportsRight, Severe, PopulateBaseline
  <1> QED  BY <1>1, <1>3, <1>4, <1>5

(* A node on a nosec line is passed with what is below it. *)
LEMMA SkipNodeStep ==
    ASSUME BanditInv, SkipNode
    PROVE  BanditInv'
  <1>1. /\ Visiting /\ Node.line \in NosecLines /\ nodeAt' = nodeAt + 1 + Node.below
        /\ UNCHANGED <<blVars, headAt, bd, fname, found>>
    BY DEF SkipNode
  <1>2. /\ nodeAt \in Nat \ {0} /\ Node.below \in Nat /\ headAt \in BCommits /\ fname \in Targets
        /\ nodeAt \in DOMAIN Source.nodes /\ Source = trees[headAt][fname]
    BY <1>1, NodeTyped
  <1>3. /\ Source' = Source /\ NosecLines' = NosecLines /\ ~Unparsable /\ ~Unparsable'
        /\ bd = "visit"
    BY <1>1, BanditSame DEF Visiting
  <1>4. NosecBehind'
    <2>1. ASSUME NEW j \in DOMAIN Source.nodes, j < nodeAt',
         Source.nodes[j].line \in NosecLines
          PROVE  j + Source.nodes[j].below < nodeAt'
      <3>1. j \in Nat /\ Source.nodes[j].below \in Nat
        BY <1>2, NodesTyped DEF BanditInv, AstNode
      <3>2. CASE j < nodeAt
        BY <1>1, <1>2, <1>3, <2>1, <3>1, <3>2 DEF BanditInv, NosecBehind
      <3>3. CASE j = nodeAt
        BY <1>1, <1>2, <3>3 DEF Node
      <3>4. CASE nodeAt < j
        <4>1. PreOrder(Source.nodes)
          BY <1>2, NodesTyped DEF BanditInv
        <4>2. j <= nodeAt + Source.nodes[nodeAt].below
          BY <1>1, <1>2, <2>1, <3>1 DEF Node
        <4>3. j + Source.nodes[j].below <= nodeAt + Source.nodes[nodeAt].below
          BY <1>2, <3>4, <4>1, <4>2 DEF PreOrder
        <4> QED  BY <1>1, <1>2, <3>1, <4>3 DEF Node
      <3> QED  BY <1>2, <3>1, <3>2, <3>3, <3>4
    <2> QED  BY <1>3, <2>1 DEF NosecBehind
  <1>5. Tested(headAt, fname) \cap Before' = Tested(headAt, fname) \cap Before
    <2>1. ASSUME NEW i \in Tested(headAt, fname) PROVE i \in Before' <=> i \in Before
      <3>1. i \in Nat \ {0}
        BY <1>2, NodesTyped DEF BanditInv
      <3>2. nodeAt <= i => nodeAt + Node.below < i
        BY <1>1, CoveredIsNotTested
      <3> QED  BY <1>1, <1>2, <3>1, <3>2 DEF Before
    <2> QED  BY <2>1
  <1>6. Expected(headAt, fname) \cap Before' = Expected(headAt, fname) \cap Before
    BY <1>2, <1>5, NodesTyped DEF BanditInv
  <1>7. FoundExpected'
    BY <1>1, <1>3, <1>5, <1>6, BanditSame DEF BanditInv, FoundExpected
  <1>8. nodeAt' \in Nat \ {0} /\ found' \in Seq(Finding)
    BY <1>1, <1>2 DEF BanditInv, BanditTypeOK
  <1> QED  BY <1>1, <1>4, <1>7, <1>8, VisitKeeps DEF SkipNode, BanditInv

(* A node that is tested adds the finding expected of it. *)
LEMMA RunTestsStep ==
    ASSUME BanditInv, RunTests
    PROVE  BanditInv'
  <1> DEFINE hit == Node.fault = "none" /\ Node.issue # NoIssue /\ TestOf[Node.issue] \in GetFilter
             new == [issue |-> Node.issue, file |-> fname]
             E == Expected(headAt, fname)
  <1>1. /\ Visiting /\ Node.line \notin NosecLines /\ nodeAt' = nodeAt + 1
        /\ Node.fault = "none" \/ (Node.fault = "test" /\ ~BanditDebug)
        /\ found' = IF hit THEN Append(found, new) ELSE found
        /\ UNCHANGED <<blVars, headAt, bd, fname>>
    BY DEF RunTests
  <1>2. /\ nodeAt \in Nat \ {0} /\ headAt \in BCommits /\ fname \in Targets /\ Node \in AstNode
        /\ nodeAt \in DOMAIN Source.nodes /\ Source = trees[headAt][fname]
    BY <1>1, NodeTyped
  <1>3. /\ Source' = Source /\ NosecLines' = NosecLines /\ ~Unparsable /\ ~Unparsable'
        /\ bd = "visit"
    BY <1>1, BanditSame DEF Visiting
  <1>4. nodeAt \in Tested(headAt, fname)
    BY <1>1, ReachedIsTested
  <1>5. Before' = Before \cup {nodeAt} /\ nodeAt \notin Before
    BY <1>1, <1>2 DEF Before
  <1>6. nodeAt \in E <=> hit
    BY <1>2, <1>4 DEF Expected, Node
  <1>7. NosecBehind'
    <2>1. ASSUME NEW j \in DOMAIN Source.nodes, j < nodeAt',
         Source.nodes[j].line \in NosecLines
          PROVE  j + Source.nodes[j].below < nodeAt'
      <3>1. j \in Nat /\ Source.nodes[j].below \in Nat /\ j # nodeAt
        BY <1>1, <1>2, <2>1, NodesTyped DEF BanditInv, AstNode, Node
      <3>2. j + Source.nodes[j].below < nodeAt
        BY <1>1, <1>2, <1>3, <2>1, <3>1 DEF BanditInv, NosecBehind
      <3> QED  BY <1>1, <1>2, <3>1, <3>2
    <2> QED  BY <1>3, <2>1 DEF NosecBehind
  <1>8. found \in Seq(Finding) /\ Len(found) \in Nat /\ DOMAIN found = 1 .. Len(found)
    BY LenProperties DEF BanditInv, BanditTypeOK
  <1>9. hit => new \in Finding
    BY <1>2 DEF Finding, AstNode
  <1>10. found' \in Seq(Finding)
    BY <1>1, <1>8, <1>9
  <1>11. FoundExpected'
    <2>1. /\ \A i \in Tested(headAt, fname) \cap Before :
                \/ Source.nodes[i].fault = "none"
                \/ Source.nodes[i].fault = "test" /\ ~BanditDebug
          /\ \A k \in DOMAIN found : found[k].file = fname
          /\ Len(found) = Cardinality(E \cap Before)
          /\ {found[k].issue : k \in DOMAIN found} = IssuesIn(headAt, fname, E \cap Before)
      BY <1>3 DEF BanditInv, FoundExpected
    <2>2. \A i \in Tested(headAt, fname) \cap Before' :
                \/ Source.nodes[i].fault = "none"
                \/ Source.nodes[i].fault = "test" /\ ~BanditDebug
      BY <1>1, <1>5, <2>1 DEF Node
    <2>3. /\ \A k \in DOMAIN found' : found'[k].file = fname
          /\ Len(found') = Cardinality(E \cap Before')
          /\ {found'[k].issue : k \in DOMAIN found'} = IssuesIn(headAt, fname, E \cap Before')
      <3>1. CASE ~hit
        <4>1. E \cap Before' = E \cap Before /\ found' = found
          BY <1>1, <1>5, <1>6, <3>1
        <4> QED  BY <2>1, <4>1
      <3>2. CASE hit
        <4>1. /\ E \cap Before' = (E \cap Before) \cup {nodeAt} /\ nodeAt \notin E \cap Before
              /\ found' = Append(found, new)
          BY <1>1, <1>5, <1>6, <3>2
        <4>2. /\ Len(found') = Len(found) + 1 /\ DOMAIN found' = 1 .. (Len(found) + 1)
              /\ \A k \in 1 .. Len(found) : found'[k] = found[k]
              /\ found'[Len(found) + 1] = new
          BY <1>8, <1>9, <3>2, <4>1, AppendProperties
        <4>3. IsFiniteSet(E \cap Before)
          BY <1>2, NodesTyped DEF BanditInv
        <4>4. Cardinality(E \cap Before') = Cardinality(E \cap Before) + 1
          BY <4>1, <4>3, FS_AddElement
        <4>5. \A k \in DOMAIN found' : found'[k].file = fname
          <5>1. \A k \in 1 .. Len(found) : found[k].file = fname
            BY <1>8, <2>1
          <5>2. \A k \in DOMAIN found' : k \in 1 .. Len(found) \/ k = Len(found) + 1
            BY <1>8, <4>2
          <5> QED  BY <4>2, <5>1, <5>2
        <4>6. {found'[k].issue : k \in DOMAIN found'} =
                {found[k].issue : k \in DOMAIN found} \cup {Node.issue}
          BY <1>8, <4>2
        <4>7. IssuesIn(headAt, fname, E \cap Before') =
                IssuesIn(headAt, fname, E \cap Before) \cup {Node.issue}
          BY <1>2, <4>1 DEF IssuesIn, Node
        <4> QED  BY <2>1, <4>2, <4>4, <4>5, <4>6, <4>7
      <3> QED  BY <3>1, <3>2
    <2>4. /\ Expected(headAt, fname)' = E
          /\ Tested(headAt, fname)' = Tested(headAt, fname)
          /\ \A S : IssuesIn(headAt, fname, S)' = IssuesIn(headAt, fname, S)
      BY <1>1, BanditSame
    <2> HIDE DEF E
    <2> QED  BY <1>1, <1>3, <2>2, <2>3, <2>4 DEF FoundExpected
  <1>12. nodeAt' \in Nat \ {0}
    BY <1>1, <1>2
  <1> QED  BY <1>1, <1>7, <1>10, <1>11, <1>12, VisitKeeps DEF RunTests, BanditInv

(* A file visited to its end is one that can be analysed, and its findings become
   results. *)
LEMMA EndFileStep ==
    ASSUME BanditInv, EndFile
    PROVE  BanditInv'
  <1> DEFINE E == Expected(headAt, fname)
             m == Len(results)
             n == Len(found)
  <1>1. /\ bd = "visit" /\ ~Unparsable /\ nodeAt > Len(Source.nodes)
        /\ results' = results \o found /\ counted' = counted + n /\ bd' = "files"
        /\ UNCHANGED <<blVars, blStep, headAt, tmpReport, baseline, filesList, toScan,
                       skipped,
                       fname, found, exitCode, wrote>>
    BY DEF EndFile, CountIssues
  <1>2. /\ headAt \in BCommits /\ fname \in Targets /\ nodeAt \in Nat \ {0} /\ wrote = FALSE
        /\ InScan /\ fname \in filesList /\ fname \notin toScan /\ fname \in DiscoverFiles
    BY <1>1 DEF BanditInv, BanditTypeOK, StepsInOrder, InScan, FilesDivided
  <1>3. Tested(headAt, fname) \cap Before = Tested(headAt, fname) /\ E \cap Before = E
    <2>1. /\ Tested(headAt, fname) \subseteq 1 .. Len(Source.nodes) /\ E \subseteq Tested(headAt, fname)
          /\ Len(Source.nodes) \in Nat
      BY <1>2, NodesTyped DEF BanditInv, Source
    <2>2. 1 .. Len(Source.nodes) \subseteq Before
      BY <1>1, <1>2, <2>1 DEF Before
    <2> QED  BY <2>1, <2>2
  <1>4. /\ \A i \in Tested(headAt, fname) :
                \/ Source.nodes[i].fault = "none"
                \/ Source.nodes[i].fault = "test" /\ ~BanditDebug
        /\ \A k \in DOMAIN found : found[k].file = fname
        /\ n = Cardinality(E)
        /\ {found[k].issue : k \in DOMAIN found} = IssuesIn(headAt, fname, E)
    <2> HIDE DEF E
    <2> QED  BY <1>1, <1>3 DEF BanditInv, FoundExpected, E
  <1>5. Analysable(headAt, fname)
    BY <1>1, <1>4 DEF Analysable, Unparsable, Source
  <1>6. /\ results \in Seq(Finding) /\ found \in Seq(Finding) /\ m \in Nat /\ n \in Nat
        /\ DOMAIN results = 1 .. m /\ DOMAIN found = 1 .. n
    BY LenProperties DEF BanditInv, BanditTypeOK
  <1>7. /\ results' \in Seq(Finding) /\ Len(results') = m + n /\ DOMAIN results' = 1 .. (m + n)
        /\ \A k \in 1 .. m : results'[k] = results[k]
        /\ \A k \in (m + 1) .. (m + n) : results'[k] = found[k - m]
    <2>1. results' \in Seq(Finding) /\ Len(results') = m + n
      BY <1>1, <1>6, ConcatProperties
    <2>2. DOMAIN results' = 1 .. (m + n)
      BY <2>1, LenProperties
    <2>3. \A k \in 1 .. (m + n) : results'[k] = IF k <= m THEN results[k] ELSE found[k - m]
      BY <1>1, <1>6, ConcatProperties
    <2> QED  BY <1>6, <2>1, <2>2, <2>3
  <1>8. Past' = Past \cup {fname} /\ fname \notin Past /\ InScan' /\ DiscoverFiles' = DiscoverFiles
    BY <1>1, <1>2, BanditSame DEF Past, InScan
  <1>9. BanditTypeOK'
    BY <1>1, <1>6, <1>7 DEF BanditInv, BanditTypeOK, blVars
  <1>10. StepsInOrder'
    BY <1>1, <1>2 DEF BanditInv, StepsInOrder, blVars
  <1>11. FilesDivided'
    BY <1>1, <1>2, <1>5, <1>8, BanditSame DEF BanditInv, FilesDivided
  <1>12. /\ \A k \in 1 .. m : results[k].file \in Past \cap filesList
         /\ \A k \in (m + 1) .. (m + n) : results'[k].file = fname
    <2>1. \A k \in 1 .. m : results[k].file \in Past \cap filesList
      BY <1>2, <1>6 DEF BanditInv, ResultsExpected
    <2>2. \A k \in (m + 1) .. (m + n) : k - m \in 1 .. n
      BY <1>6
    <2> QED  BY <1>4, <1>6, <1>7, <2>1, <2>2
  <1>13. ResultsOf(fname)' = (m + 1) .. (m + n)
    <2>1. ResultsOf(fname)' = {k \in 1 .. (m + n) : results'[k].file = fname}
      BY <1>1, <1>7 DEF ResultsOf
    <2>2. \A k \in 1 .. (m + n) : k \in 1 .. m \/ k \in (m + 1) .. (m + n)
      BY <1>6
    <2>3. \A k \in 1 .. m : results'[k].file # fname
      BY <1>7, <1>8, <1>12
    <2>4. \A k \in (m + 1) .. (m + n) : k \in 1 .. (m + n) /\ k \notin 1 .. m
      BY <1>6
    <2> QED  BY <1>12, <2>1, <2>2, <2>3, <2>4
  <1>14. /\ Cardinality(ResultsOf(fname)') = Cardinality(E)
         /\ {results'[k].issue : k \in ResultsOf(fname)'} = IssuesIn(headAt, fname, E)
    <2>1. Cardinality((m + 1) .. (m + n)) = n
      <3>1. m + 1 \in Int /\ m + n \in Int
        BY <1>6
      <3>2. Cardinality((m + 1) .. (m + n)) = IF m + 1 > m + n THEN 0 ELSE (m + n) - (m + 1) + 1
        BY <3>1, FS_Interval
      <3> QED  BY <1>6, <3>2
    <2>2. {results'[k].issue : k \in (m + 1) .. (m + n)} = {found[k].issue : k \in 1 .. n}
      <3>1. \A k \in (m + 1) .. (m + n) : k - m \in 1 .. n /\ results'[k] = found[k - m]
        BY <1>6, <1>7
      <3>2. \A k \in 1 .. n : k + m \in (m + 1) .. (m + n) /\ results'[k + m] = found[k]
        <4>1. \A k \in 1 .. n : k + m \in (m + 1) .. (m + n) /\ (k + m) - m = k
          BY <1>6
        <4> QED  BY <1>7, <4>1
      <3> HIDE DEF m, n
      <3> QED  BY <3>1, <3>2
    <2> QED  BY <1>4, <1>6, <1>13, <2>1, <2>2
  <1>15. ASSUME NEW f \in Past \cap filesList
         PROVE  /\ ResultsOf(f)' = ResultsOf(f)
                /\ \A k \in ResultsOf(f) : results'[k] = results[k]
    <2>1. f # fname
      BY <1>8
    <2>2. ResultsOf(f)' = {k \in 1 .. (m + n) : results'[k].file = f}
      BY <1>7 DEF ResultsOf
    <2>3. ResultsOf(f) = {k \in 1 .. m : results[k].file = f}
      BY <1>6 DEF ResultsOf
    <2>4. \A k \in 1 .. (m + n) : k \in 1 .. m \/ k \in (m + 1) .. (m + n)
      BY <1>6
    <2>5. \A k \in 1 .. m : k \in 1 .. (m + n)
      BY <1>6
    <2> QED  BY <1>7, <1>12, <2>1, <2>2, <2>3, <2>4, <2>5
  <1>16. ResultsExpected'
    <2>1. \A k \in DOMAIN results' : results'[k].file \in Past' \cap filesList'
      <3>1. \A k \in 1 .. (m + n) : k \in 1 .. m \/ k \in (m + 1) .. (m + n)
        BY <1>6
      <3> QED  BY <1>1, <1>2, <1>7, <1>8, <1>12, <3>1
    <2>2. ASSUME NEW f \in Past' \cap filesList'
          PROVE  /\ Cardinality(ResultsOf(f)') = Cardinality(Expected(headAt, f))
                 /\ {results'[k].issue : k \in ResultsOf(f)'} = IssuesIn(headAt, f, Expected(headAt, f))
      <3>1. CASE f = fname
        BY <1>1, <1>14, <3>1
      <3>2. CASE f # fname
        <4>1. f \in Past \cap filesList
          BY <1>1, <1>8, <2>2, <3>2
        <4>2. /\ Cardinality(ResultsOf(f)) = Cardinality(Expected(headAt, f))
              /\ {results[k].issue : k \in ResultsOf(f)} = IssuesIn(headAt, f, Expected(headAt, f))
          BY <1>2, <4>1 DEF BanditInv, ResultsExpected
        <4> QED  BY <1>15, <4>1, <4>2
      <3> QED  BY <3>1, <3>2
    <2>3. counted' = Len(results')
      BY <1>1, <1>2, <1>7 DEF BanditInv, ResultsExpected
    <2>4. /\ \A f : Expected(headAt, f)' = Expected(headAt, f)
          /\ \A f, S : IssuesIn(headAt, f, S)' = IssuesIn(headAt, f, S)
      BY <1>1, BanditSame
    <2> QED  BY <2>1, <2>2, <2>3, <2>4 DEF ResultsExpected
  <1>17. ReportsRight'
    BY <1>1, <1>2, BanditSame DEF BanditInv, ReportsRight, Severe, PopulateBaseline
  <1> QED  BY <1>1, <1>9, <1>10, <1>11, <1>16, <1>17 DEF BanditInv, NosecBehind,
       FoundExpected

(* The next file is begun. *)
LEMMA ParseFileStep ==
    ASSUME BanditInv, ParseFile
    PROVE  BanditInv'
  <1>1. /\ bd = "files" /\ toScan # {} /\ toScan \subseteq Targets /\ InScan /\ wrote = FALSE
        /\ toScan' = toScan \ {fname'} /\ nodeAt' = 1 /\ found' = << >> /\ bd' = "visit"
        /\ UNCHANGED <<blVars, blStep, headAt, tmpReport, baseline, filesList, skipped,
                       results,
                       counted, exitCode, wrote>>
    BY DEF ParseFile, BanditInv, BanditTypeOK, StepsInOrder, InScan
  <1>2. fname' \in toScan
    <2>1. \E f \in toScan : \A g \in toScan : f <= g
      BY <1>1, BanditAssumption, LeastOfSet DEF BanditAssumption
    <2> QED  BY <2>1 DEF ParseFile
  <1>3. BanditTypeOK'
    BY <1>1, <1>2 DEF BanditInv, BanditTypeOK, blVars
  <1>4. StepsInOrder'
    BY <1>1 DEF BanditInv, StepsInOrder, blVars
  <1>5. DiscoverFiles' = DiscoverFiles /\ Past' = Past /\ InScan'
    BY <1>1, <1>2, BanditSame DEF Past, InScan
  <1>6. FilesDivided'
    BY <1>1, <1>2, <1>5, BanditSame DEF BanditInv, FilesDivided
  <1>7. ResultsExpected'
    <2>1. \A f : ResultsOf(f)' = ResultsOf(f)
      BY <1>1 DEF ResultsOf
    <2> QED  BY <1>1, <1>5, <2>1, BanditSame DEF BanditInv, ResultsExpected
  <1>8. NosecBehind'
    <2>1. fname' \in Targets /\ headAt' \in BCommits
      BY <1>1, <1>2 DEF BanditInv, BanditTypeOK
    <2>2. \A j \in DOMAIN Source.nodes' : j \in Nat \ {0}
      BY <1>3, <2>1, NodesTyped, BanditAssumption DEF BanditTypeOK, Source,
           BanditAssumption
    <2> QED  BY <1>1, <2>2 DEF NosecBehind
  <1>9. FoundExpected'
    <2>1. Before' = {}
      BY <1>1 DEF Before
    <2>2. Cardinality({}) = 0
      BY FS_EmptySet
    <2>3. DOMAIN found' = {} /\ Len(found') = 0
      BY <1>1
    <2>4. \A c, f : IssuesIn(c, f, {})' = {}
      BY DEF IssuesIn
    <2> QED  BY <1>1, <2>1, <2>2, <2>3, <2>4 DEF FoundExpected
  <1>10. ReportsRight'
    BY <1>1, BanditSame DEF BanditInv, ReportsRight, Severe, PopulateBaseline
  <1> QED  BY <1>3, <1>4, <1>6, <1>7, <1>8, <1>9, <1>10 DEF BanditInv

(* What the results are about when every file is past. *)
LEMMA ResultsAreIssues ==
    ASSUME BanditInv, bd = "files", toScan = {}
    PROVE  ToSet(results) = IssuesOf(headAt)
  <1>1. InScan /\ Past = DiscoverFiles /\ headAt \in BCommits
    BY DEF InScan, Past, BanditInv, BanditTypeOK
  <1>2. results \in Seq(Finding) /\ \A k \in DOMAIN results : results[k] \in Finding
    BY ElementOfSeq, LenProperties DEF BanditInv, BanditTypeOK
  <1>3. \A f \in Targets : IsFileIncluded(f) /\ Analysable(headAt, f) <=>
            f \in Past \cap filesList
    <2>1. ASSUME NEW f \in Targets, IsFileIncluded(f), Analysable(headAt, f)
          PROVE  f \in Past \cap filesList
      <3>1. f \in DiscoverFiles
        BY <2>1 DEF DiscoverFiles, Analysable
      <3> QED  BY <1>1, <2>1, <3>1 DEF BanditInv, FilesDivided
    <2>2. ASSUME NEW f \in Past \cap filesList
          PROVE  IsFileIncluded(f) /\ Analysable(headAt, f)
      BY <1>1, <2>2 DEF BanditInv, FilesDivided, DiscoverFiles
    <2> QED  BY <2>1, <2>2
  <1>4. ASSUME NEW k \in DOMAIN results PROVE results[k] \in IssuesOf(headAt)
    <2>1. PICK f \in Past \cap filesList : f = results[k].file
      BY <1>1 DEF BanditInv, ResultsExpected
    <2>2. f \in Targets
      BY <1>2, <2>1 DEF Finding
    <2>3. results[k].issue \in IssuesIn(headAt, f, Expected(headAt, f))
      BY <1>1, <2>1 DEF BanditInv, ResultsExpected, ResultsOf
    <2>4. PICK i \in Expected(headAt, f) : results[k].issue = trees[headAt][f].nodes[i].issue
      BY <2>3 DEF IssuesIn
    <2>5. results[k] = [issue |-> trees[headAt][f].nodes[i].issue, file |-> f]
      BY <1>2, <2>1, <2>4 DEF Finding
    <2> QED  BY <1>3, <2>1, <2>2, <2>4, <2>5 DEF IssuesOf
  <1>5. ASSUME NEW x \in IssuesOf(headAt) PROVE \E k \in DOMAIN results : results[k] = x
    <2>1. PICK f \in Targets : /\ IsFileIncluded(f) /\ Analysable(headAt, f)
                               /\ \E i \in Expected(headAt, f) :
                                    x = [issue |-> trees[headAt][f].nodes[i].issue, file |-> f]
      BY <1>5 DEF IssuesOf
    <2>2. PICK i \in Expected(headAt, f) :
                x = [issue |-> trees[headAt][f].nodes[i].issue, file |-> f]
      BY <2>1
    <2>3. f \in Past \cap filesList
      BY <1>3, <2>1
    <2>4. trees[headAt][f].nodes[i].issue \in IssuesIn(headAt, f, Expected(headAt, f))
      BY DEF IssuesIn
    <2>5. PICK k \in ResultsOf(f) : results[k].issue = trees[headAt][f].nodes[i].issue
      BY <1>1, <2>3, <2>4 DEF BanditInv, ResultsExpected
    <2>6. k \in DOMAIN results /\ results[k] = x
      BY <1>2, <2>2, <2>5 DEF ResultsOf, Finding
    <2> QED  BY <2>6
  <1> QED  BY <1>4, <1>5 DEF ToSet

(* The report says what the issues of the commit are, but for those of the parent. *)
LEMMA ReportStep ==
    ASSUME BanditInv, Report
    PROVE  BanditInv'
  <1> DEFINE S(c) == Severe(IssuesOf(c))
  <1>1. /\ bd = "files" /\ toScan = {} /\ bd' = "exited" /\ wrote' = TRUE
        /\ exitCode' = IF FilterResults # {} /\ ~ExitZero THEN 1 ELSE 0
        /\ tmpReport' = IF blStep = "parent" THEN JsonReport ELSE tmpReport
        /\ UNCHANGED <<blVars, blStep, headAt, baseline, scanVars>>
    BY DEF Report
  <1>2. InScan /\ InScan' /\ wrote = FALSE /\ blStep \notin {"done", "raised"}
    BY <1>1 DEF InScan, BanditInv, StepsInOrder
  <1>3. BanditTypeOK' /\ StepsInOrder'
    BY <1>1, <1>2 DEF BanditInv, BanditTypeOK, StepsInOrder, blVars, scanVars
  <1>4. DiscoverFiles' = DiscoverFiles /\ Past' = Past
    BY <1>1, BanditSame DEF Past, scanVars
  <1>5. FilesDivided'
    BY <1>1, <1>2, <1>4, BanditSame DEF BanditInv, FilesDivided, scanVars
  <1>6. ResultsExpected'
    <2>1. \A f : ResultsOf(f)' = ResultsOf(f)
      BY <1>1 DEF ResultsOf, scanVars
    <2> QED  BY <1>1, <1>2, <1>4, <2>1, BanditSame DEF BanditInv, ResultsExpected, scanVars
  <1>7. ToSet(results) = IssuesOf(headAt)
    BY <1>1, ResultsAreIssues
  <1>8. FilterResults = IF baseline = {} THEN S(headAt) ELSE {r \in S(headAt) : Unmatched(r)}
    BY <1>7 DEF FilterResults, Severe
  <1>9. ASSUME NEW c, NEW r \in IssuesOf(c), baseline \subseteq IssuesOf("parent")
        PROVE  Unmatched(r) <=> r \notin baseline
    <2>1. \A d : \A x \in IssuesOf(d) : x = [issue |-> x.issue, file |-> x.file]
      BY DEF IssuesOf
    <2>2. \A b \in baseline : SameIssue(r, b) <=> r = b
      BY <1>9, <2>1 DEF SameIssue
    <2> QED  BY <2>2 DEF Unmatched
  <1>10. ReportsRight'
    <2>1. CASE blStep = "parent"
      <3>1. baseline = {} /\ headAt = "parent"
        BY <2>1 DEF BanditInv, ReportsRight, StepsInOrder
      <3>2. tmpReport' = [json |-> TRUE, issues |-> S("parent")]
        BY <1>1, <1>8, <2>1, <3>1 DEF JsonReport
      <3>3. blStep' = "parent" /\ baseline' = {}
        BY <1>1, <2>1, <3>1
      <3>4. Severe(IssuesOf("parent")') = S("parent")
        BY <1>1, BanditSame
      <3>5. tmpReport'.json = TRUE /\ tmpReport'.issues = Severe(IssuesOf("parent")')
        BY <3>2, <3>4
      <3> QED  BY <1>1, <3>3, <3>5 DEF ReportsRight
    <2>2. CASE blStep = "current"
      <3>1. baseline = PopulateBaseline /\ headAt = "current" /\ tmpReport' = tmpReport
        BY <1>1, <2>2 DEF BanditInv, ReportsRight, StepsInOrder
      <3>2. ASSUME tmpReport.json
            PROVE  /\ exitCode' \in {0, 1}
                   /\ exitCode' = 1 <=> ~ExitZero /\ S("current") \ S("parent") # {}
        <4>1. baseline = S("parent")
          BY <2>2, <3>1, <3>2 DEF PopulateBaseline, BanditInv, ReportsRight
        <4>2. baseline \subseteq IssuesOf("parent")
          BY <4>1 DEF Severe
        <4>3. FilterResults = S("current") \ S("parent")
          <5>1. \A r \in S("current") : Unmatched(r) <=> r \notin S("parent")
            BY <1>9, <4>1, <4>2 DEF Severe
          <5> QED  BY <1>8, <3>1, <4>1, <5>1
        <4> QED  BY <1>1, <4>3
      <3> QED  BY <1>1, <2>2, <3>1, <3>2, BanditSame DEF BanditInv, ReportsRight, Severe
    <2>3. CASE blStep \notin {"parent", "current"}
      BY <1>1, <1>2, <2>3, BanditSame DEF BanditInv, ReportsRight
    <2> QED  BY <2>1, <2>2, <2>3
  <1> QED  BY <1>1, <1>3, <1>5, <1>6, <1>10 DEF BanditInv, NosecBehind, FoundExpected

(* A bandit process begins. *)
LEMMA LaunchStep ==
    ASSUME BanditInv, RunBandit \/ BaselineStep
    PROVE  BanditInv'
  <1>1. PICK c \in BCommits : /\ LaunchBandit(c) /\ UNCHANGED blVars
                              /\ \/ c = "current" /\ blStep' = blStep /\ RunBandit
                                 \/ command # "bandit" /\ blStep = "idle" /\ blStep' = "parent" /\ c = "parent"
                                 \/ /\ command # "bandit"
                                    /\ blStep = "parent" /\ blStep' = "current" /\ c = "current"
    BY DEF RunBandit, BaselineStep, BCommits
  <1>2. /\ headAt' = c /\ bd' = "start" /\ wrote' = FALSE /\ baseline' = {}
        /\ tmpReport' = IF c = "parent" THEN NoReport ELSE tmpReport
        /\ toScan' = {} /\ filesList' = {} /\ skipped' = {} /\ found' = << >> /\ results' = << >>
        /\ counted' = 0
    BY <1>1 DEF LaunchBandit
  <1>3. RunBandit => command = "bandit" /\ blStep = "idle"
    BY DEF RunBandit, BanditInv, StepsInOrder
  <1>4. StepsInOrder'
    BY <1>1, <1>2, <1>3 DEF BanditInv, StepsInOrder, blVars
  <1> DEFINE none == << >>
  <1>5. none \in Seq(Finding)
    OBVIOUS
  <1>6. BanditTypeOK'
    BY <1>1, <1>2, <1>3, <1>5 DEF BanditInv, BanditTypeOK, blVars
  <1>7. ReportsRight'
    BY <1>1, <1>2, <1>3, BanditSame DEF BanditInv, ReportsRight, NoReport, Severe
  <1> QED  BY <1>2, <1>4, <1>6, <1>7
           DEF BanditInv, InScan, FilesDivided, ResultsExpected, NosecBehind, FoundExpected

(* bandit-baseline does not begin, cannot start bandit, or ends. *)
LEMMA BaselineLeaves ==
    ASSUME BanditInv, BaselineRefuses \/ BanditMissing \/ BaselineEnds
    PROVE  BanditInv'
  <1>1. /\ UNCHANGED <<blVars, tmpReport, bd, baseline, scanVars, wrote>>
        /\ command # "bandit" /\ bd \in {"off", "exited"} /\ headAt' \in BCommits
        /\ \/ blStep = "idle" /\ blStep' = "refused" /\ headAt' = headAt
           \/ blStep' = "raised"
           \/ /\ blStep = "current" /\ blStep' = "done" /\ bd = "exited" /\ headAt' = headAt
              /\ exitCode' = exitCode /\ headAt = "current"
    BY DEF BaselineRefuses, BanditMissing, BaselineEnds, BanditInv, BanditTypeOK,
         BCommits,
           StepsInOrder
  <1>2. BanditTypeOK' /\ StepsInOrder'
    BY <1>1 DEF BanditInv, BanditTypeOK, StepsInOrder, blVars, scanVars
  <1>3. NosecBehind' /\ FoundExpected'
    BY <1>1 DEF NosecBehind, FoundExpected
  <1>4. ReportsRight'
    BY <1>1, BanditSame DEF BanditInv, ReportsRight
  <1>5. InScan' => InScan /\ headAt' = headAt
    BY <1>1 DEF InScan
  <1>6. headAt' = headAt => Past' = Past
    BY <1>1, BanditSame DEF Past, scanVars
  <1>7. FilesDivided'
    BY <1>1, <1>5, <1>6, BanditSame DEF BanditInv, FilesDivided, scanVars
  <1>8. ResultsExpected'
    <2>1. \A f : ResultsOf(f)' = ResultsOf(f)
      BY <1>1 DEF ResultsOf, scanVars
    <2> QED  BY <1>1, <1>5, <1>6, <2>1, BanditSame DEF BanditInv, ResultsExpected, scanVars
  <1> QED  BY <1>2, <1>3, <1>4, <1>7, <1>8 DEF BanditInv

(* The scan begins with the files discovered and no result. *)
LEMMA ConfigureStep ==
    ASSUME BanditInv, Configure
    PROVE  BanditInv'
  <1>1. /\ bd = "start" /\ bd' = "files" /\ filesList' = DiscoverFiles /\ toScan' = DiscoverFiles
        /\ baseline' = IF blStep = "current" THEN PopulateBaseline ELSE {}
        /\ UNCHANGED <<blVars, blStep, headAt, tmpReport, skipped, fname, nodeAt, found,
                       results, nosecs, counted, exitCode, wrote>>
    BY DEF Configure
  <1>2. skipped = {} /\ results = << >> /\ counted = 0
    BY <1>1 DEF BanditInv, StepsInOrder
  <1>3. DiscoverFiles' = DiscoverFiles /\ DiscoverFiles \subseteq Targets /\ Past' = {}
    BY <1>1, BanditSame DEF DiscoverFiles, Past
  <1>4. BanditTypeOK' /\ StepsInOrder'
    BY <1>1, <1>3 DEF BanditInv, BanditTypeOK, StepsInOrder, blVars
  <1>5. NosecBehind' /\ FoundExpected'
    BY <1>1 DEF NosecBehind, FoundExpected
  <1>6. ReportsRight'
    <2>1. PopulateBaseline' = PopulateBaseline
      BY <1>1 DEF PopulateBaseline
    <2> QED  BY <1>1, <2>1, BanditSame DEF BanditInv, ReportsRight, StepsInOrder
  <1>7. FilesDivided'
    BY <1>1, <1>2, <1>3 DEF FilesDivided
  <1>8. ResultsExpected'
    BY <1>1, <1>2, <1>3 DEF ResultsExpected
  <1> QED  BY <1>4, <1>5, <1>6, <1>7, <1>8 DEF BanditInv

(* bandit ends without a report. *)
LEMMA NoReportStep ==
    ASSUME BanditInv, ExitTwo \/ ReportFails
    PROVE  BanditInv'
  <1>1. /\ bd \in {"start", "files"} /\ bd' = "exited"
        /\ UNCHANGED <<blVars, blStep, headAt, tmpReport, baseline, scanVars, wrote>>
    BY DEF ExitTwo, ReportFails
  <1>2. wrote = FALSE
    BY <1>1 DEF BanditInv, BanditTypeOK, StepsInOrder
  <1>3. BanditTypeOK' /\ StepsInOrder'
    BY <1>1, <1>2 DEF BanditInv, BanditTypeOK, StepsInOrder, blVars, scanVars
  <1>4. NosecBehind' /\ FoundExpected' /\ ~InScan'
    BY <1>1, <1>2 DEF NosecBehind, FoundExpected, InScan
  <1>5. ReportsRight'
    BY <1>1, <1>2, BanditSame DEF BanditInv, ReportsRight
  <1> QED  BY <1>3, <1>4, <1>5 DEF BanditInv, FilesDivided, ResultsExpected

(* So does a step of another component. *)
LEMMA BanditStutters ==
    ASSUME BanditInv, UNCHANGED banditVars
    PROVE  BanditInv'
  <1>1. /\ UNCHANGED <<blVars, blStep, headAt, tmpReport, bd, baseline, filesList,
                       toScan, skipped,
                       fname, nodeAt, found, results, counted, exitCode, wrote>>
    BY DEF banditVars, scanVars
  <1>2. Past' = Past /\ (InScan' <=> InScan)
    BY <1>1, BanditSame DEF Past, InScan
  <1>3. \A f : ResultsOf(f)' = ResultsOf(f)
    BY <1>1 DEF ResultsOf
  <1>4. Before' = Before /\ PopulateBaseline' = PopulateBaseline
    BY <1>1 DEF Before, PopulateBaseline
  <1>5. BanditTypeOK' /\ StepsInOrder'
    BY <1>1 DEF BanditInv, BanditTypeOK, StepsInOrder, blVars
  <1>6. FilesDivided' /\ ResultsExpected'
    BY <1>1, <1>2, <1>3, BanditSame DEF BanditInv, FilesDivided, ResultsExpected
  <1>7. NosecBehind' /\ FoundExpected'
    BY <1>1, <1>4, BanditSame DEF BanditInv, NosecBehind, FoundExpected
  <1>8. ReportsRight'
    BY <1>1, <1>4, BanditSame DEF BanditInv, ReportsRight
  <1> QED  BY <1>5, <1>6, <1>7, <1>8 DEF BanditInv

(* The invariant holds before the first command. *)
LEMMA BanditStarts ==
    ASSUME BanditInit
    PROVE  BanditInv
  <1>1. StepsInOrder
    BY DEF BanditInit, StepsInOrder
  <1> DEFINE none == << >>
  <1>2. none \in Seq(Finding)
    OBVIOUS
  <1>3. BanditTypeOK
    BY <1>2 DEF BanditInit, BanditTypeOK, BCommits
  <1>4. ~InScan
    BY DEF BanditInit, InScan
  <1>5. ReportsRight
    BY DEF BanditInit, ReportsRight, NoReport
  <1> QED  BY <1>1, <1>3, <1>4, <1>5
           DEF BanditInit, BanditInv, FilesDivided, ResultsExpected, NosecBehind, FoundExpected

(* Every step keeps the invariant. *)
LEMMA BanditInductive == BanditSpec => []BanditInv
  <1>1. ASSUME BanditInv, [BanditNext]_banditVars
        PROVE  BanditInv'
    BY <1>1, LaunchStep, BaselineLeaves, ConfigureStep, NoReportStep, ParseFileStep,
         FileFailsStep,
       SkipNodeStep, RunTestsStep, EndFileStep, ReportStep, BanditStutters
       DEF BanditNext
  <1> QED  BY BanditStarts, <1>1, PTL DEF BanditSpec

(* A report that was written accounts for every file discovered: scanned or skipped,
   with the results its nodes call for (BanditManager.run_tests, _parse_file). *)
THEOREM ReportAccountsForFiles == BanditSpec => []BanditAccounts
  <1>1. ASSUME BanditInv, wrote, bd = "exited", blStep # "raised"
        PROVE  /\ filesList \cap skipped = {} /\ filesList \cup skipped = DiscoverFiles
               /\ counted = Len(results)
               /\ \A f \in DiscoverFiles :
                    /\ f \in filesList <=> Analysable(headAt, f)
                    /\ Cardinality(ResultsOf(f))
                         = IF f \in filesList THEN Cardinality(Expected(headAt, f)) ELSE 0
    <2>1. InScan /\ toScan = {} /\ Past = DiscoverFiles
      BY <1>1 DEF InScan, BanditInv, FilesDivided, Past
    <2>2. \A f \in DiscoverFiles \ filesList : ResultsOf(f) = {}
      BY <1>1, <2>1 DEF BanditInv, ResultsExpected, ResultsOf
    <2>3. \A f \in DiscoverFiles \ filesList : Cardinality(ResultsOf(f)) = 0
      BY <2>2, FS_EmptySet
    <2> QED  BY <1>1, <2>1, <2>3 DEF BanditInv, FilesDivided, ResultsExpected
  <1>2. BanditInv => BanditAccounts
    BY <1>1 DEF BanditAccounts, ResultsOf
  <1> QED  BY BanditInductive, <1>2, PTL

(* An issue that only one commit's report has is not equally often in both. *)
LEMMA NewIssueCounts ==
  ASSUME BanditInv, SameCounts,
         NEW x \in IssuesOf("current") \ IssuesOf("parent"),
         SeverityOf[x.issue] >= MinSeverity
  PROVE  FALSE
  <1>1. PICK f \in Targets : \E i \in Expected("current", f) :
            /\ IsFileIncluded(f) /\ Analysable("current", f)
            /\ x = [issue |-> trees["current"][f].nodes[i].issue, file |-> f]
    BY DEF IssuesOf
  <1>2. PICK i \in Expected("current", f) :
            /\ IsFileIncluded(f) /\ Analysable("current", f)
            /\ x = [issue |-> trees["current"][f].nodes[i].issue, file |-> f]
    BY <1>1
  <1>3. i \in DOMAIN trees["current"][f].nodes /\ x.issue # NoIssue
    BY <1>2 DEF Expected, Tested
  <1>4. trees["current"][f].nodes[i] \in AstNode
    BY <1>3, NodesTyped DEF BanditInv, BCommits
  <1>5. x.issue \in DOMAIN TestOf
    BY <1>2, <1>3, <1>4 DEF AstNode
  <1>6. i \in Occurrences("current", f, x.issue)
    BY <1>2 DEF Occurrences
  <1>7. Occurrences("parent", f, x.issue) = {}
    BY <1>2 DEF Occurrences, IssuesOf
  <1>8. Cardinality(Occurrences("current", f, x.issue)) = 0
    BY <1>5, <1>7, FS_EmptySet DEF SameCounts
  <1>9. IsFiniteSet(Occurrences("current", f, x.issue))
    BY NodesTyped DEF Occurrences, BanditInv, BCommits
  <1> QED  BY <1>6, <1>8, <1>9, FS_EmptySet

(* bandit-baseline leaves the branch where it was, exits with 1 when the current
   commit has an issue that the parent has not, and with 0 when every file has its
   issues as often as before (bandit/cli/baseline.py main, _compare_baseline_results). *)
THEOREM BaselineShowsTheNew == BanditSpec => []BaselineReportsNew
  <1>1. ASSUME BanditInv, blStep = "done"
        PROVE  /\ headAt = "current"
               /\ wrote /\ tmpReport.json =>
                    (exitCode = 1 <=>
                        /\ ~ExitZero
                        /\ \E i \in IssuesOf("current") \ IssuesOf("parent") :
                                SeverityOf[i.issue] >= MinSeverity)
    <2>1. headAt = "current"
      BY <1>1 DEF BanditInv, StepsInOrder
    <2>2. wrote /\ tmpReport.json =>
            (exitCode = 1 <=>
                ~ExitZero /\ Severe(IssuesOf("current")) \ Severe(IssuesOf("parent")) # {})
      BY <1>1 DEF BanditInv, ReportsRight
    <2>3. Severe(IssuesOf("current")) \ Severe(IssuesOf("parent")) # {}
            <=> \E i \in IssuesOf("current") \ IssuesOf("parent") :
                    SeverityOf[i.issue] >= MinSeverity
      BY DEF Severe
    <2> QED  BY <2>1, <2>2, <2>3
  <1>2. ASSUME BanditInv, blStep = "done", wrote, tmpReport.json, SameCounts
        PROVE  exitCode = 0
    <2>1. exitCode # 1
      BY <1>1, <1>2, NewIssueCounts
    <2>2. exitCode \in {0, 1}
      BY <1>2 DEF BanditInv, ReportsRight
    <2> QED  BY <2>1, <2>2
  <1>3. BanditInv => BaselineReportsNew
    BY <1>1, <1>2 DEF BaselineReportsNew
  <1> QED  BY BanditInductive, <1>3, PTL

-----------------------------------------------------------------------------
(* py2src. *)

(* What the vote over s holds after its n-th entry, given what it held before. *)
Better(s, n, b) ==
    IF NewKey(s, n) /\ (b = NoLink \/ Count(s, s[n]) > Count(s, b)) THEN s[n] ELSE b

(* best is the vote over the first N entries of s. *)
Scan(s, N, best) == best = [n \in 0 .. N |-> IF n = 0 THEN NoLink ELSE Better(s, n, best[n - 1])]

(* The loop can be run over any number of entries. *)
LEMMA ScanExists ==
    ASSUME NEW s, NEW N \in Nat
    PROVE  \E best : Scan(s, N, best)
  <1> DEFINE Bad == {n \in Nat : ~\E best : Scan(s, n, best)}
  <1>1. SUFFICES ASSUME Bad # {} PROVE FALSE
    OBVIOUS
  <1>2. PICK n \in Bad : \A m \in Bad : n <= m
    BY <1>1, LeastOfSet
  <1>3. n # 0
    <2> DEFINE one == [k \in 0 .. 0 |-> NoLink]
    <2>1. Scan(s, 0, one)
      BY DEF Scan
    <2> QED  BY <2>1
  <1>4. PICK b : Scan(s, n - 1, b)
    BY <1>2, <1>3
  <1> DEFINE more == [k \in 0 .. n |-> IF k = n THEN Better(s, n, b[n - 1]) ELSE b[k]]
  <1>5. Scan(s, n, more)
    <2>1. DOMAIN b = 0 .. n - 1
      BY <1>4 DEF Scan
    <2>2. ASSUME NEW k \in 0 .. n
          PROVE  more[k] = IF k = 0 THEN NoLink ELSE Better(s, k, more[k - 1])
      <3>1. CASE k = n
        BY <1>2, <1>3, <3>1
      <3>2. CASE k # n
        <4>1. k \in 0 .. n - 1 /\ more[k] = b[k] /\ (k # 0 => more[k - 1] = b[k - 1])
          BY <1>2, <3>2
        <4>2. b[k] = IF k = 0 THEN NoLink ELSE Better(s, k, b[k - 1])
          BY <1>4, <4>1 DEF Scan
        <4> QED  BY <4>1, <4>2
      <3> QED  BY <3>1, <3>2
    <2> HIDE DEF more
    <2>3. more = [k \in 0 .. n |-> more[k]]
      BY DEF more
    <2>4. [k \in 0 .. n |-> more[k]]
            = [k \in 0 .. n |-> IF k = 0 THEN NoLink ELSE Better(s, k, more[k - 1])]
      BY <2>2
    <2> QED  BY <2>3, <2>4 DEF Scan
  <1> QED  BY <1>5

(* The vote as a loop over the entries. *)
LEMMA MostVotedScan ==
    ASSUME NEW s, Len(s) \in Nat
    PROVE  \E best : Scan(s, Len(s), best) /\ MostVoted(s) = best[Len(s)]
  <1> DEFINE best == CHOOSE b : Scan(s, Len(s), b)
  <1>1. Scan(s, Len(s), best)
    BY ScanExists
  <1>2. MostVoted(s) = best[Len(s)]
    BY DEF MostVoted, Scan, Better
  <1> QED  BY <1>1, <1>2

(* The number of votes for a URL is a number. *)
LEMMA CountIsNat ==
    ASSUME NEW s, DOMAIN s = 1 .. Len(s), Len(s) \in Nat, NEW u
    PROVE  Count(s, u) \in Nat
  <1>1. IsFiniteSet(1 .. Len(s))
    BY FS_Interval
  <1>2. IsFiniteSet({i \in DOMAIN s : s[i] = u})
    BY <1>1, FS_Subset
  <1> QED  BY <1>2, FS_CardinalityType DEF Count

(* b is the first of the first n entries of s that occur most often in s. *)
FirstUpTo(s, n, b) ==
    LET named == {i \in 1 .. n : s[i] # NoLink}
    IN  IF named = {} THEN b = NoLink
        ELSE \E i \in named :
                /\ s[i] = b
                /\ \A j \in named :
                    \/ Count(s, s[j]) < Count(s, b)
                    \/ Count(s, s[j]) = Count(s, b) /\ (s[j] = b \/ i < j)

(* One more entry is looked at. *)
LEMMA FirstUpToNext ==
    ASSUME NEW s, DOMAIN s = 1 .. Len(s), Len(s) \in Nat, NEW n \in 1 .. Len(s), NEW b,
           FirstUpTo(s, n - 1, b)
    PROVE  FirstUpTo(s, n, Better(s, n, b))
  <1> DEFINE old == {i \in 1 .. n - 1 : s[i] # NoLink}
             new == {i \in 1 .. n : s[i] # NoLink}
  <1>1. \A u : Count(s, u) \in Nat
    BY CountIsNat
  <1>2. old \subseteq new /\ new \subseteq old \cup {n} /\ old \subseteq Int /\ n \notin old
    OBVIOUS
  <1>3. CASE s[n] = NoLink
    <2>1. old = new /\ Better(s, n, b) = b
      BY <1>3 DEF Better, NewKey
    <2> QED  BY <2>1 DEF FirstUpTo
  <1>4. CASE s[n] # NoLink /\ ~NewKey(s, n)
    <2>1. PICK k \in 1 .. n - 1 : s[k] = s[n]
      BY <1>4 DEF NewKey
    <2>2. k \in old /\ old # {} /\ new # {} /\ Better(s, n, b) = b
      BY <1>4, <2>1 DEF Better
    <2>3. PICK i \in old : /\ s[i] = b
                           /\ \A j \in old :
                                \/ Count(s, s[j]) < Count(s, b)
                                \/ Count(s, s[j]) = Count(s, b) /\ (s[j] = b \/ i < j)
      BY <2>2 DEF FirstUpTo
    <2>4. \A j \in new : \/ Count(s, s[j]) < Count(s, b)
                         \/ Count(s, s[j]) = Count(s, b) /\ (s[j] = b \/ i < j)
      <3> SUFFICES ASSUME NEW j \in new, j \notin old
                   PROVE  \/ Count(s, s[j]) < Count(s, b)
                          \/ Count(s, s[j]) = Count(s, b) /\ (s[j] = b \/ i < j)
        BY <2>3
      <3>1. j = n /\ k < n
        BY <1>2
      <3> QED  BY <2>1, <2>2, <2>3, <3>1
    <2> QED  BY <1>2, <2>2, <2>3, <2>4 DEF FirstUpTo
  <1>5. CASE NewKey(s, n)
    <2>1. n \in new /\ s[n] # NoLink
      BY <1>5 DEF NewKey
    <2>2. CASE old = {}
      <3>1. b = NoLink /\ new = {n} /\ Better(s, n, b) = s[n]
        BY <1>2, <1>5, <2>1, <2>2 DEF FirstUpTo, Better
      <3> QED  BY <2>1, <3>1 DEF FirstUpTo
    <2>3. CASE old # {}
      <3>1. PICK i \in old : /\ s[i] = b
                             /\ \A j \in old :
                                  \/ Count(s, s[j]) < Count(s, b)
                                  \/ Count(s, s[j]) = Count(s, b) /\ (s[j] = b \/ i < j)
        BY <2>3 DEF FirstUpTo
      <3>2. b # NoLink /\ i < n
        BY <3>1
      <3>3. CASE Count(s, s[n]) > Count(s, b)
        <4>1. Better(s, n, b) = s[n]
          BY <1>5, <3>3 DEF Better
        <4>2. \A j \in new : Count(s, s[j]) < Count(s, s[n]) \/ j = n
          BY <1>1, <1>2, <3>1, <3>3
        <4> QED  BY <2>1, <4>1, <4>2 DEF FirstUpTo
      <3>4. CASE ~(Count(s, s[n]) > Count(s, b))
        <4>1. Better(s, n, b) = b
          BY <3>2, <3>4 DEF Better
        <4>2. Count(s, s[n]) < Count(s, b) \/ Count(s, s[n]) = Count(s, b)
          BY <1>1, <3>4
        <4> QED  BY <1>2, <2>1, <3>1, <3>2, <4>1, <4>2 DEF FirstUpTo
      <3> QED  BY <3>3, <3>4
    <2> QED  BY <2>2, <2>3
  <1> QED  BY <1>3, <1>4, <1>5 DEF NewKey

(* The vote finds the first of the entries that occur most often. *)
LEMMA VoteFindsFirst ==
    ASSUME NEW s, DOMAIN s = 1 .. Len(s), Len(s) \in Nat
    PROVE  FirstOfMost(s, MostVoted(s))
  <1>1. PICK best : Scan(s, Len(s), best) /\ MostVoted(s) = best[Len(s)]
    BY MostVotedScan
  <1>2. /\ best[0] = NoLink
        /\ \A n \in 1 .. Len(s) : best[n] = Better(s, n, best[n - 1])
    <2>1. 0 \in 0 .. Len(s)
      OBVIOUS
    <2> QED  BY <1>1, <2>1 DEF Scan
  <1> DEFINE Bad == {n \in 0 .. Len(s) : ~FirstUpTo(s, n, best[n])}
  <1>3. Bad = {}
    <2>1. SUFFICES ASSUME Bad # {} PROVE FALSE
      OBVIOUS
    <2>2. Bad \subseteq Nat
      OBVIOUS
    <2>3. PICK n \in Bad : \A m \in Bad : n <= m
      BY <2>1, <2>2, LeastOfSet
    <2>4. FirstUpTo(s, 0, best[0])
      BY <1>2 DEF FirstUpTo
    <2>5. n # 0 /\ n \in 1 .. Len(s)
      BY <2>3, <2>4
    <2>6. FirstUpTo(s, n - 1, best[n - 1])
      BY <2>3, <2>5
    <2> QED  BY <1>2, <2>3, <2>5, <2>6, FirstUpToNext
  <1>4. FirstUpTo(s, Len(s), MostVoted(s))
    BY <1>1, <1>3
  <1> QED  BY <1>4 DEF FirstUpTo, FirstOfMost

(* What the five sources propose when every request is answered. *)
BadgeRepo == MostVoted(RepoOfLinks(page.badges))
HomeRepo == WorkingRepo(Prefix[page.homeLinks])
OwnRepo == WorkingRepo(FindGithubUrlMetadata)
DocLinks == IF MostVoted(page.docs) = NoLink THEN << >> ELSE page.docLinks[MostVoted(page.docs)]
DocsRepo == MostVoted(RepoOfLinks(DocLinks))
StatsRepo == MostVoted(RepoOfLinks(page.stats))
Five == <<BadgeRepo, HomeRepo, OwnRepo, DocsRepo, StatsRepo>>

(* The search when no request has failed: how far it has come says what was
   proposed so far. *)
URLInv ==
    /\ page \in Packages
    /\ finder = "start" => proposals = << >>
    /\ ~dropped =>
        /\ finder \notin {"start", "raised"} => soup = TRUE
        /\ finder \notin {"start", "ossgadget", "raised"} => ossUrl = WorkingRepo(page.oss)
        /\ finder \in {"ossgadget", "badge"} => proposals = << >>
        /\ finder = "homepage" => proposals = <<BadgeRepo>>
        /\ finder = "metadata" => proposals = <<BadgeRepo, HomeRepo>>
        /\ finder = "readthedocs" => proposals = <<BadgeRepo, HomeRepo, OwnRepo>>
        /\ finder = "statistics" => proposals = <<BadgeRepo, HomeRepo, OwnRepo, DocsRepo>>
        /\ finder = "decide" => proposals = Five
        /\ finder \in {"score", "done"} =>
            finalUrl = IF MostVoted(Five) # NoLink THEN MostVoted(Five) ELSE WorkingRepo(page.oss)

(* A link that is tested and resolved leads to the repository it stands for. *)
LEMMA ResolveAnswered ==
    ASSUME NEW l \in Links \cup {NoLink}
    PROVE  Resolve(l, TRUE, TRUE) = WorkingRepo(l)
  BY URLAssumption DEF Resolve, WorkingRepo, TestUrlWorking, RealGithubUrl, Repo,
       URLAssumption

(* A vote among links whose requests are all answered is one among their
   repositories. *)
LEMMA VoteAnswered ==
    ASSUME NEW ls, NEW answered \in [DOMAIN ls -> BOOLEAN],
         \A i \in DOMAIN answered : answered[i]
    PROVE  VoteAmong(ls, answered) = MostVoted(RepoOfLinks(ls))
  <1>1. \A i \in DOMAIN ls : RealGithubUrl(ls[i], answered[i]) = Repo(ls[i])
    BY DEF RealGithubUrl, Repo
  <1>2. [i \in DOMAIN ls |-> RealGithubUrl(ls[i], answered[i])] = RepoOfLinks(ls)
    BY <1>1 DEF RepoOfLinks
  <1> QED  BY <1>2 DEF VoteAmong

(* A sequence is the one that Append makes when its entries are. *)
LEMMA AppendIs ==
    ASSUME NEW S, NEW s \in Seq(S), NEW e \in S, NEW u \in Seq(S), Len(u) = Len(s) + 1,
           \A i \in 1 .. Len(s) : u[i] = s[i], u[Len(s) + 1] = e
    PROVE  Append(s, e) = u
  <1> DEFINE t == Append(s, e)
  <1>1. /\ t \in Seq(S) /\ Len(t) = Len(s) + 1 /\ t[Len(s) + 1] = e
        /\ \A i \in 1 .. Len(s) : t[i] = s[i]
    BY AppendProperties
  <1> HIDE DEF t
  <1>2. \A i \in 1 .. Len(t) : t[i] = u[i]
    <2>1. Len(s) \in Nat
      OBVIOUS
    <2>2. \A i \in 1 .. Len(s) + 1 : i \in 1 .. Len(s) \/ i = Len(s) + 1
      BY <2>1
    <2> QED  BY <1>1, <2>2
  <1>3. t = u
    BY <1>1, <1>2, SeqEqual
  <1> QED  BY <1>3 DEF t

(* The second proposal is appended to the first. *)
LEMMA SecondProposal ==
    ASSUME NEW a, NEW b
    PROVE  Append(<<a>>, b) = <<a, b>>
  <1> DEFINE S == {a, b}
             s == <<a>>
             u == <<a, b>>
  <1>1. s \in Seq(S) /\ b \in S /\ u \in Seq(S) /\ Len(u) = Len(s) + 1
    OBVIOUS
  <1>2. (\A i \in 1 .. Len(s) : u[i] = s[i]) /\ u[Len(s) + 1] = b
    OBVIOUS
  <1> HIDE DEF s, u, S
  <1>3. Append(s, b) = u
    BY <1>1, <1>2, AppendIs
  <1> QED  BY <1>3 DEF s, u

(* The third proposal. *)
LEMMA ThirdProposal ==
    ASSUME NEW a, NEW b, NEW c
    PROVE  Append(<<a, b>>, c) = <<a, b, c>>
  <1> DEFINE S == {a, b, c}
             s == <<a, b>>
             u == <<a, b, c>>
  <1>1. s \in Seq(S) /\ c \in S /\ u \in Seq(S) /\ Len(u) = Len(s) + 1
    OBVIOUS
  <1>2. (\A i \in 1 .. Len(s) : u[i] = s[i]) /\ u[Len(s) + 1] = c
    OBVIOUS
  <1> HIDE DEF s, u, S
  <1>3. Append(s, c) = u
    BY <1>1, <1>2, AppendIs
  <1> QED  BY <1>3 DEF s, u

(* The fourth proposal. *)
LEMMA FourthProposal ==
    ASSUME NEW a, NEW b, NEW c, NEW d
    PROVE  Append(<<a, b, c>>, d) = <<a, b, c, d>>
  <1> DEFINE S == {a, b, c, d}
             s == <<a, b, c>>
             u == <<a, b, c, d>>
  <1>1. s \in Seq(S) /\ d \in S /\ u \in Seq(S) /\ Len(u) = Len(s) + 1
    OBVIOUS
  <1>2. (\A i \in 1 .. Len(s) : u[i] = s[i]) /\ u[Len(s) + 1] = d
    OBVIOUS
  <1> HIDE DEF s, u, S
  <1>3. Append(s, d) = u
    BY <1>1, <1>2, AppendIs
  <1> QED  BY <1>3 DEF s, u

(* The fifth proposal. *)
LEMMA FifthProposal ==
    ASSUME NEW a, NEW b, NEW c, NEW d, NEW e
    PROVE  Append(<<a, b, c, d>>, e) = <<a, b, c, d, e>>
  <1> DEFINE S == {a, b, c, d, e}
             s == <<a, b, c, d>>
             u == <<a, b, c, d, e>>
  <1>1. s \in Seq(S) /\ e \in S /\ u \in Seq(S) /\ Len(u) = Len(s) + 1
    OBVIOUS
  <1>2. (\A i \in 1 .. Len(s) : u[i] = s[i]) /\ u[Len(s) + 1] = e
    OBVIOUS
  <1> HIDE DEF s, u, S
  <1>3. Append(s, e) = u
    BY <1>1, <1>2, AppendIs
  <1> QED  BY <1>3 DEF s, u

(* While the package stays the same, so does what its sources propose. *)
LEMMA SamePage ==
    ASSUME page' = page
    PROVE  /\ BadgeRepo' = BadgeRepo /\ HomeRepo' = HomeRepo /\ OwnRepo' = OwnRepo
           /\ DocsRepo' = DocsRepo /\ Five' = Five
           /\ WorkingRepo(page.oss)' = WorkingRepo(page.oss)
           /\ MostVoted(Five)' = MostVoted(Five)
  BY DEF BadgeRepo, HomeRepo, OwnRepo, DocsRepo, DocLinks, StatsRepo, Five,
       FindGithubUrlMetadata

(* Every step of the search keeps the invariant. *)
LEMMA URLInvStep ==
    ASSUME URLInv, [URLNext]_urlVars
    PROVE  URLInv'
  <1>1. page' = page
    BY DEF URLNext, OpenPypiSoup, FindOssgadgetUrl, FindGithubUrlFromPypiBadge,
         ScrapeHomepage,
           ReadMetadata, FindGithubUrlFromReadthedocs, FindGithubUrlFromPypiStatistics,
           EvaluateFinalUrl, Score, FinderRaises, Propose, urlVars
  <1> DEFINE bad == BadgeRepo
             home == HomeRepo
             own == OwnRepo
             docs == DocsRepo
             all == Five
             oss == WorkingRepo(page.oss)
             won == MostVoted(Five)
  <1>2. /\ BadgeRepo' = bad /\ HomeRepo' = home /\ OwnRepo' = own /\ DocsRepo' = docs
        /\ Five' = all /\ WorkingRepo(page.oss)' = oss /\ MostVoted(Five)' = won
    BY <1>1, SamePage
  <1>3. /\ page.oss \in Links \cup {NoLink} /\ Prefix[page.homeLinks] \in Links \cup {NoLink}
        /\ FindGithubUrlMetadata \in Links \cup {NoLink}
    BY URLAssumption, PackagesAssumption
       DEF URLAssumption, PackagesAssumption, URLInv, FindGithubUrlMetadata
  <1>4. CASE OpenPypiSoup
    BY <1>1, <1>4 DEF OpenPypiSoup, URLInv
  <1>5. CASE FindOssgadgetUrl
    <2>1. PICK tested, answered \in BOOLEAN :
            ossUrl' = Resolve(page.oss, tested, answered) /\ dropped' = (dropped \/ ~tested \/ ~answered)
      BY <1>5 DEF FindOssgadgetUrl
    <2>2. ~dropped' => ~dropped /\ ossUrl' = oss
      BY <1>3, <2>1, ResolveAnswered
    <2> HIDE DEF oss
    <2> QED  BY <1>1, <1>2, <1>5, <2>2 DEF FindOssgadgetUrl, URLInv
  <1>6. CASE FindGithubUrlFromPypiBadge
    <2>1. PICK answered \in [DOMAIN page.badges -> BOOLEAN] :
            /\ Propose("badge", "homepage",
                       IF soup THEN VoteAmong(page.badges, answered) ELSE NoLink)
            /\ dropped' = (dropped \/ \E i \in DOMAIN answered : ~answered[i])
      BY <1>6 DEF FindGithubUrlFromPypiBadge
    <2>2. ~dropped' => ~dropped /\ VoteAmong(page.badges, answered) = bad
      BY <2>1, VoteAnswered DEF BadgeRepo
    <2>3. ~dropped' => soup = TRUE /\ proposals = << >>
      BY <2>1, <2>2 DEF URLInv, Propose
    <2> HIDE DEF bad
    <2>4. ~dropped' => proposals' = <<bad>>
      BY <2>1, <2>2, <2>3 DEF Propose
    <2> QED  BY <1>1, <1>2, <2>1, <2>2, <2>4 DEF Propose, URLInv
  <1>7. CASE ScrapeHomepage
    <2>1. PICK tested, answered \in BOOLEAN :
            /\ Propose("homepage", "metadata",
                       Resolve(Prefix[page.homeLinks], tested, answered))
            /\ dropped' = (dropped \/ ~tested \/ ~answered)
      BY <1>7 DEF ScrapeHomepage
    <2>2. ~dropped' => ~dropped /\ Resolve(Prefix[page.homeLinks], tested, answered) = home
      BY <1>3, <2>1, ResolveAnswered DEF HomeRepo
    <2>3. ~dropped' => proposals = <<bad>>
      BY <2>1, <2>2 DEF URLInv, Propose
    <2> HIDE DEF bad, home
    <2>4. ~dropped' => proposals' = <<bad, home>>
      BY <2>1, <2>2, <2>3, SecondProposal DEF Propose
    <2> QED  BY <1>1, <1>2, <2>1, <2>2, <2>4 DEF Propose, URLInv
  <1>8. CASE ReadMetadata
    <2>1. PICK tested, answered \in BOOLEAN :
            /\ Propose("metadata", "readthedocs", Mode1(tested, answered))
            /\ dropped' = (dropped \/ ~tested \/ ~answered)
      BY <1>8 DEF ReadMetadata
    <2>2. ~dropped' => ~dropped /\ Mode1(tested, answered) = own
      BY <1>3, <2>1, ResolveAnswered DEF OwnRepo, Mode1
    <2>3. ~dropped' => proposals = <<bad, home>>
      BY <2>1, <2>2 DEF URLInv, Propose
    <2> HIDE DEF bad, home, own
    <2>4. ~dropped' => proposals' = <<bad, home, own>>
      BY <2>1, <2>2, <2>3, ThirdProposal DEF Propose
    <2> QED  BY <1>1, <1>2, <2>1, <2>2, <2>4 DEF Propose, URLInv
  <1>9. CASE FindGithubUrlFromReadthedocs
    <2>1. PICK opened \in BOOLEAN, answered \in [DOMAIN DocLinks -> BOOLEAN] :
            /\ Propose("readthedocs", "statistics",
                       IF soup /\ opened THEN VoteAmong(DocLinks, answered) ELSE NoLink)
            /\ dropped' = (dropped \/ ~opened \/ \E i \in DOMAIN answered : ~answered[i])
      BY <1>9 DEF FindGithubUrlFromReadthedocs, DocLinks
    <2>2. ~dropped' => ~dropped /\ opened /\ VoteAmong(DocLinks, answered) = docs
      BY <2>1, VoteAnswered DEF DocsRepo
    <2>3. ~dropped' => soup = TRUE /\ proposals = <<bad, home, own>>
      BY <2>1, <2>2 DEF URLInv, Propose
    <2> HIDE DEF bad, home, own, docs
    <2>4. ~dropped' => proposals' = <<bad, home, own, docs>>
      BY <2>1, <2>2, <2>3, FourthProposal DEF Propose
    <2> QED  BY <1>1, <1>2, <2>1, <2>2, <2>4 DEF Propose, URLInv
  <1>10. CASE FindGithubUrlFromPypiStatistics
    <2>1. PICK answered \in [DOMAIN page.stats -> BOOLEAN] :
            /\ Propose("statistics", "decide",
                       IF soup THEN VoteAmong(page.stats, answered) ELSE NoLink)
            /\ dropped' = (dropped \/ \E i \in DOMAIN answered : ~answered[i])
      BY <1>10 DEF FindGithubUrlFromPypiStatistics
    <2>2. ~dropped' => ~dropped /\ VoteAmong(page.stats, answered) = StatsRepo
      BY <2>1, VoteAnswered DEF StatsRepo
    <2>3. ~dropped' => soup = TRUE /\ proposals = <<bad, home, own, docs>>
      BY <2>1, <2>2 DEF URLInv, Propose
    <2>4. all = <<bad, home, own, docs, StatsRepo>>
      BY DEF Five
    <2> HIDE DEF bad, home, own, docs, all
    <2>5. ~dropped' => proposals' = all
      BY <2>1, <2>2, <2>3, <2>4, FifthProposal DEF Propose
    <2> QED  BY <1>1, <1>2, <2>1, <2>2, <2>5 DEF Propose, URLInv
  <1>11. CASE EvaluateFinalUrl
    <2>1. ~dropped => proposals = Five /\ ossUrl = oss
      BY <1>11 DEF EvaluateFinalUrl, URLInv
    <2>2. ~dropped => finalUrl' = IF won # NoLink THEN won ELSE oss
      BY <1>11, <2>1 DEF EvaluateFinalUrl
    <2> HIDE DEF won, oss
    <2> QED  BY <1>1, <1>2, <1>11, <2>1, <2>2 DEF EvaluateFinalUrl, URLInv
  <1>12. CASE Score
    BY <1>1, <1>2, <1>12 DEF Score, URLInv
  <1>13. CASE FinderRaises
    BY <1>1, <1>2, <1>13 DEF FinderRaises, URLInv
  <1>14. CASE UNCHANGED urlVars
    BY <1>1, <1>2, <1>14 DEF urlVars, URLInv
  <1> QED  BY <1>4, <1>5, <1>6, <1>7, <1>8, <1>9, <1>10, <1>11, <1>12, <1>13,
       <1>14 DEF URLNext

(* The repositories of links are votes. *)
LEMMA RepoVotes ==
    ASSUME NEW ls \in Seq(Links)
    PROVE  /\ FirstOfMost(RepoOfLinks(ls), MostVoted(RepoOfLinks(ls)))
           /\ MostVoted(RepoOfLinks(ls)) \in Links \cup {NoLink}
  <1> DEFINE s == RepoOfLinks(ls)
  <1>1. DOMAIN s = 1 .. Len(ls) /\ Len(ls) \in Nat /\ Len(s) = Len(ls)
    BY DEF RepoOfLinks
  <1>2. \A i \in DOMAIN s : s[i] \in Links \cup {NoLink}
    BY URLAssumption DEF RepoOfLinks, Repo, URLAssumption
  <1> HIDE DEF s
  <1>3. FirstOfMost(s, MostVoted(s))
    BY <1>1, VoteFindsFirst
  <1>4. MostVoted(s) \in Links \cup {NoLink}
    BY <1>2, <1>3 DEF FirstOfMost
  <1> QED  BY <1>3, <1>4 DEF s

(* A search that is done has found what most sources point to. *)
LEMMA DoneIsPlurality ==
    ASSUME URLInv
    PROVE  URLPlurality
  <1> SUFFICES ASSUME finder = "done", ~dropped PROVE URLPlurality
    BY DEF URLPlurality
  <1>1. /\ page.badges \in Seq(Links) /\ page.stats \in Seq(Links) /\ page.docs \in Seq(Docs)
        /\ \A d \in Docs : page.docLinks[d] \in Seq(Links)
    BY PackagesAssumption DEF PackagesAssumption, URLInv
  <1>2. /\ FirstOfMost(RepoOfLinks(page.badges), BadgeRepo) /\ BadgeRepo \in Links \cup {NoLink}
        /\ FirstOfMost(RepoOfLinks(page.stats), StatsRepo) /\ StatsRepo \in Links \cup {NoLink}
    BY <1>1, RepoVotes DEF BadgeRepo, StatsRepo
  <1>3. DOMAIN page.docs = 1 .. Len(page.docs) /\ Len(page.docs) \in Nat
    BY <1>1
  <1>4. FirstOfMost(page.docs, MostVoted(page.docs))
    BY <1>3, VoteFindsFirst
  <1>5. /\ DocsRepo \in Links \cup {NoLink}
        /\ \/ page.docs = << >> /\ DocsRepo = NoLink
           \/ \E d \in Docs : /\ FirstOfMost(page.docs, d)
                              /\ FirstOfMost(RepoOfLinks(page.docLinks[d]), DocsRepo)
    <2>1. CASE page.docs = << >>
      <3>1. MostVoted(page.docs) = NoLink
        BY <1>4, <2>1 DEF FirstOfMost
      <3> DEFINE none == DocLinks
      <3>2. none = << >>
        BY <3>1 DEF DocLinks
      <3>3. none \in Seq(Links)
        BY <3>2
      <3>4. FirstOfMost(RepoOfLinks(none), DocsRepo)
        BY <3>3, RepoVotes DEF DocsRepo
      <3>5. DOMAIN RepoOfLinks(none) = {}
        BY <3>2 DEF RepoOfLinks
      <3> HIDE DEF none
      <3>6. DocsRepo = NoLink
        BY <3>4, <3>5 DEF FirstOfMost
      <3> QED  BY <2>1, <3>6
    <2>2. CASE page.docs # << >>
      <3>1. Len(page.docs) # 0 /\ \A i \in DOMAIN page.docs : page.docs[i] \in Docs
        BY <1>1, <2>2
      <3>2. 1 \in DOMAIN page.docs /\ \A i \in DOMAIN page.docs : page.docs[i] # NoLink
        BY <1>3, <3>1, URLAssumption DEF URLAssumption
      <3>3. MostVoted(page.docs) \in Docs
        BY <1>4, <3>1, <3>2 DEF FirstOfMost
      <3>4. DocLinks = page.docLinks[MostVoted(page.docs)]
        BY <3>3, URLAssumption DEF DocLinks, URLAssumption
      <3>5. /\ FirstOfMost(RepoOfLinks(DocLinks), DocsRepo) /\ DocsRepo \in Links \cup {NoLink}
        BY <1>1, <3>3, <3>4, RepoVotes DEF DocsRepo
      <3> QED  BY <1>4, <3>3, <3>4, <3>5
    <2> QED  BY <2>1, <2>2
  <1>6. FirstOfMost(Five, MostVoted(Five))
    <2>1. DOMAIN Five = 1 .. Len(Five) /\ Len(Five) \in Nat
      BY DEF Five
    <2> QED  BY <2>1, VoteFindsFirst
  <1>7. IF FirstOfMost(Five, NoLink) THEN finalUrl = WorkingRepo(page.oss)
        ELSE FirstOfMost(Five, finalUrl)
    <2>1. finalUrl = IF MostVoted(Five) # NoLink THEN MostVoted(Five) ELSE WorkingRepo(page.oss)
      BY DEF URLInv
    <2>2. MostVoted(Five) # NoLink => ~FirstOfMost(Five, NoLink)
      BY <1>6 DEF FirstOfMost
    <2> QED  BY <1>6, <2>1, <2>2
  <1> QED  BY <1>2, <1>5, <1>7 DEF URLPlurality, Five, HomeRepo, OwnRepo

(* When every request is answered, the URL found is the repository most of the
   five sources point to, the earlier source deciding a tie (url_finder.py,
   get_final_url). *)
THEOREM PluralityWins == URLSpec => []URLPlurality
  <1>1. URLInit => URLInv
    BY DEF URLInit, URLInv
  <1>2. URLInv /\ [URLNext]_urlVars => URLInv'
    BY URLInvStep
  <1>3. URLInv => URLPlurality
    BY DoneIsPlurality
  <1> QED  BY <1>1, <1>2, <1>3, PTL DEF URLSpec

=============================================================================
