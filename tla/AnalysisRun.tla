----------------------------- MODULE AnalysisRun -----------------------------
(***************************************************************************)
(* One analysis process of dynamic-analysis/: the worker's handleMessage   *)
(* (cmd/worker) or the command line tool (cmd/analyze), with the static    *)
(* and the dynamic analysis they run in a podman sandbox, the packet       *)
(* capture around every phase, and the result stores.                      *)
(*                                                                         *)
(* The process does one thing at a time; pc is its next step and mode      *)
(* tells which of the two analyses it is in.  What can fail does, at most  *)
(* MaxFaults times.  podman, the network interface and the buckets are     *)
(* external: what matters of them is which containers exist and run,       *)
(* whether a capture goroutine is there, and whose result an object holds. *)
(***************************************************************************)
EXTENDS Naturals, Sequences, FiniteSets

CONSTANTS
    Packages,     \* package versions
    Names,        \* package names
    NameOf,       \* the name of a package version
    EcosystemOf,  \* its ecosystem: "pypi", "wolfi" or another
    NoArchive,    \* local files, and versions the registry has no archive of
    Configs,      \* [driver, modes, flags, stores] a process may have
    None,         \* no package, an empty file, no result
    Garbled,      \* output that is not valid JSON
    MaxRuns,      \* bound on the packages handled
    MaxFaults     \* bound on the failures of a behaviour

Flags  == {"CodeExecution", "WriteFileContents", "SaveAnalyzedPackages"}
Stores == {"static", "dynamic", "execution_log", "file_writes", "packages"}

ASSUME RunAssumption ==
    /\ NameOf \in [Packages -> Names]
    /\ NoArchive \subseteq Packages
    /\ {None, Garbled} \cap Packages = {}
    /\ \A c \in Configs : /\ c.driver \in {"worker", "analyze"}
                          /\ c.modes \subseteq {"static", "dynamic"}
                          /\ c.flags \subseteq Flags /\ c.stores \subseteq Stores
    /\ MaxRuns \in Nat \ {0} /\ MaxFaults \in Nat

VARIABLES
    conf,        \* how the process was started: a member of Configs
    net,         \* host network set up so far (outlives the process)
    nstep,       \* the next command of InitNetwork
    pc,          \* the next step
    mode,        \* "static" or "dynamic"
    runs,        \* packages taken up so far
    pkg,         \* the package at hand
    sb,          \* the podmanSandbox object: has a container, is initialised
    containers,  \* containers podman has
    running,     \* the ones that run
    spoiled,     \* did a Clean fail since the containers were last removed
    capture,     \* capture goroutine: "off", "on", "ended" (blocked in done <-)
    resultsFile, \* whose results /results.json holds
    data,        \* what RunStaticAnalysis read from it
    status,      \* RunResult of the command in the sandbox
    statuses,    \* status of every phase in the result, in order
    lastPhase,   \* number of the phase LastRunPhase names, 0 for none
    execLog,     \* does the result have an execution log
    err,         \* the error of each analysis
    buffers,     \* packages with write buffers in the temporary directory
    pkgSaved,    \* resultStores.AnalyzedPackageSaved
    store,       \* per store and file name: the object
    archive,     \* packages saved in the bucket of analysed packages
    outcome,     \* what became of the last package: "none", "ok" or "error"
    faults       \* failures so far

hostVars    == <<conf, net, nstep, runs>>
sandboxVars == <<sb, containers, running, spoiled>>
resultVars  == <<status, statuses, lastPhase, execLog, data>>
storeVars   == <<pkgSaved, store, archive>>
fileVars    == <<resultsFile, buffers>>
vars == <<hostVars, pc, mode, pkg, sandboxVars, capture, resultVars, fileVars,
          err, storeVars, outcome, faults>>

Fault == faults < MaxFaults /\ faults' = faults + 1

NoSandbox == [container |-> FALSE, initialised |-> FALSE]
NoError == [static |-> FALSE, dynamic |-> FALSE]

\* The container of the current sandbox object, where it has one.
Current == <<runs, mode>>

\* An object in a bucket: the package in its record, and whose output it is.
Object == [key : Packages, from : Packages]

-----------------------------------------------------------------------------
(* InitNetwork: bridge, dummy device and firewall rules, in this order.
   Adding a device that exists (exit code 2) is not an error.              *)
NetworkSteps == <<"add_bridge", "bridge_up", "add_dummy", "attach_dummy",
                  "dummy_up", "iptables">>

NetworkReady == nstep > Len(NetworkSteps)

\* dynamicPhases: what is run for the package.
Phases(p) ==
    (IF EcosystemOf[p] = "wolfi" THEN <<"install">> ELSE <<"install", "import">>)
    \o (IF "CodeExecution" \in conf.flags /\ EcosystemOf[p] \in {"pypi", "wolfi"}
        THEN <<"execute">> ELSE <<>>)

\* StatusForRunResult.  RunStatusTimeout is never set.
StatusFor(runStatus) ==
    CASE runStatus = "success" -> "completed"
      [] runStatus = "failure" -> "error_analysis"
      [] OTHER -> "error_other"

Init ==
    /\ conf \in Configs
    /\ net = {}
    /\ nstep = 1
    /\ pc = "network"
    /\ mode = "static"
    /\ runs = 0
    /\ pkg = None
    /\ sb = NoSandbox
    /\ containers = {} /\ running = {} /\ spoiled = FALSE
    /\ capture = "off"
    /\ resultsFile = None /\ data = None
    /\ status = "unknown" /\ statuses = <<>> /\ lastPhase = 0 /\ execLog = FALSE
    /\ err = NoError
    /\ buffers = {}
    /\ pkgSaved = FALSE
    /\ store = [s \in Stores \ {"packages"} |-> [f \in Names \cup Packages |-> None]]
    /\ archive = {}
    /\ outcome = "none"
    /\ faults = 0

-----------------------------------------------------------------------------
(* Starting.                                                               *)

\* Mutant: adding a device that is already there is an error.
SetupNetworkStrict ==
    /\ pc = "network"
    /\ ~NetworkReady
    /\ NetworkSteps[nstep] \in {"add_bridge", "add_dummy"}
          => NetworkSteps[nstep] \notin net
    /\ net' = net \cup {NetworkSteps[nstep]}
    /\ nstep' = nstep + 1
    /\ UNCHANGED <<conf, runs, pc, mode, pkg, sandboxVars, capture, resultVars,
                   fileVars, err, storeVars, outcome, faults>>

\* The next command of createBridgeNetwork and loadIptablesRules.
SetupNetwork ==
    /\ pc = "network"
    /\ ~NetworkReady
    /\ net' = net \cup {NetworkSteps[nstep]}
    /\ nstep' = nstep + 1
    /\ UNCHANGED <<conf, runs, pc, mode, pkg, sandboxVars, capture, resultVars,
                   fileVars, err, storeVars, outcome, faults>>

\* A command fails: os.Exit(1).  The process is started again and repeats the
\* commands for what is there already.
SetupNetworkFails ==
    /\ pc = "network"
    /\ ~NetworkReady
    /\ Fault
    /\ nstep' = 1
    /\ UNCHANGED <<conf, net, runs, pc, mode, pkg, sandboxVars, capture, resultVars,
                   fileVars, err, storeVars, outcome>>

\* handleMessage or run takes a package up.  The command line tool serves one.
TakePackage(p) ==
    /\ pc = "network" \/ pc = "idle"
    /\ NetworkReady
    /\ runs < (IF conf.driver = "worker" THEN MaxRuns ELSE 1)
    /\ runs' = runs + 1
    /\ pkg' = p
    /\ mode' = "static"
    /\ err' = NoError
    /\ outcome' = "none"
    /\ pc' = "resolve"
    /\ UNCHANGED <<conf, net, nstep, sandboxVars, capture, resultVars, fileVars,
                   storeVars, faults>>

\* Leave the package with an outcome.
Answer(o) ==
    /\ pc' = "idle"
    /\ outcome' = o
    /\ pkg' = None
    /\ UNCHANGED <<hostVars, mode, sandboxVars, capture, resultVars, fileVars,
                   err>>

\* Go on to another step and change nothing else.
Step(from, to) ==
    /\ pc = from
    /\ pc' = to
    /\ UNCHANGED <<hostVars, mode, pkg, outcome>>

\* ResolvePkg and ResolvePurl (for the latest version they ask the registry).
Resolve ==
    /\ Step("resolve", IF "static" \in conf.modes THEN "create_file" ELSE "dynamic")
    /\ UNCHANGED <<sandboxVars, capture, resultVars, fileVars, err, storeVars,
                   faults>>

\* copyPackageToLocalFile or the resolution fails.
ResolveFails ==
    /\ pc = "resolve"
    /\ Fault
    /\ Answer("error")
    /\ UNCHANGED storeVars

-----------------------------------------------------------------------------
(* The sandbox (internal/sandbox).  Static analysis calls Run, which calls
   Init; dynamic analysis calls Init, then Run once per phase.             *)

\* The analysis returns: an error is kept, and the deferred Clean follows.
Fails(from) ==
    /\ Step(from, "clean")
    /\ err' = [err EXCEPT ![mode] = TRUE]

\* Mutant: the file is opened without being truncated.
CreateResultsFileKeeps ==
    /\ Step("create_file", "init")
    /\ data' = None
    /\ sb' = NoSandbox
    /\ UNCHANGED <<containers, running, spoiled, capture, status, statuses,
                   lastPhase, execLog, fileVars, err, storeVars, faults>>

\* RunStaticAnalysis creates /results.json empty, and a new sandbox object.
CreateResultsFile ==
    /\ Step("create_file", "init")
    /\ resultsFile' = None
    /\ data' = None
    /\ sb' = NoSandbox
    /\ UNCHANGED <<containers, running, spoiled, capture, status, statuses,
                   lastPhase, execLog, buffers, err, storeVars, faults>>

CreateResultsFileFails ==
    /\ Fails("create_file")
    /\ Fault
    /\ sb' = NoSandbox
    /\ data' = None
    /\ UNCHANGED <<containers, running, spoiled, capture, status, statuses,
                   lastPhase, execLog, fileVars, storeVars>>

AfterInit == IF mode = "static" THEN "start" ELSE "keys"

\* Init: logs, prune, pull, create, copies.
SandboxInit ==
    /\ Step("init", AfterInit)
    /\ containers' = containers \cup {Current}
    /\ sb' = [container |-> TRUE, initialised |-> TRUE]
    /\ UNCHANGED <<running, spoiled, capture, resultVars, fileVars, err,
                   storeVars, faults>>

\* Init fails before there is a container.
SandboxCreateFails ==
    /\ Fails("init")
    /\ Fault
    /\ UNCHANGED <<sandboxVars, capture, resultVars, fileVars, storeVars>>

\* A copy into the new container fails: the object keeps its id.
SandboxCopyFails ==
    /\ Fails("init")
    /\ Fault
    /\ containers' = containers \cup {Current}
    /\ sb' = [container |-> TRUE, initialised |-> FALSE]
    /\ UNCHANGED <<running, spoiled, capture, resultVars, fileVars, storeVars>>

\* Where an error of Run leads: for a phase, to the deferred pcap.Close.
AfterRunError == IF mode = "static" THEN "clean" ELSE "close"

RunError(from) ==
    /\ Step(from, AfterRunError)
    /\ err' = [err EXCEPT ![mode] = TRUE]

\* Run: log directory, podman start.
SandboxStart ==
    /\ Step("start", "exec")
    /\ running' = running \cup {Current}
    /\ status' = "unknown"
    /\ UNCHANGED <<sb, containers, spoiled, capture, statuses, lastPhase,
                   execLog, data, fileVars, err, storeVars, faults>>

SandboxStartFails ==
    /\ RunError("start")
    /\ Fault
    /\ UNCHANGED <<sandboxVars, capture, resultVars, fileVars, storeVars>>

\* podman exec cannot be started: Run returns and does not stop the container.
SandboxExecFails ==
    /\ RunError("exec")
    /\ Fault
    /\ UNCHANGED <<sandboxVars, capture, resultVars, fileVars, storeVars>>

\* The command exits: success, failure (ExitError), or Wait has another error.
\* It runs as long as it likes.  The static analyser leaves its results, nothing
\* or, when it fails, part of them in the results file.
SandboxExec ==
    /\ Step("exec", "stop")
    /\ \/ /\ status' = "success"
          /\ resultsFile' = IF mode = "static" THEN pkg ELSE resultsFile
          /\ UNCHANGED <<err, faults>>
       \/ /\ status' = "failure"
          /\ Fault
          /\ \/ resultsFile' = resultsFile
             \/ mode = "static" /\ resultsFile' = Garbled
          /\ UNCHANGED err
       \/ /\ status' = "unknown"
          /\ Fault
          /\ err' = [err EXCEPT ![mode] = TRUE]
          /\ UNCHANGED resultsFile
    /\ UNCHANGED <<sandboxVars, capture, statuses, lastPhase, execLog, data,
                   buffers, storeVars>>

\* podman stop; "gofer is still running" is not an error.
AfterStop ==
    IF mode = "dynamic" THEN "close" ELSE IF err.static THEN "clean" ELSE "read"

SandboxStop ==
    /\ Step("stop", AfterStop)
    /\ running' = running \ {Current}
    /\ UNCHANGED <<sb, containers, spoiled, capture, resultVars, fileVars, err,
                   storeVars, faults>>

SandboxStopIgnored ==
    /\ Step("stop", AfterStop)
    /\ Fault
    /\ UNCHANGED <<sandboxVars, capture, resultVars, fileVars, err, storeVars>>

SandboxStopFails ==
    /\ RunError("stop")
    /\ Fault
    /\ UNCHANGED <<sandboxVars, capture, resultVars, fileVars, storeVars>>

\* RunStaticAnalysis reads the results file.
ReadResults ==
    /\ Step("read", "clean")
    /\ data' = resultsFile
    /\ UNCHANGED <<sandboxVars, capture, status, statuses, lastPhase, execLog,
                   fileVars, err, storeVars, faults>>

ReadResultsFails ==
    /\ Fails("read")
    /\ Fault
    /\ UNCHANGED <<sandboxVars, capture, resultVars, fileVars, storeVars>>

\* The deferred Clean: without a container nothing; otherwise force the stop,
\* then rm --all --force.  Its error is only logged.
AfterClean == IF mode = "static" THEN "save_static" ELSE "save_dynamic"

\* Mutant: a sandbox that is not initialised is taken to have no container.
CleanInitialised ==
    /\ Step("clean", AfterClean)
    /\ containers' = IF sb.initialised THEN {} ELSE containers
    /\ running' = IF sb.initialised THEN {} ELSE running
    /\ spoiled' = (spoiled /\ ~sb.container)
    /\ UNCHANGED <<sb, capture, resultVars, fileVars, err, storeVars, faults>>

Clean ==
    /\ Step("clean", AfterClean)
    /\ containers' = IF sb.container THEN {} ELSE containers
    /\ running' = IF sb.container THEN {} ELSE running
    /\ spoiled' = (spoiled /\ ~sb.container)
    /\ UNCHANGED <<sb, capture, resultVars, fileVars, err, storeVars, faults>>

CleanFails ==
    /\ Step("clean", AfterClean)
    /\ sb.container
    /\ Fault
    /\ running' \in {running, running \ {Current}}
    /\ spoiled' = TRUE
    /\ UNCHANGED <<sb, containers, capture, resultVars, fileVars, err, storeVars>>

-----------------------------------------------------------------------------
(* RunDynamicAnalysis, runDynamicAnalysisPhase, dynamicanalysis.Run.       *)

\* A new sandbox object and an empty result.
BeginDynamic ==
    /\ pc = "dynamic"
    /\ pc' = IF "dynamic" \in conf.modes THEN "init" ELSE "done"
    /\ mode' = "dynamic"
    /\ sb' = NoSandbox
    /\ statuses' = <<>>
    /\ lastPhase' = 0
    /\ execLog' = FALSE
    /\ UNCHANGED <<hostVars, pkg, outcome, containers, running, spoiled, capture,
                   status, data, fileVars, err, storeVars, faults>>

\* addSSHKeysToSandbox: CopyIntoSandbox needs an initialised sandbox; any error
\* is logged and the analysis goes on.
AddKeys ==
    /\ Step("keys", "capture")
    /\ UNCHANGED <<sandboxVars, capture, resultVars, fileVars, err, storeVars,
                   faults>>

ThisPhase == Len(statuses) + 1

\* PacketCapture.Start; then sb.Run, whose Init finds the sandbox initialised.
StartCapture ==
    /\ Step("capture", "start")
    /\ capture' = "on"
    /\ UNCHANGED <<sandboxVars, resultVars, fileVars, err, storeVars, faults>>

StartCaptureFails ==
    /\ Fails("capture")
    /\ Fault
    /\ lastPhase' = ThisPhase
    /\ UNCHANGED <<sandboxVars, capture, status, statuses, execLog, data,
                   fileVars, storeVars>>

\* The channel of packets is closed because reading the interface failed: the
\* goroutine returns and blocks in its deferred done <- true.
CaptureEnds ==
    /\ capture = "on"
    /\ Fault
    /\ capture' = "ended"
    /\ UNCHANGED <<hostVars, pc, mode, pkg, sandboxVars, resultVars, fileVars,
                   err, storeVars, outcome>>

\* PacketCapture.Close, called after Run and deferred for its error returns:
\* stop <- true needs the goroutine in its select, so with a capture that has
\* ended there is no next step.
CloseCapture ==
    /\ Step("close", IF err.dynamic THEN "clean" ELSE "parse")
    /\ capture = "on"
    /\ capture' = "off"
    /\ lastPhase' = IF err.dynamic THEN ThisPhase ELSE lastPhase
    /\ UNCHANGED <<sandboxVars, status, statuses, execLog, data, fileVars, err,
                   storeVars, faults>>

\* Mutant: the next phase is run whatever the status of this one.
RecordPhaseOn ==
    /\ pc = "parse"
    /\ lastPhase' = ThisPhase
    /\ statuses' = Append(statuses, StatusFor(status))
    /\ execLog' \in IF Phases(pkg)[ThisPhase] = "execute" THEN BOOLEAN ELSE {execLog}
    /\ buffers' \in {buffers, buffers \cup {pkg}}
    /\ pc' = IF ThisPhase < Len(Phases(pkg)) THEN "capture" ELSE "clean"
    /\ UNCHANGED <<hostVars, mode, pkg, sandboxVars, capture, status, data,
                   resultsFile, err, storeVars, outcome, faults>>

\* The strace log is parsed, which writes the contents of file writes to
\* temporary files; the phase is recorded.  After the phase "execute" the
\* execution log is copied back, if there is one.  The phases after one that
\* did not complete are not run.
RecordPhase ==
    /\ pc = "parse"
    /\ lastPhase' = ThisPhase
    /\ statuses' = Append(statuses, StatusFor(status))
    /\ execLog' \in IF Phases(pkg)[ThisPhase] = "execute" THEN BOOLEAN ELSE {execLog}
    /\ buffers' \in {buffers, buffers \cup {pkg}}
    /\ pc' = IF StatusFor(status) = "completed" /\ ThisPhase < Len(Phases(pkg))
             THEN "capture" ELSE "clean"
    /\ UNCHANGED <<hostVars, mode, pkg, sandboxVars, capture, status, data,
                   resultsFile, err, storeVars, outcome, faults>>

\* The log cannot be opened or parsed.
ParseFails ==
    /\ Fails("parse")
    /\ Fault
    /\ lastPhase' = ThisPhase
    /\ buffers' \in {buffers, buffers \cup {pkg}}
    /\ UNCHANGED <<sandboxVars, capture, status, statuses, execLog, data,
                   resultsFile, storeVars>>

-----------------------------------------------------------------------------
(* Saving (internal/worker/save_data.go, internal/resultstore).            *)

\* DefaultFilename.
DefaultFilename(p) == NameOf[p]

\* The execution log has a file name of its own, with the version.
Filename(s) == IF s = "execution_log" THEN pkg ELSE DefaultFilename(pkg)

Put(s, producer) ==
    store' = [store EXCEPT ![s][Filename(s)] = [key |-> pkg, from |-> producer]]

HasStore(s) == s \in conf.stores

SaveStep(from, to) ==
    /\ Step(from, to)
    /\ UNCHANGED <<sandboxVars, capture, resultVars, resultsFile>>

\* An upload fails, the rest of the saving is aborted.
AfterSave == IF mode = "static" THEN "dynamic" ELSE "done"

SaveFails(from) ==
    /\ SaveStep(from, AfterSave)
    /\ err' = [err EXCEPT ![mode] = TRUE]
    /\ UNCHANGED <<storeVars, buffers>>

\* SaveStaticAnalysisData: no store, no output or an error before: nothing.
StaticToSave == ~err.static /\ HasStore("static") /\ data # None

SkipStatic ==
    /\ ~StaticToSave
    /\ SaveStep("save_static", "dynamic")
    /\ UNCHANGED <<err, storeVars, buffers, faults>>

AfterStatic ==
    IF "SaveAnalyzedPackages" \in conf.flags THEN "save_package" ELSE "dynamic"

SaveStatic ==
    /\ StaticToSave
    /\ data # Garbled
    /\ SaveStep("save_static", AfterStatic)
    /\ Put("static", data)
    /\ UNCHANGED <<err, pkgSaved, archive, buffers, faults>>

\* json.Unmarshal of the output, or the upload, fails.
SaveStaticFails ==
    /\ StaticToSave
    /\ SaveFails("save_static")
    /\ IF data = Garbled THEN UNCHANGED faults ELSE Fault

SkipDynamic ==
    /\ err.dynamic \/ ~HasStore("dynamic")
    /\ SaveStep("save_dynamic", "done")
    /\ UNCHANGED <<err, storeVars, buffers, faults>>

SaveStrace ==
    /\ ~err.dynamic /\ HasStore("dynamic")
    /\ SaveStep("save_dynamic", "save_log")
    /\ Put("dynamic", pkg)
    /\ UNCHANGED <<err, pkgSaved, archive, buffers, faults>>

SaveStraceFails ==
    /\ ~err.dynamic /\ HasStore("dynamic")
    /\ SaveFails("save_dynamic")
    /\ Fault

AfterLog ==
    IF "WriteFileContents" \in conf.flags THEN "save_writes" ELSE "done"

LogToSave == HasStore("execution_log") /\ execLog

SaveExecutionLog ==
    /\ SaveStep("save_log", AfterLog)
    /\ IF LogToSave THEN Put("execution_log", pkg) ELSE UNCHANGED store
    /\ UNCHANGED <<err, pkgSaved, archive, buffers, faults>>

SaveExecutionLogFails ==
    /\ LogToSave
    /\ SaveFails("save_log")
    /\ Fault

AfterWrites ==
    IF "SaveAnalyzedPackages" \in conf.flags THEN "save_package" ELSE "done"

\* SaveFileWritesData: the summary, a zip of the write buffers of this result,
\* then the directory of temporary files is removed.
SaveWrites ==
    /\ SaveStep("save_writes", AfterWrites)
    /\ IF HasStore("file_writes")
       THEN Put("file_writes", pkg) /\ buffers' = {}
       ELSE UNCHANGED <<store, buffers>>
    /\ UNCHANGED <<err, pkgSaved, archive, faults>>

\* One of the uploads, or the removal, fails.
SaveWritesFails ==
    /\ HasStore("file_writes")
    /\ SaveStep("save_writes", "done")
    /\ Fault
    /\ err' = [err EXCEPT !.dynamic = TRUE]
    /\ UNCHANGED store \/ Put("file_writes", pkg)
    /\ UNCHANGED <<pkgSaved, archive, buffers>>

\* SaveAnalyzedPackage, unless it was saved for this package already.  Nothing
\* is uploaded for a local file or when the registry has no archive.
SavePackage ==
    /\ SaveStep("save_package", AfterSave)
    /\ pkgSaved \/ pkg \in NoArchive \/ HasStore("packages")
    /\ archive' = IF pkgSaved \/ pkg \in NoArchive THEN archive
                  ELSE archive \cup {pkg}
    /\ pkgSaved' = TRUE
    /\ UNCHANGED <<err, store, buffers, faults>>

SavePackageFails ==
    /\ ~pkgSaved /\ pkg \notin NoArchive
    /\ SaveFails("save_package")
    /\ Fault

\* The archive was downloaded but there is no store: a method is called on a
\* nil *ResultStore and the process panics.
SavePackagePanics ==
    /\ ~pkgSaved /\ pkg \notin NoArchive /\ ~HasStore("packages")
    /\ SaveStep("save_package", "panic")
    /\ UNCHANGED <<err, storeVars, buffers, faults>>

\* Mutant: the flag is not reset for the next message.
FinishNoReset ==
    /\ pc = "done"
    /\ Answer(IF conf.driver = "worker" /\ (err.static \/ err.dynamic)
              THEN "error" ELSE "ok")
    /\ UNCHANGED <<storeVars, faults>>

\* The end of handleMessage: the flag is reset, the errors are joined, the
\* completion is published.  run of cmd/analyze ignores the errors.
Finish ==
    /\ pc = "done"
    /\ pkgSaved' = FALSE
    /\ Answer(IF conf.driver = "worker" /\ (err.static \/ err.dynamic)
              THEN "error" ELSE "ok")
    /\ UNCHANGED <<store, archive, faults>>

NotifyFails ==
    /\ pc = "done"
    /\ conf.driver = "worker" /\ ~err.static /\ ~err.dynamic
    /\ Fault
    /\ pkgSaved' = FALSE
    /\ Answer("error")
    /\ UNCHANGED <<store, archive>>

-----------------------------------------------------------------------------
Start == SetupNetwork \/ SetupNetworkFails \/ \E p \in Packages : TakePackage(p)

SandboxStep ==
    \/ SandboxInit \/ SandboxCreateFails \/ SandboxCopyFails
    \/ SandboxStart \/ SandboxStartFails \/ SandboxExec \/ SandboxExecFails
    \/ SandboxStop \/ SandboxStopIgnored \/ SandboxStopFails
    \/ Clean \/ CleanFails

StaticStep ==
    \/ CreateResultsFile \/ CreateResultsFileFails
    \/ ReadResults \/ ReadResultsFails
    \/ SkipStatic \/ SaveStatic \/ SaveStaticFails

DynamicStep ==
    \/ BeginDynamic \/ AddKeys
    \/ StartCapture \/ StartCaptureFails \/ CloseCapture
    \/ RecordPhase \/ ParseFails
    \/ SkipDynamic \/ SaveStrace \/ SaveStraceFails
    \/ SaveExecutionLog \/ SaveExecutionLogFails
    \/ SaveWrites \/ SaveWritesFails

Process ==
    \/ Start \/ Resolve \/ ResolveFails
    \/ SandboxStep \/ StaticStep \/ DynamicStep
    \/ SavePackage \/ SavePackageFails \/ SavePackagePanics
    \/ Finish \/ NotifyFails

Next == Process \/ CaptureEnds

\* The process keeps running; in particular every command in a sandbox ends.
FairSpec == Init /\ [][Next]_vars /\ WF_vars(Process)

Spec == Init /\ [][Next]_vars

-----------------------------------------------------------------------------
(* Properties.                                                             *)

PhaseSteps == {"start", "exec", "stop", "close"}

Steps == PhaseSteps \cup
    {"network", "idle", "resolve", "create_file", "init", "read", "clean",
     "dynamic", "keys", "capture", "parse", "save_static", "save_dynamic",
     "save_log", "save_writes", "save_package", "done", "panic"}

\* The types of the state of the process, the sandbox and the stores.
TypeOK ==
    /\ conf \in Configs
    /\ net \subseteq {NetworkSteps[i] : i \in 1 .. 6} /\ nstep \in 1 .. 7
    /\ pc \in Steps
    /\ mode \in {"static", "dynamic"}
    /\ runs \in 0 .. MaxRuns
    /\ pkg \in Packages \cup {None}
    /\ sb \in [container : BOOLEAN, initialised : BOOLEAN]
    /\ containers \subseteq (1 .. MaxRuns) \X {"static", "dynamic"}
    /\ running \subseteq containers
    /\ spoiled \in BOOLEAN
    /\ capture \in {"off", "on", "ended"}
    /\ {resultsFile, data} \subseteq Packages \cup {None, Garbled}
    /\ status \in {"unknown", "success", "failure"}
    /\ \A i \in 1 .. Len(statuses) :
          statuses[i] \in {"completed", "error_analysis", "error_other"}
    /\ lastPhase \in 0 .. 3
    /\ execLog \in BOOLEAN
    /\ err \in [static : BOOLEAN, dynamic : BOOLEAN]
    /\ buffers \subseteq Packages
    /\ pkgSaved \in BOOLEAN
    /\ store \in [Stores \ {"packages"} -> [Names \cup Packages -> Object \cup {None}]]
    /\ archive \subseteq Packages
    /\ outcome \in {"none", "ok", "error"}
    /\ faults \in 0 .. MaxFaults

\* What is stored as the result of a package is the output of an analysis of
\* that package, although every static analysis of the process writes to the
\* same /results.json and some leave nothing there.
OwnResults ==
    \A s \in DOMAIN store : \A f \in DOMAIN store[s] :
        store[s][f] # None => store[s][f].key = store[s][f].from

\* The result RunDynamicAnalysis returns: with an error the last phase run has
\* no result, otherwise it has one, and every phase before it completed.
PhasesInOrder ==
    pc = "clean" /\ mode = "dynamic" /\ lastPhase > 0 =>
        /\ Len(statuses) = IF err.dynamic THEN lastPhase - 1 ELSE lastPhase
        /\ lastPhase <= Len(Phases(pkg))
        /\ \A i \in 1 .. lastPhase - 1 : statuses[i] = "completed"

\* Whatever step failed, nothing outlives what it was started for: no container
\* its analysis (deferred Clean), unless Clean itself failed, and no capture
\* goroutine its phase (deferred Close, harmless when called twice).
NoLeftovers ==
    /\ pc \in {"idle", "dynamic", "done"} /\ containers # {} => spoiled
    /\ pc \notin PhaseSteps => capture = "off"

\* An analysed package that is reported done is in the bucket of analysed
\* packages: AnalyzedPackageSaved is never left over from the package before.
ArchiveSaved ==
    pc = "done" /\ ~err.static /\ StaticToSave
        /\ "SaveAnalyzedPackages" \in conf.flags /\ pkg \notin NoArchive
            => pkg \in archive

\* Every package that is taken up is answered, and after a failure of
\* InitNetwork the process gets to the next one; except that Close blocks for
\* ever when the capture has ended by itself, and that a missing store panics.
EventuallyAnswered ==
    pc # "idle" ~> \/ pc = "idle" \/ pc = "panic"
                   \/ pc = "close" /\ capture = "ended"

=============================================================================
