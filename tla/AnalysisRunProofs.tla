-------------------------- MODULE AnalysisRunProofs --------------------------
(***************************************************************************)
(* Theorems about AnalysisRun for every set of packages and names, every   *)
(* configuration, and every bound on the packages handled and the failures *)
(* met.                                                                    *)
(***************************************************************************)
EXTENDS AnalysisRun, TLAPS

-----------------------------------------------------------------------------
(* The inductive invariant, in parts.                                      *)

\* The steps that only one of the two analyses takes, and the steps with no
\* package at hand.
StaticSteps == {"resolve", "create_file", "read", "save_static", "dynamic"}
DynamicSteps == {"keys", "capture", "close", "parse", "save_dynamic", "save_log",
                 "save_writes", "done"}
NoPackage == {"network", "idle"}

\* Which analysis the process is in, and that it has a package.
Placed ==
    /\ pc \in StaticSteps => mode = "static"
    /\ pc \in DynamicSteps => mode = "dynamic"
    /\ pc \notin NoPackage => pkg \in Packages /\ runs > 0
    /\ mode = "static" => ~err.dynamic

\* The steps with a container that has been created and not yet removed.
InContainer == {"start", "exec", "stop", "close", "keys", "capture", "parse"}

\* A container is there while it is used; one that is there otherwise is about
\* to be removed, or is left from a Clean that failed.
Contained ==
    /\ pc \in InContainer => Current \in containers /\ sb.container
    /\ containers # {} => spoiled \/ (pc \in InContainer \cup {"read", "clean"} /\ sb.container)

\* The capture goroutine lives from StartCapture to CloseCapture.
Captured ==
    /\ pc \notin PhaseSteps => capture = "off"
    /\ mode = "static" => capture = "off"

\* The results file was emptied for this package, and holds its output once
\* the static analyser has run.
OwnFile ==
    /\ pc \in {"init", "start", "exec"} /\ mode = "static" => resultsFile = None /\ data = None
    /\ pc \in {"stop", "read"} /\ mode = "static" =>
            resultsFile \in {None, Garbled, pkg} /\ data = None
    /\ pc \in {"clean", "save_static"} /\ mode = "static" => data \in {None, Garbled, pkg}

\* The phases recorded so far.
Phased ==
    /\ statuses \in Seq({"completed", "error_analysis", "error_other"})
    /\ pc = "init" /\ mode = "dynamic" => statuses = <<>> /\ lastPhase = 0 /\ ~err.dynamic
    /\ pc \in InContainer /\ mode = "dynamic" =>
          /\ lastPhase = Len(statuses)
          /\ Len(statuses) < Len(Phases(pkg))
          /\ \A i \in 1 .. Len(statuses) : statuses[i] = "completed"
          /\ err.dynamic => pc \in {"stop", "close"}

\* A package whose static result was to be saved is archived from the end of
\* the static analysis on, and the flag says of which package it speaks.
Archived ==
    /\ "static" \notin conf.modes => data = None
    /\ mode = "static" /\ pc \notin NoPackage \cup {"resolve", "dynamic"} => "static" \in conf.modes
    /\ pkgSaved => pc \notin NoPackage \cup {"resolve"} /\ pkg \in archive \cup NoArchive
    /\ (/\ pc = "dynamic" \/ (mode = "dynamic" /\ pc \notin NoPackage)
        /\ StaticToSave /\ "SaveAnalyzedPackages" \in conf.flags /\ pkg \notin NoArchive)
            => pkg \in archive

RunInv == TypeOK /\ Placed /\ Contained /\ Captured /\ OwnFile /\ OwnResults
              /\ Phased /\ PhasesInOrder /\ Archived

\* An error is kept for the analysis at hand and no other.
LEMMA KeptError ==
    ASSUME TypeOK
    PROVE  /\ [err EXCEPT ![mode] = TRUE] \in [static : BOOLEAN, dynamic : BOOLEAN]
           /\ mode = "static" => /\ [err EXCEPT ![mode] = TRUE].static
                                 /\ [err EXCEPT ![mode] = TRUE].dynamic = err.dynamic
           /\ mode = "dynamic" => /\ [err EXCEPT ![mode] = TRUE].dynamic
                                  /\ [err EXCEPT ![mode] = TRUE].static = err.static
<1>1. CASE mode = "static"
  BY <1>1 DEF TypeOK
<1>2. CASE mode = "dynamic"
  BY <1>2 DEF TypeOK
<1> QED
  BY <1>1, <1>2 DEF TypeOK

\* Between one and three phases are run for a package.
LEMMA PhaseCount == Len(Phases(pkg)) \in 1 .. 3
<1> DEFINE S == {"install", "import", "execute"}
           A == IF EcosystemOf[pkg] = "wolfi" THEN <<"install">> ELSE <<"install", "import">>
           B == IF "CodeExecution" \in conf.flags /\ EcosystemOf[pkg] \in {"pypi", "wolfi"}
                THEN <<"execute">> ELSE <<>>
<1>1. /\ <<"install">> \in Seq(S) /\ Len(<<"install">>) = 1
      /\ <<"install", "import">> \in Seq(S) /\ Len(<<"install", "import">>) = 2
      /\ <<"execute">> \in Seq(S) /\ Len(<<"execute">>) = 1
      /\ <<>> \in Seq(S) /\ Len(<<>>) = 0
  OBVIOUS
<1> HIDE DEF S
<1>2. A \in Seq(S) /\ Len(A) \in 1 .. 2
  BY <1>1
<1>3. B \in Seq(S) /\ Len(B) \in 0 .. 1
  BY <1>1
<1>4. Phases(pkg) = A \o B
  BY DEF Phases
<1> HIDE DEF A, B
<1>5. Len(A \o B) = Len(A) + Len(B)
  BY <1>2, <1>3
<1>6. Len(Phases(pkg)) = Len(A) + Len(B)
  BY <1>4, <1>5
<1>7. \A a \in 1 .. 2, b \in 0 .. 1 : a + b \in 1 .. 3
  OBVIOUS
<1> QED
  BY <1>2, <1>3, <1>6, <1>7, Zenon

\* The phases of a package do not change while it is analysed.
LEMMA PhasesStay ==
    ASSUME UNCHANGED <<conf, pkg>>
    PROVE  Phases(pkg)' = Phases(pkg)
BY DEF Phases

\* Placed is preserved by every step.
LEMMA PlacedStep ==
    ASSUME RunInv, [Next]_vars
    PROVE  Placed'
<1> USE KeptError DEF RunInv, Placed, StaticSteps, DynamicSteps, NoPackage, hostVars,
   sandboxVars, resultVars, storeVars, fileVars
<1>0. TypeOK
  OBVIOUS
<1>1. CASE SetupNetwork \/ SetupNetworkFails
  BY <1>0, <1>1 DEF SetupNetwork, SetupNetworkFails, TypeOK
<1>2. CASE \E p \in Packages : TakePackage(p)
  BY <1>0, <1>2 DEF TakePackage, NoError, TypeOK
<1>3. CASE Resolve \/ ResolveFails \/ Finish \/ NotifyFails
  BY <1>0, <1>3 DEF Resolve, ResolveFails, Finish, NotifyFails, Answer, Step, Fault,
     TypeOK
<1>4. CASE SandboxInit \/ SandboxCreateFails \/ SandboxCopyFails
  BY <1>0, <1>4 DEF SandboxInit, SandboxCreateFails, SandboxCopyFails, Step, Fails,
     Fault, AfterInit, TypeOK
<1>5. CASE SandboxStart \/ SandboxStartFails \/ SandboxExecFails
  BY <1>0, <1>5 DEF SandboxStart, SandboxStartFails, SandboxExecFails, Step, RunError,
     Fault, AfterRunError, TypeOK
<1>6. CASE SandboxExec
  BY <1>0, <1>6 DEF SandboxExec, Step, Fault, TypeOK
<1>7. CASE SandboxStop \/ SandboxStopIgnored \/ SandboxStopFails
  BY <1>0, <1>7 DEF SandboxStop, SandboxStopIgnored, SandboxStopFails, Step, RunError,
     AfterRunError, AfterStop, Fault, TypeOK
<1>8. CASE Clean \/ CleanFails
  BY <1>0, <1>8 DEF Clean, CleanFails, Step, AfterClean, Fault, TypeOK
<1>9. CASE CreateResultsFile \/ CreateResultsFileFails \/ ReadResults
           \/ ReadResultsFails
  BY <1>0, <1>9 DEF CreateResultsFile, CreateResultsFileFails, ReadResults,
     ReadResultsFails, Step, Fails, Fault, TypeOK
<1>10. CASE SkipStatic \/ SaveStatic \/ SaveStaticFails
  BY <1>0, <1>10 DEF SkipStatic, SaveStatic, SaveStaticFails, Step, SaveStep, SaveFails,
     Fault, AfterSave, AfterStatic, Put, StaticToSave, HasStore, Filename,
     DefaultFilename, TypeOK
<1>11. CASE BeginDynamic \/ AddKeys \/ StartCapture \/ StartCaptureFails
           \/ CloseCapture
  BY <1>0, <1>11 DEF BeginDynamic, AddKeys, StartCapture, StartCaptureFails,
     CloseCapture, Step, Fails, Fault, ThisPhase, TypeOK
<1>12. CASE RecordPhase \/ ParseFails
  BY <1>0, <1>12 DEF RecordPhase, ParseFails, Step, Fails, Fault, ThisPhase, TypeOK
<1>13. CASE SkipDynamic \/ SaveStrace \/ SaveStraceFails \/ SaveExecutionLog
           \/ SaveExecutionLogFails \/ SaveWrites \/ SaveWritesFails
  BY <1>0, <1>13 DEF SkipDynamic, SaveStrace, SaveStraceFails, SaveExecutionLog,
     SaveExecutionLogFails, SaveWrites, SaveWritesFails, Step, SaveStep, SaveFails,
     Fault, AfterSave, AfterLog, AfterWrites, Put, HasStore, LogToSave, Filename,
     DefaultFilename, TypeOK
<1>14. CASE SavePackage \/ SavePackageFails \/ SavePackagePanics
  BY <1>0, <1>14 DEF SavePackage, SavePackageFails, SavePackagePanics, Step, SaveStep,
     SaveFails, Fault, AfterSave, HasStore, TypeOK
<1>15. CASE CaptureEnds
  BY <1>0, <1>15 DEF CaptureEnds, Fault, TypeOK
<1>16. CASE UNCHANGED vars
  BY <1>16 DEF vars
<1> QED
  BY <1>1, <1>2, <1>3, <1>4, <1>5, <1>6, <1>7, <1>8, <1>9, <1>10, <1>11, <1>12, <1>13,
     <1>14, <1>15, <1>16
  DEF Next, Process, Start, SandboxStep, StaticStep, DynamicStep

\* Contained is preserved by every step.
LEMMA ContainedStep ==
    ASSUME RunInv, [Next]_vars
    PROVE  Contained'
<1> USE KeptError DEF RunInv, Contained, Placed, InContainer, Current, StaticSteps,
   DynamicSteps, NoPackage, hostVars, sandboxVars, resultVars, storeVars, fileVars
<1>0. TypeOK
  OBVIOUS
<1>1. CASE SetupNetwork \/ SetupNetworkFails
  BY <1>0, <1>1 DEF SetupNetwork, SetupNetworkFails, TypeOK
<1>2. CASE \E p \in Packages : TakePackage(p)
  BY <1>0, <1>2 DEF TakePackage, NoError, TypeOK
<1>3. CASE Resolve \/ ResolveFails \/ Finish \/ NotifyFails
  BY <1>0, <1>3 DEF Resolve, ResolveFails, Finish, NotifyFails, Answer, Step, Fault,
     TypeOK
<1>4. CASE SandboxInit \/ SandboxCreateFails \/ SandboxCopyFails
  BY <1>0, <1>4 DEF SandboxInit, SandboxCreateFails, SandboxCopyFails, Step, Fails,
     Fault, AfterInit, TypeOK
<1>5. CASE SandboxStart \/ SandboxStartFails \/ SandboxExecFails
  BY <1>0, <1>5 DEF SandboxStart, SandboxStartFails, SandboxExecFails, Step, RunError,
     Fault, AfterRunError, TypeOK
<1>6. CASE SandboxExec
  BY <1>0, <1>6 DEF SandboxExec, Step, Fault, TypeOK
<1>7. CASE SandboxStop \/ SandboxStopIgnored \/ SandboxStopFails
  BY <1>0, <1>7 DEF SandboxStop, SandboxStopIgnored, SandboxStopFails, Step, RunError,
     AfterRunError, AfterStop, Fault, TypeOK
<1>8. CASE Clean \/ CleanFails
  BY <1>0, <1>8 DEF Clean, CleanFails, Step, AfterClean, Fault, TypeOK
<1>9. CASE CreateResultsFile \/ CreateResultsFileFails \/ ReadResults
           \/ ReadResultsFails
  BY <1>0, <1>9 DEF CreateResultsFile, CreateResultsFileFails, ReadResults,
     ReadResultsFails, Step, Fails, Fault, TypeOK
<1>10. CASE SkipStatic \/ SaveStatic \/ SaveStaticFails
  BY <1>0, <1>10 DEF SkipStatic, SaveStatic, SaveStaticFails, Step, SaveStep, SaveFails,
     Fault, AfterSave, AfterStatic, Put, StaticToSave, HasStore, Filename,
     DefaultFilename, TypeOK
<1>11. CASE BeginDynamic \/ AddKeys \/ StartCapture \/ StartCaptureFails
           \/ CloseCapture
  BY <1>0, <1>11 DEF BeginDynamic, AddKeys, StartCapture, StartCaptureFails,
     CloseCapture, Step, Fails, Fault, ThisPhase, TypeOK
<1>12. CASE RecordPhase \/ ParseFails
  BY <1>0, <1>12 DEF RecordPhase, ParseFails, Step, Fails, Fault, ThisPhase, TypeOK
<1>13. CASE SkipDynamic \/ SaveStrace \/ SaveStraceFails \/ SaveExecutionLog
           \/ SaveExecutionLogFails \/ SaveWrites \/ SaveWritesFails
  BY <1>0, <1>13 DEF SkipDynamic, SaveStrace, SaveStraceFails, SaveExecutionLog,
     SaveExecutionLogFails, SaveWrites, SaveWritesFails, Step, SaveStep, SaveFails,
     Fault, AfterSave, AfterLog, AfterWrites, Put, HasStore, LogToSave, Filename,
     DefaultFilename, TypeOK
<1>14. CASE SavePackage \/ SavePackageFails \/ SavePackagePanics
  BY <1>0, <1>14 DEF SavePackage, SavePackageFails, SavePackagePanics, Step, SaveStep,
     SaveFails, Fault, AfterSave, HasStore, TypeOK
<1>15. CASE CaptureEnds
  BY <1>0, <1>15 DEF CaptureEnds, Fault, TypeOK
<1>16. CASE UNCHANGED vars
  BY <1>16 DEF vars
<1> QED
  BY <1>1, <1>2, <1>3, <1>4, <1>5, <1>6, <1>7, <1>8, <1>9, <1>10, <1>11, <1>12, <1>13,
     <1>14, <1>15, <1>16
  DEF Next, Process, Start, SandboxStep, StaticStep, DynamicStep

\* Captured is preserved by every step.
LEMMA CapturedStep ==
    ASSUME RunInv, [Next]_vars
    PROVE  Captured'
<1> USE KeptError DEF RunInv, Captured, Placed, PhaseSteps, StaticSteps, DynamicSteps,
   hostVars, sandboxVars, resultVars, storeVars, fileVars
<1>0. TypeOK
  OBVIOUS
<1>1. CASE SetupNetwork \/ SetupNetworkFails
  BY <1>0, <1>1 DEF SetupNetwork, SetupNetworkFails, TypeOK
<1>2. CASE \E p \in Packages : TakePackage(p)
  BY <1>0, <1>2 DEF TakePackage, NoError, TypeOK
<1>3. CASE Resolve \/ ResolveFails \/ Finish \/ NotifyFails
  BY <1>0, <1>3 DEF Resolve, ResolveFails, Finish, NotifyFails, Answer, Step, Fault,
     TypeOK
<1>4. CASE SandboxInit \/ SandboxCreateFails \/ SandboxCopyFails
  BY <1>0, <1>4 DEF SandboxInit, SandboxCreateFails, SandboxCopyFails, Step, Fails,
     Fault, AfterInit, TypeOK
<1>5. CASE SandboxStart \/ SandboxStartFails \/ SandboxExecFails
  BY <1>0, <1>5 DEF SandboxStart, SandboxStartFails, SandboxExecFails, Step, RunError,
     Fault, AfterRunError, TypeOK
<1>6. CASE SandboxExec
  BY <1>0, <1>6 DEF SandboxExec, Step, Fault, TypeOK
<1>7. CASE SandboxStop \/ SandboxStopIgnored \/ SandboxStopFails
  BY <1>0, <1>7 DEF SandboxStop, SandboxStopIgnored, SandboxStopFails, Step, RunError,
     AfterRunError, AfterStop, Fault, TypeOK
<1>8. CASE Clean \/ CleanFails
  BY <1>0, <1>8 DEF Clean, CleanFails, Step, AfterClean, Fault, TypeOK
<1>9. CASE CreateResultsFile \/ CreateResultsFileFails \/ ReadResults
           \/ ReadResultsFails
  BY <1>0, <1>9 DEF CreateResultsFile, CreateResultsFileFails, ReadResults,
     ReadResultsFails, Step, Fails, Fault, TypeOK
<1>10. CASE SkipStatic \/ SaveStatic \/ SaveStaticFails
  BY <1>0, <1>10 DEF SkipStatic, SaveStatic, SaveStaticFails, Step, SaveStep, SaveFails,
     Fault, AfterSave, AfterStatic, Put, StaticToSave, HasStore, Filename,
     DefaultFilename, TypeOK
<1>11. CASE BeginDynamic \/ AddKeys \/ StartCapture \/ StartCaptureFails
           \/ CloseCapture
  BY <1>0, <1>11 DEF BeginDynamic, AddKeys, StartCapture, StartCaptureFails,
     CloseCapture, Step, Fails, Fault, ThisPhase, TypeOK
<1>12. CASE RecordPhase \/ ParseFails
  BY <1>0, <1>12 DEF RecordPhase, ParseFails, Step, Fails, Fault, ThisPhase, TypeOK
<1>13. CASE SkipDynamic \/ SaveStrace \/ SaveStraceFails \/ SaveExecutionLog
           \/ SaveExecutionLogFails \/ SaveWrites \/ SaveWritesFails
  BY <1>0, <1>13 DEF SkipDynamic, SaveStrace, SaveStraceFails, SaveExecutionLog,
     SaveExecutionLogFails, SaveWrites, SaveWritesFails, Step, SaveStep, SaveFails,
     Fault, AfterSave, AfterLog, AfterWrites, Put, HasStore, LogToSave, Filename,
     DefaultFilename, TypeOK
<1>14. CASE SavePackage \/ SavePackageFails \/ SavePackagePanics
  BY <1>0, <1>14 DEF SavePackage, SavePackageFails, SavePackagePanics, Step, SaveStep,
     SaveFails, Fault, AfterSave, HasStore, TypeOK
<1>15. CASE CaptureEnds
  BY <1>0, <1>15 DEF CaptureEnds, Fault, TypeOK
<1>16. CASE UNCHANGED vars
  BY <1>16 DEF vars
<1> QED
  BY <1>1, <1>2, <1>3, <1>4, <1>5, <1>6, <1>7, <1>8, <1>9, <1>10, <1>11, <1>12, <1>13,
     <1>14, <1>15, <1>16
  DEF Next, Process, Start, SandboxStep, StaticStep, DynamicStep

\* OwnFile is preserved by every step.
LEMMA OwnFileStep ==
    ASSUME RunInv, [Next]_vars
    PROVE  OwnFile'
<1> USE KeptError DEF RunInv, OwnFile, Placed, StaticSteps, DynamicSteps, hostVars,
   sandboxVars, resultVars, storeVars, fileVars
<1>0. TypeOK
  OBVIOUS
<1>1. CASE SetupNetwork \/ SetupNetworkFails
  BY <1>0, <1>1 DEF SetupNetwork, SetupNetworkFails, TypeOK
<1>2. CASE \E p \in Packages : TakePackage(p)
  BY <1>0, <1>2 DEF TakePackage, NoError, TypeOK
<1>3. CASE Resolve \/ ResolveFails \/ Finish \/ NotifyFails
  BY <1>0, <1>3 DEF Resolve, ResolveFails, Finish, NotifyFails, Answer, Step, Fault,
     TypeOK
<1>4. CASE SandboxInit \/ SandboxCreateFails \/ SandboxCopyFails
  BY <1>0, <1>4 DEF SandboxInit, SandboxCreateFails, SandboxCopyFails, Step, Fails,
     Fault, AfterInit, TypeOK
<1>5. CASE SandboxStart \/ SandboxStartFails \/ SandboxExecFails
  BY <1>0, <1>5 DEF SandboxStart, SandboxStartFails, SandboxExecFails, Step, RunError,
     Fault, AfterRunError, TypeOK
<1>6. CASE SandboxExec
  BY <1>0, <1>6 DEF SandboxExec, Step, Fault, TypeOK
<1>7. CASE SandboxStop \/ SandboxStopIgnored \/ SandboxStopFails
  BY <1>0, <1>7 DEF SandboxStop, SandboxStopIgnored, SandboxStopFails, Step, RunError,
     AfterRunError, AfterStop, Fault, TypeOK
<1>8. CASE Clean \/ CleanFails
  BY <1>0, <1>8 DEF Clean, CleanFails, Step, AfterClean, Fault, TypeOK
<1>9. CASE CreateResultsFile \/ CreateResultsFileFails \/ ReadResults
           \/ ReadResultsFails
  BY <1>0, <1>9 DEF CreateResultsFile, CreateResultsFileFails, ReadResults,
     ReadResultsFails, Step, Fails, Fault, TypeOK
<1>10. CASE SkipStatic \/ SaveStatic \/ SaveStaticFails
  BY <1>0, <1>10 DEF SkipStatic, SaveStatic, SaveStaticFails, Step, SaveStep, SaveFails,
     Fault, AfterSave, AfterStatic, Put, StaticToSave, HasStore, Filename,
     DefaultFilename, TypeOK
<1>11. CASE BeginDynamic \/ AddKeys \/ StartCapture \/ StartCaptureFails
           \/ CloseCapture
  BY <1>0, <1>11 DEF BeginDynamic, AddKeys, StartCapture, StartCaptureFails,
     CloseCapture, Step, Fails, Fault, ThisPhase, TypeOK
<1>12. CASE RecordPhase \/ ParseFails
  BY <1>0, <1>12 DEF RecordPhase, ParseFails, Step, Fails, Fault, ThisPhase, TypeOK
<1>13. CASE SkipDynamic \/ SaveStrace \/ SaveStraceFails \/ SaveExecutionLog
           \/ SaveExecutionLogFails \/ SaveWrites \/ SaveWritesFails
  BY <1>0, <1>13 DEF SkipDynamic, SaveStrace, SaveStraceFails, SaveExecutionLog,
     SaveExecutionLogFails, SaveWrites, SaveWritesFails, Step, SaveStep, SaveFails,
     Fault, AfterSave, AfterLog, AfterWrites, Put, HasStore, LogToSave, Filename,
     DefaultFilename, TypeOK
<1>14. CASE SavePackage \/ SavePackageFails \/ SavePackagePanics
  BY <1>0, <1>14 DEF SavePackage, SavePackageFails, SavePackagePanics, Step, SaveStep,
     SaveFails, Fault, AfterSave, HasStore, TypeOK
<1>15. CASE CaptureEnds
  BY <1>0, <1>15 DEF CaptureEnds, Fault, TypeOK
<1>16. CASE UNCHANGED vars
  BY <1>16 DEF vars
<1> QED
  BY <1>1, <1>2, <1>3, <1>4, <1>5, <1>6, <1>7, <1>8, <1>9, <1>10, <1>11, <1>12, <1>13,
     <1>14, <1>15, <1>16
  DEF Next, Process, Start, SandboxStep, StaticStep, DynamicStep

\* OwnResults is preserved by every step.
LEMMA OwnResultsStep ==
    ASSUME RunInv, [Next]_vars
    PROVE  OwnResults'
<1> USE KeptError DEF RunInv, OwnResults, OwnFile, Placed, StaticSteps, NoPackage,
   hostVars, sandboxVars, resultVars, storeVars, fileVars
<1>0. TypeOK
  OBVIOUS
<1>1. CASE SetupNetwork \/ SetupNetworkFails
  BY <1>0, <1>1 DEF SetupNetwork, SetupNetworkFails, TypeOK
<1>2. CASE \E p \in Packages : TakePackage(p)
  BY <1>0, <1>2 DEF TakePackage, NoError, TypeOK
<1>3. CASE Resolve \/ ResolveFails \/ Finish \/ NotifyFails
  BY <1>0, <1>3 DEF Resolve, ResolveFails, Finish, NotifyFails, Answer, Step, Fault,
     TypeOK
<1>4. CASE SandboxInit \/ SandboxCreateFails \/ SandboxCopyFails
  BY <1>0, <1>4 DEF SandboxInit, SandboxCreateFails, SandboxCopyFails, Step, Fails,
     Fault, AfterInit, TypeOK
<1>5. CASE SandboxStart \/ SandboxStartFails \/ SandboxExecFails
  BY <1>0, <1>5 DEF SandboxStart, SandboxStartFails, SandboxExecFails, Step, RunError,
     Fault, AfterRunError, TypeOK
<1>6. CASE SandboxExec
  BY <1>0, <1>6 DEF SandboxExec, Step, Fault, TypeOK
<1>7. CASE SandboxStop \/ SandboxStopIgnored \/ SandboxStopFails
  BY <1>0, <1>7 DEF SandboxStop, SandboxStopIgnored, SandboxStopFails, Step, RunError,
     AfterRunError, AfterStop, Fault, TypeOK
<1>8. CASE Clean \/ CleanFails
  BY <1>0, <1>8 DEF Clean, CleanFails, Step, AfterClean, Fault, TypeOK
<1>9. CASE CreateResultsFile \/ CreateResultsFileFails \/ ReadResults
           \/ ReadResultsFails
  BY <1>0, <1>9 DEF CreateResultsFile, CreateResultsFileFails, ReadResults,
     ReadResultsFails, Step, Fails, Fault, TypeOK
<1>10. CASE SkipStatic \/ SaveStatic \/ SaveStaticFails
  BY <1>0, <1>10 DEF SkipStatic, SaveStatic, SaveStaticFails, Step, SaveStep, SaveFails,
     Fault, AfterSave, AfterStatic, Put, StaticToSave, HasStore, Filename,
     DefaultFilename, TypeOK
<1>11. CASE BeginDynamic \/ AddKeys \/ StartCapture \/ StartCaptureFails
           \/ CloseCapture
  BY <1>0, <1>11 DEF BeginDynamic, AddKeys, StartCapture, StartCaptureFails,
     CloseCapture, Step, Fails, Fault, ThisPhase, TypeOK
<1>12. CASE RecordPhase \/ ParseFails
  BY <1>0, <1>12 DEF RecordPhase, ParseFails, Step, Fails, Fault, ThisPhase, TypeOK
<1>13. CASE SkipDynamic \/ SaveStrace \/ SaveStraceFails \/ SaveExecutionLog
           \/ SaveExecutionLogFails \/ SaveWrites \/ SaveWritesFails
  BY <1>0, <1>13 DEF SkipDynamic, SaveStrace, SaveStraceFails, SaveExecutionLog,
     SaveExecutionLogFails, SaveWrites, SaveWritesFails, Step, SaveStep, SaveFails,
     Fault, AfterSave, AfterLog, AfterWrites, Put, HasStore, LogToSave, Filename,
     DefaultFilename, TypeOK
<1>14. CASE SavePackage \/ SavePackageFails \/ SavePackagePanics
  BY <1>0, <1>14 DEF SavePackage, SavePackageFails, SavePackagePanics, Step, SaveStep,
     SaveFails, Fault, AfterSave, HasStore, TypeOK
<1>15. CASE CaptureEnds
  BY <1>0, <1>15 DEF CaptureEnds, Fault, TypeOK
<1>16. CASE UNCHANGED vars
  BY <1>16 DEF vars
<1> QED
  BY <1>1, <1>2, <1>3, <1>4, <1>5, <1>6, <1>7, <1>8, <1>9, <1>10, <1>11, <1>12, <1>13,
     <1>14, <1>15, <1>16
  DEF Next, Process, Start, SandboxStep, StaticStep, DynamicStep

\* Phased is preserved by every step.
LEMMA PhasedStep ==
    ASSUME RunInv, [Next]_vars
    PROVE  Phased'
<1> USE KeptError, PhaseCount, PhasesStay DEF RunInv, Phased, Placed, DynamicSteps,
   StaticSteps, InContainer, NoPackage, hostVars, sandboxVars, resultVars, storeVars,
   fileVars
<1>0. TypeOK
  OBVIOUS
<1>1. CASE SetupNetwork \/ SetupNetworkFails
  BY <1>0, <1>1 DEF SetupNetwork, SetupNetworkFails, TypeOK
<1>2. CASE \E p \in Packages : TakePackage(p)
  BY <1>0, <1>2 DEF TakePackage, NoError, TypeOK
<1>3. CASE Resolve \/ ResolveFails \/ Finish \/ NotifyFails
  BY <1>0, <1>3 DEF Resolve, ResolveFails, Finish, NotifyFails, Answer, Step, Fault,
     TypeOK
<1>4. CASE SandboxInit \/ SandboxCreateFails \/ SandboxCopyFails
  <2>1. Len(Phases(pkg)) > 0
    BY PhaseCount
  <2>2. CASE mode = "dynamic" /\ SandboxInit
    <3>1. statuses = <<>> /\ Len(statuses) = 0 /\ statuses' = statuses /\ lastPhase = 0
      BY <1>4, <2>2 DEF SandboxInit, Step
    <3>2. Phases(pkg)' = Phases(pkg)
      BY <2>2, PhasesStay DEF SandboxInit, Step
    <3> QED
      BY <1>0, <2>1, <2>2, <3>1, <3>2 DEF SandboxInit, Step, AfterInit
  <2>3. CASE mode = "static" \/ ~SandboxInit
    BY <1>0, <1>4, <2>3 DEF SandboxInit, SandboxCreateFails, SandboxCopyFails, Step, Fails,
       Fault, AfterInit, TypeOK
  <2> QED
    BY <1>0, <2>2, <2>3 DEF TypeOK
<1>5. CASE SandboxStart \/ SandboxStartFails \/ SandboxExecFails
  BY <1>0, <1>5 DEF SandboxStart, SandboxStartFails, SandboxExecFails, Step, RunError,
     Fault, AfterRunError, TypeOK
<1>6. CASE SandboxExec
  BY <1>0, <1>6 DEF SandboxExec, Step, Fault, TypeOK
<1>7. CASE SandboxStop \/ SandboxStopIgnored \/ SandboxStopFails
  BY <1>0, <1>7 DEF SandboxStop, SandboxStopIgnored, SandboxStopFails, Step, RunError,
     AfterRunError, AfterStop, Fault, TypeOK
<1>8. CASE Clean \/ CleanFails
  BY <1>0, <1>8 DEF Clean, CleanFails, Step, AfterClean, Fault, TypeOK
<1>9. CASE CreateResultsFile \/ CreateResultsFileFails \/ ReadResults
           \/ ReadResultsFails
  BY <1>0, <1>9 DEF CreateResultsFile, CreateResultsFileFails, ReadResults,
     ReadResultsFails, Step, Fails, Fault, TypeOK
<1>10. CASE SkipStatic \/ SaveStatic \/ SaveStaticFails
  BY <1>0, <1>10 DEF SkipStatic, SaveStatic, SaveStaticFails, Step, SaveStep, SaveFails,
     Fault, AfterSave, AfterStatic, Put, StaticToSave, HasStore, Filename,
     DefaultFilename, TypeOK
<1>11. CASE BeginDynamic \/ AddKeys \/ StartCapture \/ StartCaptureFails
           \/ CloseCapture
  <2>1. CASE BeginDynamic
    BY <1>0, <2>1 DEF BeginDynamic, TypeOK
  <2>2. CASE AddKeys \/ StartCapture \/ StartCaptureFails \/ CloseCapture
    BY <1>0, <2>2 DEF AddKeys, StartCapture, StartCaptureFails, CloseCapture, Step, Fails,
       Fault, ThisPhase, TypeOK
  <2> QED
    BY <1>11, <2>1, <2>2
<1>12. CASE RecordPhase \/ ParseFails
  <2>1. CASE RecordPhase
    <3>1. /\ statuses' = Append(statuses, StatusFor(status))
          /\ StatusFor(status) \in {"completed", "error_analysis", "error_other"}
          /\ pc = "parse" /\ mode = "dynamic" /\ mode' = mode /\ err' = err
          /\ UNCHANGED <<conf, pkg>>
          /\ lastPhase' = Len(statuses) + 1
          /\ pc' = "capture" => StatusFor(status) = "completed" /\ Len(statuses) + 1 < Len(Phases(pkg))
          /\ pc' \in {"capture", "clean"}
      BY <2>1 DEF RecordPhase, StatusFor, ThisPhase
    <3>2. /\ statuses' \in Seq({"completed", "error_analysis", "error_other"})
          /\ Len(statuses') = Len(statuses) + 1
          /\ statuses'[Len(statuses) + 1] = StatusFor(status)
          /\ \A i \in 1 .. Len(statuses) : statuses'[i] = "completed"
      BY ONLY <3>1, RunInv DEF RunInv, Phased, InContainer
    <3>3. pc' = "capture" => \A i \in 1 .. Len(statuses') : statuses'[i] = "completed"
      BY <3>1, <3>2
    <3>4. Phases(pkg)' = Phases(pkg)
      BY <3>1, PhasesStay
    <3> QED
      BY <3>1, <3>2, <3>3, <3>4
  <2>2. CASE ParseFails
    BY <1>0, <2>2 DEF ParseFails, Step, Fails, Fault, ThisPhase, TypeOK
  <2> QED
    BY <1>12, <2>1, <2>2
<1>13. CASE SkipDynamic \/ SaveStrace \/ SaveStraceFails \/ SaveExecutionLog
           \/ SaveExecutionLogFails \/ SaveWrites \/ SaveWritesFails
  BY <1>0, <1>13 DEF SkipDynamic, SaveStrace, SaveStraceFails, SaveExecutionLog,
     SaveExecutionLogFails, SaveWrites, SaveWritesFails, Step, SaveStep, SaveFails,
     Fault, AfterSave, AfterLog, AfterWrites, Put, HasStore, LogToSave, Filename,
     DefaultFilename, TypeOK
<1>14. CASE SavePackage \/ SavePackageFails \/ SavePackagePanics
  BY <1>0, <1>14 DEF SavePackage, SavePackageFails, SavePackagePanics, Step, SaveStep,
     SaveFails, Fault, AfterSave, HasStore, TypeOK
<1>15. CASE CaptureEnds
  BY <1>0, <1>15 DEF CaptureEnds, Fault, TypeOK
<1>16. CASE UNCHANGED vars
  BY <1>16 DEF vars
<1> QED
  BY <1>1, <1>2, <1>3, <1>4, <1>5, <1>6, <1>7, <1>8, <1>9, <1>10, <1>11, <1>12, <1>13,
     <1>14, <1>15, <1>16
  DEF Next, Process, Start, SandboxStep, StaticStep, DynamicStep

\* PhasesInOrder is preserved by every step.
LEMMA PhasesInOrderStep ==
    ASSUME RunInv, [Next]_vars
    PROVE  PhasesInOrder'
<1> USE KeptError, PhaseCount, PhasesStay DEF RunInv, PhasesInOrder, Phased, Placed,
   DynamicSteps, StaticSteps, InContainer, NoPackage, hostVars, sandboxVars, resultVars,
   storeVars, fileVars
<1>0. TypeOK
  OBVIOUS
<1>1. CASE SetupNetwork \/ SetupNetworkFails
  BY <1>0, <1>1 DEF SetupNetwork, SetupNetworkFails, TypeOK
<1>2. CASE \E p \in Packages : TakePackage(p)
  BY <1>0, <1>2 DEF TakePackage, NoError, TypeOK
<1>3. CASE Resolve \/ ResolveFails \/ Finish \/ NotifyFails
  BY <1>0, <1>3 DEF Resolve, ResolveFails, Finish, NotifyFails, Answer, Step, Fault,
     TypeOK
<1>4. CASE SandboxInit \/ SandboxCreateFails \/ SandboxCopyFails
  BY <1>0, <1>4 DEF SandboxInit, SandboxCreateFails, SandboxCopyFails, Step, Fails,
     Fault, AfterInit, TypeOK
<1>5. CASE SandboxStart \/ SandboxStartFails \/ SandboxExecFails
  BY <1>0, <1>5 DEF SandboxStart, SandboxStartFails, SandboxExecFails, Step, RunError,
     Fault, AfterRunError, TypeOK
<1>6. CASE SandboxExec
  BY <1>0, <1>6 DEF SandboxExec, Step, Fault, TypeOK
<1>7. CASE SandboxStop \/ SandboxStopIgnored \/ SandboxStopFails
  BY <1>0, <1>7 DEF SandboxStop, SandboxStopIgnored, SandboxStopFails, Step, RunError,
     AfterRunError, AfterStop, Fault, TypeOK
<1>8. CASE Clean \/ CleanFails
  BY <1>0, <1>8 DEF Clean, CleanFails, Step, AfterClean, Fault, TypeOK
<1>9. CASE CreateResultsFile \/ CreateResultsFileFails \/ ReadResults
           \/ ReadResultsFails
  BY <1>0, <1>9 DEF CreateResultsFile, CreateResultsFileFails, ReadResults,
     ReadResultsFails, Step, Fails, Fault, TypeOK
<1>10. CASE SkipStatic \/ SaveStatic \/ SaveStaticFails
  BY <1>0, <1>10 DEF SkipStatic, SaveStatic, SaveStaticFails, Step, SaveStep, SaveFails,
     Fault, AfterSave, AfterStatic, Put, StaticToSave, HasStore, Filename,
     DefaultFilename, TypeOK
<1>11. CASE BeginDynamic \/ AddKeys \/ StartCapture \/ StartCaptureFails
           \/ CloseCapture
  BY <1>0, <1>11 DEF BeginDynamic, AddKeys, StartCapture, StartCaptureFails,
     CloseCapture, Step, Fails, Fault, ThisPhase, TypeOK
<1>12. CASE RecordPhase \/ ParseFails
  <2>1. CASE RecordPhase
    <3>1. /\ statuses' = Append(statuses, StatusFor(status))
          /\ pc = "parse" /\ mode = "dynamic" /\ err' = err
          /\ UNCHANGED <<conf, pkg>>
          /\ lastPhase' = Len(statuses) + 1
      BY <2>1 DEF RecordPhase, ThisPhase
    <3>2. /\ Len(statuses') = Len(statuses) + 1
          /\ \A i \in 1 .. Len(statuses) : statuses'[i] = "completed"
          /\ Len(statuses) + 1 <= Len(Phases(pkg))
          /\ ~err.dynamic /\ Len(statuses) \in Nat
      BY ONLY <3>1, RunInv, PhaseCount DEF RunInv, Phased, InContainer
    <3>3. Phases(pkg)' = Phases(pkg)
      BY <3>1, PhasesStay
    <3> QED
      BY <3>1, <3>2, <3>3
  <2>2. CASE ParseFails
    BY <1>0, <2>2 DEF ParseFails, Step, Fails, Fault, ThisPhase, TypeOK
  <2> QED
    BY <1>12, <2>1, <2>2
<1>13. CASE SkipDynamic \/ SaveStrace \/ SaveStraceFails \/ SaveExecutionLog
           \/ SaveExecutionLogFails \/ SaveWrites \/ SaveWritesFails
  BY <1>0, <1>13 DEF SkipDynamic, SaveStrace, SaveStraceFails, SaveExecutionLog,
     SaveExecutionLogFails, SaveWrites, SaveWritesFails, Step, SaveStep, SaveFails,
     Fault, AfterSave, AfterLog, AfterWrites, Put, HasStore, LogToSave, Filename,
     DefaultFilename, TypeOK
<1>14. CASE SavePackage \/ SavePackageFails \/ SavePackagePanics
  BY <1>0, <1>14 DEF SavePackage, SavePackageFails, SavePackagePanics, Step, SaveStep,
     SaveFails, Fault, AfterSave, HasStore, TypeOK
<1>15. CASE CaptureEnds
  BY <1>0, <1>15 DEF CaptureEnds, Fault, TypeOK
<1>16. CASE UNCHANGED vars
  BY <1>16 DEF vars
<1> QED
  BY <1>1, <1>2, <1>3, <1>4, <1>5, <1>6, <1>7, <1>8, <1>9, <1>10, <1>11, <1>12, <1>13,
     <1>14, <1>15, <1>16
  DEF Next, Process, Start, SandboxStep, StaticStep, DynamicStep

\* Archived is preserved by every step.
LEMMA ArchivedStep ==
    ASSUME RunInv, [Next]_vars
    PROVE  Archived'
<1> USE KeptError DEF RunInv, Archived, Placed, OwnFile, DynamicSteps, StaticSteps,
   NoPackage, StaticToSave, HasStore, hostVars, sandboxVars, resultVars, storeVars,
   fileVars
<1>0. TypeOK
  OBVIOUS
<1>1. CASE SetupNetwork \/ SetupNetworkFails
  BY <1>0, <1>1 DEF SetupNetwork, SetupNetworkFails, TypeOK
<1>2. CASE \E p \in Packages : TakePackage(p)
  BY <1>0, <1>2 DEF TakePackage, NoError, TypeOK
<1>3. CASE Resolve \/ ResolveFails \/ Finish \/ NotifyFails
  BY <1>0, <1>3 DEF Resolve, ResolveFails, Finish, NotifyFails, Answer, Step, Fault,
     TypeOK
<1>4. CASE SandboxInit \/ SandboxCreateFails \/ SandboxCopyFails
  BY <1>0, <1>4 DEF SandboxInit, SandboxCreateFails, SandboxCopyFails, Step, Fails,
     Fault, AfterInit, TypeOK
<1>5. CASE SandboxStart \/ SandboxStartFails \/ SandboxExecFails
  BY <1>0, <1>5 DEF SandboxStart, SandboxStartFails, SandboxExecFails, Step, RunError,
     Fault, AfterRunError, TypeOK
<1>6. CASE SandboxExec
  BY <1>0, <1>6 DEF SandboxExec, Step, Fault, TypeOK
<1>7. CASE SandboxStop \/ SandboxStopIgnored \/ SandboxStopFails
  BY <1>0, <1>7 DEF SandboxStop, SandboxStopIgnored, SandboxStopFails, Step, RunError,
     AfterRunError, AfterStop, Fault, TypeOK
<1>8. CASE Clean \/ CleanFails
  BY <1>0, <1>8 DEF Clean, CleanFails, Step, AfterClean, Fault, TypeOK
<1>9. CASE CreateResultsFile \/ CreateResultsFileFails \/ ReadResults
           \/ ReadResultsFails
  BY <1>0, <1>9 DEF CreateResultsFile, CreateResultsFileFails, ReadResults,
     ReadResultsFails, Step, Fails, Fault, TypeOK
<1>10. CASE SkipStatic \/ SaveStatic \/ SaveStaticFails
  BY <1>0, <1>10 DEF SkipStatic, SaveStatic, SaveStaticFails, Step, SaveStep, SaveFails,
     Fault, AfterSave, AfterStatic, Put, StaticToSave, HasStore, Filename,
     DefaultFilename, TypeOK
<1>11. CASE BeginDynamic \/ AddKeys \/ StartCapture \/ StartCaptureFails
           \/ CloseCapture
  BY <1>0, <1>11 DEF BeginDynamic, AddKeys, StartCapture, StartCaptureFails,
     CloseCapture, Step, Fails, Fault, ThisPhase, TypeOK
<1>12. CASE RecordPhase \/ ParseFails
  BY <1>0, <1>12 DEF RecordPhase, ParseFails, Step, Fails, Fault, ThisPhase, TypeOK
<1>13. CASE SkipDynamic \/ SaveStrace \/ SaveStraceFails \/ SaveExecutionLog
           \/ SaveExecutionLogFails \/ SaveWrites \/ SaveWritesFails
  BY <1>0, <1>13 DEF SkipDynamic, SaveStrace, SaveStraceFails, SaveExecutionLog,
     SaveExecutionLogFails, SaveWrites, SaveWritesFails, Step, SaveStep, SaveFails,
     Fault, AfterSave, AfterLog, AfterWrites, Put, HasStore, LogToSave, Filename,
     DefaultFilename, TypeOK
<1>14. CASE SavePackage \/ SavePackageFails \/ SavePackagePanics
  BY <1>0, <1>14 DEF SavePackage, SavePackageFails, SavePackagePanics, Step, SaveStep,
     SaveFails, Fault, AfterSave, HasStore, TypeOK
<1>15. CASE CaptureEnds
  BY <1>0, <1>15 DEF CaptureEnds, Fault, TypeOK
<1>16. CASE UNCHANGED vars
  BY <1>16 DEF vars
<1> QED
  BY <1>1, <1>2, <1>3, <1>4, <1>5, <1>6, <1>7, <1>8, <1>9, <1>10, <1>11, <1>12, <1>13,
     <1>14, <1>15, <1>16
  DEF Next, Process, Start, SandboxStep, StaticStep, DynamicStep

-----------------------------------------------------------------------------
(* Type correctness: how a step may change each variable.                  *)

\* How a step may change the variables, one at a time.
LEMMA Changes ==
    ASSUME TypeOK, [Next]_vars
    PROVE  /\ runs' = runs \/ (runs' = runs + 1 /\ (runs < MaxRuns \/ runs < 1))
           /\ spoiled' \in BOOLEAN /\ execLog' \in BOOLEAN /\ pkgSaved' \in BOOLEAN
           /\ status' \in {"unknown", "success", "failure"}
           /\ sb' \in {sb, NoSandbox, [container |-> TRUE, initialised |-> TRUE],
                       [container |-> TRUE, initialised |-> FALSE]}
           /\ \/ containers' = {} /\ running' = {}
              \/ containers' = containers /\ running' \subseteq running
              \/ containers' = containers \cup {Current} /\ running' = running /\ pc = "init"
              \/ containers' = containers /\ running' = running \cup {Current} /\ pc = "start"
           /\ err' \in {err, NoError, [err EXCEPT ![mode] = TRUE], [err EXCEPT !.dynamic = TRUE]}
           /\ resultsFile' \in {resultsFile, None, Garbled} \/ (resultsFile' = pkg /\ pc = "exec")
           /\ data' \in {data, None, resultsFile}
           /\ buffers' \subseteq buffers \/ (pc = "parse" /\ buffers' = buffers \cup {pkg})
           /\ \/ lastPhase' \in {lastPhase, 0}
              \/ lastPhase' = ThisPhase /\ pc \in {"capture", "close", "parse"}
           /\ faults' = faults \/ Fault
           /\ archive' \subseteq archive \/ (archive' = archive \cup {pkg} /\ pc = "save_package")
<1> USE DEF TypeOK, Next, Process, Start, SandboxStep, StaticStep, DynamicStep, vars,
   hostVars, sandboxVars, resultVars, storeVars, fileVars, TakePackage, SetupNetwork,
   SetupNetworkFails, Resolve, ResolveFails, Finish, NotifyFails, SandboxInit,
   SandboxCreateFails, SandboxCopyFails, SandboxStart, SandboxStartFails,
   SandboxExecFails, SandboxExec, SandboxStop, SandboxStopIgnored, SandboxStopFails,
   Clean, CleanFails, CreateResultsFile, CreateResultsFileFails, ReadResults,
   ReadResultsFails, SkipStatic, SaveStatic, SaveStaticFails, BeginDynamic, AddKeys,
   StartCapture, StartCaptureFails, CloseCapture, RecordPhase, ParseFails,
   SkipDynamic, SaveStrace, SaveStraceFails, SaveExecutionLog, SaveExecutionLogFails,
   SaveWrites, SaveWritesFails, SavePackage, SavePackageFails, SavePackagePanics,
   CaptureEnds, AfterClean, AfterInit, AfterLog, AfterRunError, AfterStatic,
   AfterStop, AfterWrites, Answer, Fails, NoError, RunError, SaveFails, SaveStep,
   Step, AfterSave
<1>1. runs' = runs \/ (runs' = runs + 1 /\ (runs < MaxRuns \/ runs < 1))
  OBVIOUS
<1>2. spoiled' \in BOOLEAN /\ pkgSaved' \in BOOLEAN
  OBVIOUS
<1>3. execLog' \in BOOLEAN
  OBVIOUS
<1>4. status' \in {"unknown", "success", "failure"}
  OBVIOUS
<1>5. sb' \in {sb, NoSandbox, [container |-> TRUE, initialised |-> TRUE],
               [container |-> TRUE, initialised |-> FALSE]}
  OBVIOUS
<1>6. \/ containers' = {} /\ running' = {}
      \/ containers' = containers /\ running' \subseteq running
      \/ containers' = containers \cup {Current} /\ running' = running /\ pc = "init"
      \/ containers' = containers /\ running' = running \cup {Current} /\ pc = "start"
  OBVIOUS
<1>7. err' \in {err, NoError, [err EXCEPT ![mode] = TRUE], [err EXCEPT !.dynamic = TRUE]}
  OBVIOUS
<1>8. /\ resultsFile' \in {resultsFile, None, Garbled} \/ (resultsFile' = pkg /\ pc = "exec")
      /\ data' \in {data, None, resultsFile}
  OBVIOUS
<1>9. buffers' \subseteq buffers \/ (pc = "parse" /\ buffers' = buffers \cup {pkg})
  OBVIOUS
<1>10. \/ lastPhase' \in {lastPhase, 0}
       \/ lastPhase' = ThisPhase /\ pc \in {"capture", "close", "parse"}
  OBVIOUS
<1>11. faults' = faults \/ Fault
  OBVIOUS
<1>12. archive' \subseteq archive \/ (archive' = archive \cup {pkg} /\ pc = "save_package")
  OBVIOUS
<1> QED
  BY <1>1, <1>2, <1>3, <1>4, <1>5, <1>6, <1>7, <1>8, <1>9, <1>10, <1>11, <1>12

\* Where the process is, and what it was started with.
LEMMA ControlType ==
    ASSUME TypeOK, [Next]_vars
    PROVE  /\ conf' \in Configs
           /\ pc' \in Steps
           /\ mode' \in {"static", "dynamic"}
           /\ outcome' \in {"none", "ok", "error"}
           /\ capture' \in {"off", "on", "ended"}
           /\ pkg' \in Packages \cup {None}
<1> USE DEF TypeOK, Next, Process, Start, SandboxStep, StaticStep, DynamicStep, vars,
   hostVars, sandboxVars, resultVars, storeVars, fileVars, TakePackage, SetupNetwork,
   SetupNetworkFails, Resolve, ResolveFails, Finish, NotifyFails, SandboxInit,
   SandboxCreateFails, SandboxCopyFails, SandboxStart, SandboxStartFails,
   SandboxExecFails, SandboxExec, SandboxStop, SandboxStopIgnored, SandboxStopFails,
   Clean, CleanFails, CreateResultsFile, CreateResultsFileFails, ReadResults,
   ReadResultsFails, SkipStatic, SaveStatic, SaveStaticFails, BeginDynamic, AddKeys,
   StartCapture, StartCaptureFails, CloseCapture, RecordPhase, ParseFails,
   SkipDynamic, SaveStrace, SaveStraceFails, SaveExecutionLog, SaveExecutionLogFails,
   SaveWrites, SaveWritesFails, SavePackage, SavePackageFails, SavePackagePanics,
   CaptureEnds, AfterClean, AfterInit, AfterLog, AfterRunError, AfterStatic,
   AfterStop, AfterWrites, Answer, Fails, NoError, RunError, SaveFails, SaveStep,
   Step, AfterSave
<1>1. conf' \in Configs /\ pc' \in Steps
  BY DEF Steps, PhaseSteps
<1>2. mode' \in {"static", "dynamic"} /\ outcome' \in {"none", "ok", "error"}
  OBVIOUS
<1>3. capture' \in {"off", "on", "ended"} /\ pkg' \in Packages \cup {None}
  OBVIOUS
<1> QED
  BY <1>1, <1>2, <1>3

\* The host network and the number of packages.
LEMMA HostType ==
    ASSUME TypeOK, [Next]_vars
    PROVE  /\ net' \subseteq {NetworkSteps[i] : i \in 1 .. 6} /\ nstep' \in 1 .. 7
           /\ runs' \in 0 .. MaxRuns
<1>1. \/ UNCHANGED <<net, nstep>>
      \/ nstep' = 1 /\ net' = net
      \/ nstep <= Len(NetworkSteps) /\ nstep' = nstep + 1 /\ net' = net \cup {NetworkSteps[nstep]}
  <2>1. nstep \in Nat /\ Len(NetworkSteps) = 6
    BY DEF TypeOK, NetworkSteps
  <2> QED
    BY <2>1
    DEF Next, Process, Start, SandboxStep, StaticStep, DynamicStep, vars, hostVars,
        sandboxVars, resultVars, storeVars, fileVars, TakePackage, SetupNetwork,
        SetupNetworkFails, Resolve, ResolveFails, Finish, NotifyFails, SandboxInit,
        SandboxCreateFails, SandboxCopyFails, SandboxStart, SandboxStartFails,
        SandboxExecFails, SandboxExec, SandboxStop, SandboxStopIgnored,
        SandboxStopFails, Clean, CleanFails, CreateResultsFile,
        CreateResultsFileFails, ReadResults, ReadResultsFails, SkipStatic,
        SaveStatic, SaveStaticFails, BeginDynamic, AddKeys, StartCapture,
        StartCaptureFails, CloseCapture, RecordPhase, ParseFails, SkipDynamic,
        SaveStrace, SaveStraceFails, SaveExecutionLog, SaveExecutionLogFails,
        SaveWrites, SaveWritesFails, SavePackage, SavePackageFails,
        SavePackagePanics, CaptureEnds, AfterClean, AfterInit, AfterLog,
        AfterRunError, AfterStatic, AfterStop, AfterWrites, Answer, Fails, NoError,
        RunError, SaveFails, SaveStep, Step, AfterSave, NetworkReady
<1>2. runs' = runs \/ (runs' = runs + 1 /\ (runs < MaxRuns \/ runs < 1))
  BY Changes
<1>3. Len(NetworkSteps) = 6
  BY DEF NetworkSteps
<1>4. net' \subseteq {NetworkSteps[i] : i \in 1 .. 6} /\ nstep' \in 1 .. 7
  BY <1>1, <1>3 DEF TypeOK
<1>5. runs' \in 0 .. MaxRuns
  BY <1>2, RunAssumption DEF TypeOK
<1> QED
  BY <1>4, <1>5

\* The sandbox.
LEMMA SandboxType ==
    ASSUME TypeOK, Placed, Contained, [Next]_vars
    PROVE  /\ sb' \in [container : BOOLEAN, initialised : BOOLEAN]
           /\ containers' \subseteq (1 .. MaxRuns) \X {"static", "dynamic"}
           /\ running' \subseteq containers'
           /\ spoiled' \in BOOLEAN
<1>1. spoiled' \in BOOLEAN
  BY Changes
<1>2. sb' \in {sb, NoSandbox, [container |-> TRUE, initialised |-> TRUE],
               [container |-> TRUE, initialised |-> FALSE]}
  BY Changes
<1>3. sb' \in [container : BOOLEAN, initialised : BOOLEAN]
  <2>1. /\ NoSandbox \in [container : BOOLEAN, initialised : BOOLEAN]
        /\ [container |-> TRUE, initialised |-> TRUE] \in [container : BOOLEAN, initialised : BOOLEAN]
        /\ [container |-> TRUE, initialised |-> FALSE] \in [container : BOOLEAN, initialised : BOOLEAN]
    BY DEF NoSandbox
  <2>2. sb \in [container : BOOLEAN, initialised : BOOLEAN]
    BY DEF TypeOK
  <2> QED
    BY <1>2, <2>1, <2>2, Zenon
<1>4. \/ containers' = {} /\ running' = {}
      \/ containers' = containers /\ running' \subseteq running
      \/ containers' = containers \cup {Current} /\ running' = running /\ pc = "init"
      \/ containers' = containers /\ running' = running \cup {Current} /\ pc = "start"
  BY Changes
<1>5. pc = "init" => Current \in (1 .. MaxRuns) \X {"static", "dynamic"}
  BY DEF Placed, NoPackage, Current, TypeOK
<1>6. pc = "start" => Current \in containers
  BY DEF Contained, InContainer
<1> QED
  BY <1>1, <1>3, <1>4, <1>5, <1>6 DEF TypeOK

\* The results of the two analyses.
LEMMA ResultType ==
    ASSUME TypeOK, Placed, Phased, [Next]_vars
    PROVE  /\ {resultsFile', data'} \subseteq Packages \cup {None, Garbled}
           /\ status' \in {"unknown", "success", "failure"}
           /\ lastPhase' \in 0 .. 3
           /\ execLog' \in BOOLEAN
           /\ err' \in [static : BOOLEAN, dynamic : BOOLEAN]
           /\ buffers' \subseteq Packages
<1>1. err' \in [static : BOOLEAN, dynamic : BOOLEAN]
  <2>1. /\ NoError \in [static : BOOLEAN, dynamic : BOOLEAN]
        /\ [err EXCEPT !.dynamic = TRUE] \in [static : BOOLEAN, dynamic : BOOLEAN]
        /\ err \in [static : BOOLEAN, dynamic : BOOLEAN]
    BY DEF NoError, TypeOK
  <2>2. err' \in {err, NoError, [err EXCEPT ![mode] = TRUE], [err EXCEPT !.dynamic = TRUE]}
    BY Changes
  <2> QED
    BY <2>1, <2>2, KeptError, Zenon
<1>2. pc \in {"exec", "parse"} => pkg \in Packages
  BY DEF Placed, NoPackage
<1>3. {resultsFile', data'} \subseteq Packages \cup {None, Garbled} /\ buffers' \subseteq Packages
  <2>1. /\ resultsFile' \in {resultsFile, None, Garbled} \/ (resultsFile' = pkg /\ pc = "exec")
        /\ data' \in {data, None, resultsFile}
        /\ buffers' \subseteq buffers \/ (pc = "parse" /\ buffers' = buffers \cup {pkg})
    BY Changes
  <2> QED
    BY <1>2, <2>1 DEF TypeOK
<1>4. pc \in {"capture", "close", "parse"} => ThisPhase \in 0 .. 3
  <2>1. ASSUME NEW k \in 1 .. 3, NEW n \in Nat, n < k PROVE n + 1 \in 0 .. 3
    BY <2>1
  <2>2. pc \in {"capture", "close", "parse"} => Len(statuses) < Len(Phases(pkg))
    BY DEF Phased, Placed, InContainer, DynamicSteps
  <2>3. Len(statuses) \in Nat
    BY DEF Phased
  <2> QED
    BY <2>1, <2>2, <2>3, PhaseCount, Zenon DEF ThisPhase
<1>5. lastPhase' \in 0 .. 3
  <2>1. \/ lastPhase' \in {lastPhase, 0}
        \/ lastPhase' = ThisPhase /\ pc \in {"capture", "close", "parse"}
    BY Changes
  <2> QED
    BY <1>4, <2>1 DEF TypeOK
<1> QED
  BY <1>1, <1>3, <1>5, Changes

\* The stores.
LEMMA StoreType ==
    ASSUME TypeOK, Placed, OwnFile, [Next]_vars
    PROVE  /\ pkgSaved' \in BOOLEAN
           /\ store' \in [Stores \ {"packages"} -> [Names \cup Packages -> Object \cup {None}]]
           /\ archive' \subseteq Packages
           /\ faults' \in 0 .. MaxFaults
<1>1. pkgSaved' \in BOOLEAN
  BY Changes
<1>2. faults' = faults \/ Fault
  BY Changes
<1>3. faults' \in 0 .. MaxFaults
  BY <1>2, RunAssumption DEF Fault, TypeOK
<1>4. archive' \subseteq archive \/ (archive' = archive \cup {pkg} /\ pc = "save_package")
  BY Changes
<1>5. archive' \subseteq Packages
  BY <1>4 DEF Placed, NoPackage, TypeOK
<1>6. \/ store' = store
      \/ \E s \in Stores \ {"packages"} : Put(s, pkg) /\ pc \in {"save_dynamic", "save_log", "save_writes"}
      \/ Put("static", data) /\ pc = "save_static" /\ data \notin {None, Garbled}
  BY
    DEF Next, Process, Start, SandboxStep, StaticStep, DynamicStep, vars, hostVars,
        sandboxVars, resultVars, storeVars, fileVars, TakePackage, SetupNetwork,
        SetupNetworkFails, Resolve, ResolveFails, Finish, NotifyFails, SandboxInit,
        SandboxCreateFails, SandboxCopyFails, SandboxStart, SandboxStartFails,
        SandboxExecFails, SandboxExec, SandboxStop, SandboxStopIgnored,
        SandboxStopFails, Clean, CleanFails, CreateResultsFile,
        CreateResultsFileFails, ReadResults, ReadResultsFails, SkipStatic,
        SaveStatic, SaveStaticFails, BeginDynamic, AddKeys, StartCapture,
        StartCaptureFails, CloseCapture, RecordPhase, ParseFails, SkipDynamic,
        SaveStrace, SaveStraceFails, SaveExecutionLog, SaveExecutionLogFails,
        SaveWrites, SaveWritesFails, SavePackage, SavePackageFails,
        SavePackagePanics, CaptureEnds, AfterClean, AfterInit, AfterLog,
        AfterRunError, AfterStatic, AfterStop, AfterWrites, Answer, Fails, NoError,
        RunError, SaveFails, SaveStep, Step, AfterSave, Stores, StaticToSave
<1>7. pc = "save_static" /\ data \notin {None, Garbled} => data = pkg
  BY DEF OwnFile, Placed, StaticSteps
<1>8. store' = store \/ \E s \in Stores \ {"packages"} : Put(s, pkg) /\ pkg \in Packages
  BY <1>6, <1>7 DEF Placed, NoPackage, Stores
<1>9. pkg \in Packages => [key |-> pkg, from |-> pkg] \in Object
  BY DEF Object
<1>10. \A s : pkg \in Packages => Filename(s) \in Names \cup Packages
  BY RunAssumption DEF Filename, DefaultFilename
<1>11. store' \in [Stores \ {"packages"} -> [Names \cup Packages -> Object \cup {None}]]
  <2>1. ASSUME NEW s \in Stores \ {"packages"}, NEW f \in Names \cup Packages,
               NEW o \in Object \cup {None}
        PROVE  [store EXCEPT ![s][f] = o]
                  \in [Stores \ {"packages"} -> [Names \cup Packages -> Object \cup {None}]]
    BY DEF TypeOK
  <2>2. ASSUME NEW s \in Stores \ {"packages"}, Put(s, pkg), pkg \in Packages
        PROVE  store' \in [Stores \ {"packages"} -> [Names \cup Packages -> Object \cup {None}]]
    BY <1>9, <1>10, <2>1, <2>2 DEF Put
  <2> QED
    BY <1>8, <2>2 DEF TypeOK
<1> QED
  BY <1>1, <1>3, <1>5, <1>11

-----------------------------------------------------------------------------
(* The theorems.                                                           *)

\* RunInv holds initially.
LEMMA RunInit == Init => RunInv
<1> SUFFICES ASSUME Init PROVE RunInv
  OBVIOUS
<1> USE DEF Init
<1>1. TypeOK
  <2>1. NoSandbox \in [container : BOOLEAN, initialised : BOOLEAN]
    BY DEF NoSandbox
  <2>2. NoError \in [static : BOOLEAN, dynamic : BOOLEAN]
    BY DEF NoError
  <2>3. \A i \in 1 .. Len(statuses) :
           statuses[i] \in {"completed", "error_analysis", "error_other"}
    OBVIOUS
  <2>4. store \in [Stores \ {"packages"} -> [Names \cup Packages -> Object \cup {None}]]
    OBVIOUS
  <2>5. /\ pc \in Steps /\ sb \in [container : BOOLEAN, initialised : BOOLEAN]
        /\ err \in [static : BOOLEAN, dynamic : BOOLEAN]
    BY <2>1, <2>2 DEF Steps
  <2>6. spoiled \in BOOLEAN /\ execLog \in BOOLEAN /\ pkgSaved \in BOOLEAN
    OBVIOUS
  <2> QED
    BY <2>3, <2>4, <2>5, <2>6, RunAssumption DEF TypeOK
<1>2. Placed /\ Contained /\ Captured /\ OwnFile
  BY DEF Placed, StaticSteps, DynamicSteps, NoPackage, NoError, Contained, InContainer,
     Captured, PhaseSteps, OwnFile
<1>3. OwnResults /\ Archived
  BY DEF OwnResults, Archived, NoPackage
<1>4. Phased /\ PhasesInOrder
  BY DEF Phased, InContainer, PhasesInOrder
<1> QED
  BY <1>1, <1>2, <1>3, <1>4 DEF RunInv

\* RunInv is preserved by every step.
LEMMA RunStep == RunInv /\ [Next]_vars => RunInv'
<1> SUFFICES ASSUME RunInv, [Next]_vars PROVE RunInv'
  OBVIOUS
<1>1. Placed' /\ Contained' /\ Captured' /\ OwnFile' /\ OwnResults'
  BY PlacedStep, ContainedStep, CapturedStep, OwnFileStep, OwnResultsStep
<1>2. Phased' /\ PhasesInOrder' /\ Archived'
  BY PhasedStep, PhasesInOrderStep, ArchivedStep
<1>3. TypeOK'
  <2>1. \A i \in 1 .. Len(statuses') :
           statuses'[i] \in {"completed", "error_analysis", "error_other"}
    BY <1>2 DEF Phased
  <2> QED
    BY <2>1, ControlType, HostType, SandboxType, ResultType, StoreType DEF RunInv, TypeOK
<1> QED
  BY <1>1, <1>2, <1>3 DEF RunInv

\* Every variable of an analysis process keeps its type, for every set of
\* packages and configurations.
THEOREM RunTypeCorrect == Spec => []TypeOK
<1>1. RunInv => TypeOK
  BY DEF RunInv
<1> QED
  BY <1>1, RunInit, RunStep, PTL DEF Spec

\* What is stored as the result of a package is the output of an analysis of that
\* package, however many packages the process has analysed into the one
\* /results.json and whichever of those analyses left nothing or garbage in it.
THEOREM ResultsAreOwn == Spec => []OwnResults
<1>1. RunInv => OwnResults
  BY DEF RunInv
<1> QED
  BY <1>1, RunInit, RunStep, PTL DEF Spec

\* The phases a dynamic analysis reports are the ones it ran, in order, each but
\* the last completed.
THEOREM PhasesAreInOrder == Spec => []PhasesInOrder
<1>1. RunInv => PhasesInOrder
  BY DEF RunInv
<1> QED
  BY <1>1, RunInit, RunStep, PTL DEF Spec

\* No container outlives its analysis unless Clean itself failed, and no capture
\* goroutine its phase, whichever steps fail and however often.
THEOREM NothingIsLeftOver == Spec => []NoLeftovers
<1>1. RunInv => NoLeftovers
  BY DEF RunInv, NoLeftovers, Contained, InContainer, Captured
<1> QED
  BY <1>1, RunInit, RunStep, PTL DEF Spec

\* A package whose static result was saved and that is reported done is in the
\* bucket of analysed packages, for any sequence of packages before it.
THEOREM ArchiveIsSaved == Spec => []ArchiveSaved
<1>1. RunInv => ArchiveSaved
  BY DEF RunInv, ArchiveSaved, Archived, Placed, DynamicSteps, NoPackage
<1> QED
  BY <1>1, RunInit, RunStep, PTL DEF Spec

=============================================================================
