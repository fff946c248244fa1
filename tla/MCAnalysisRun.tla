---------------------------- MODULE MCAnalysisRun ----------------------------
(* Small instances of AnalysisRun for TLC. *)
EXTENDS AnalysisRun

CONSTANTS a1, b1, na, nb

\* b1 is of another ecosystem than the others.
NameOfVersion == [p \in Packages |-> IF p = b1 THEN nb ELSE na]
Ecosystems == [p \in Packages |-> IF p = b1 THEN "npm" ELSE "pypi"]

Both == {"static", "dynamic"}

AllOn == [driver |-> "worker", modes |-> Both, flags |-> Flags, stores |-> Stores]
NoPackageStore == [AllOn EXCEPT !.stores = Stores \ {"packages"}]

\* The command line tool with part of its options.
Tool == {[driver |-> "analyze", modes |-> m, flags |-> {}, stores |-> Stores] :
            m \in {{"static"}, {"dynamic"}}}

NoStores == [AllOn EXCEPT !.stores = {}]

AllConfigs == {AllOn, NoPackageStore, NoStores} \cup Tool
=============================================================================
