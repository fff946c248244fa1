------------------------------ MODULE Analyzers ------------------------------
(***************************************************************************)
(* The analyzers and the pages around them.  Each is a program, or a part  *)
(* of the web application, that shares no state with the others: what one  *)
(* behaviour shows is one of them at work, the others standing still.      *)
(***************************************************************************)
EXTENDS LastPyMile, BanditScan, URLFinder, SandboxScript, ToolRequests, PackageLists

VARIABLE tool    \* the one at work

Tools == {"lastpymile", "bandit", "py2src", "sandbox", "pages", "lists"}

(* The inputs of a program that stands still are of no interest: one will do. *)
Inputs(t, S) == IF tool = t THEN S ELSE {CHOOSE x \in S : TRUE}

AnalyzersInit ==
    /\ tool \in Tools
    /\ history \in Inputs("lastpymile", Histories)
    /\ packing \in Inputs("lastpymile", Packings)
    /\ links \in Inputs("lastpymile", Metadata)
    /\ trees \in Inputs("bandit", Trees)
    /\ profile \in Inputs("bandit", BanditProfiles)
    /\ command \in Inputs("bandit", {"bandit", "bandit-baseline"})
    /\ page \in Inputs("py2src", Packages)
    /\ script \in Inputs("sandbox", Scripts)
    /\ phase \in Inputs("sandbox", {"all", "install", "import", "execute", "other"})
    /\ LpmInit /\ BanditInit /\ URLInit /\ ScriptInit /\ ToolInit /\ ListInit

AnalyzersNext ==
    /\ UNCHANGED tool
    /\ \/ /\ tool = "lastpymile" /\ LpmNext
          /\ UNCHANGED <<banditVars, urlVars, scriptVars, toolVars, listVars>>
       \/ /\ tool = "bandit" /\ BanditNext
          /\ UNCHANGED <<lpmVars, urlVars, scriptVars, toolVars, listVars>>
       \/ /\ tool = "py2src" /\ URLNext
          /\ UNCHANGED <<lpmVars, banditVars, scriptVars, toolVars, listVars>>
       \/ /\ tool = "sandbox" /\ ScriptNext
          /\ UNCHANGED <<lpmVars, banditVars, urlVars, toolVars, listVars>>
       \/ /\ tool = "pages" /\ ToolNext
          /\ UNCHANGED <<lpmVars, banditVars, urlVars, scriptVars, listVars>>
       \/ /\ tool = "lists" /\ ListNext
          /\ UNCHANGED <<lpmVars, banditVars, urlVars, scriptVars, toolVars>>

analyzersVars == <<tool, lpmVars, banditVars, urlVars, scriptVars, toolVars, listVars>>
AnalyzersSpec == AnalyzersInit /\ [][AnalyzersNext]_analyzersVars
=============================================================================
