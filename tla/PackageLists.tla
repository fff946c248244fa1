---------------------------- MODULE PackageLists ----------------------------
(***************************************************************************)
(* The lists of package names that the submission form offers              *)
(* (services/repository_service.py, the get_..._packages views).  A list   *)
(* is fetched from its registry once, written to a file that all web       *)
(* processes read, and memoised by each process (lru_cache), whatever came *)
(* out.  Nothing locks the file and nothing writes it in one step.         *)
(*                                                                         *)
(* A list is "whole" or "short": some of the names, or none.  Of a file    *)
(* that is being written, or that a process left when it died, a reader    *)
(* sees the beginning: short for CSV, no JSON at all.                      *)
(***************************************************************************)
EXTENDS Naturals

CONSTANTS
    Readers,       \* threads that serve such a request
    WebProcesses,
    ReaderIn,      \* reader -> its process
    MaxLookups     \* bound: requests served

ASSUME ListAssumption ==
    /\ ReaderIn \in [Readers -> WebProcesses]
    /\ MaxLookups \in Nat

Registries == {"pypi", "npm", "rubygems", "packagist", "wolfi", "crates"}
Csv == {"pypi", "rubygems"}
(* Reading the file is guarded: a file that cannot be read is fetched again. *)
Guarded == {"pypi", "npm"}
(* A list the registry did not give in full is still written to the file. *)
KeepsShort == {"pypi", "rubygems", "packagist", "wolfi", "crates"}

VARIABLES
    doing,         \* per reader: "idle", "open", "fetch", "write", "memo", "served"
    registry,      \* per reader: the list asked for
    names,         \* per reader: the list at hand, "none" for an error
    listFile,      \* per registry: "none", "torn", "whole" or "short"
    memo,          \* per process and registry: "none", "whole" or "short"
    shortened,     \* registries a fetch from which did not give the whole list
    lookups        \* requests begun

listVars == <<doing, registry, names, listFile, memo, shortened, lookups>>

ListTypeOK ==
    /\ doing \in [Readers -> {"idle", "open", "fetch", "write", "memo", "served"}]
    /\ registry \in [Readers -> Registries]
    /\ names \in [Readers -> {"none", "whole", "short"}]
    /\ listFile \in [Registries -> {"none", "torn", "whole", "short"}]
    /\ memo \in [WebProcesses -> [Registries -> {"none", "whole", "short"}]]
    /\ shortened \subseteq Registries
    /\ lookups \in Nat

ListInit ==
    /\ doing = [r \in Readers |-> "idle"]
    /\ registry = [r \in Readers |-> "pypi"]
    /\ names = [r \in Readers |-> "none"]
    /\ listFile = [g \in Registries |-> "none"]
    /\ memo = [p \in WebProcesses |-> [g \in Registries |-> "none"]]
    /\ shortened = {}
    /\ lookups = 0

-----------------------------------------------------------------------------
Serve(r, list) ==
    /\ doing' = [doing EXCEPT ![r] = "served"]
    /\ names' = [names EXCEPT ![r] = list]

(* A request: the memoised list, or the function is called. *)
Lookup(r) ==
    /\ doing[r] \in {"idle", "served"} /\ lookups < MaxLookups
    /\ lookups' = lookups + 1
    /\ \E g \in Registries :
        /\ registry' = [registry EXCEPT ![r] = g]
        /\ IF memo[ReaderIn[r]][g] # "none" THEN Serve(r, memo[ReaderIn[r]][g])
           ELSE /\ doing' = [doing EXCEPT ![r] = "open"]
                /\ names' = [names EXCEPT ![r] = "none"]
    /\ UNCHANGED <<listFile, memo, shortened>>

\* Mutant: what can be read of a JSON file counts as the list.
MutContent(g) == IF listFile[g] = "torn" THEN "short" ELSE listFile[g]

(* What reading the file gives: "none" for JSON that cannot be parsed. *)
Content(g) ==
    IF listFile[g] = "torn" THEN IF g \in Csv THEN "short" ELSE "none"
    ELSE listFile[g]

(* The file is read if there is one.  Only two of the functions catch an error
   then; from the others it reaches the visitor, and is not memoised. *)
ReadFile(r) ==
    LET g == registry[r] IN
    /\ doing[r] = "open"
    /\ \/ /\ listFile[g] = "none" \/ (Content(g) = "none" /\ g \in Guarded)
          /\ doing' = [doing EXCEPT ![r] = "fetch"]
          /\ UNCHANGED names
       \/ /\ Content(g) # "none"
          /\ doing' = [doing EXCEPT ![r] = "memo"]
          /\ names' = [names EXCEPT ![r] = Content(g)]
       \/ /\ listFile[g] # "none" /\ Content(g) = "none" /\ g \notin Guarded
          /\ Serve(r, "none")
    /\ UNCHANGED <<registry, listFile, memo, shortened, lookups>>

(* The registry answers, and the file is opened for writing, which empties it.
   The index of crates.io is never cloned, since its folder exists already, so
   that list is always empty. *)
Fetch(r) ==
    LET g == registry[r] IN
    /\ doing[r] = "fetch"
    /\ \E list \in {"whole", "short"} :
        /\ g = "crates" => list = "short"
        /\ list = "short" => g \in KeepsShort
        /\ names' = [names EXCEPT ![r] = list]
        /\ shortened' = IF list = "short" THEN shortened \cup {g} ELSE shortened
    /\ listFile' = [listFile EXCEPT ![g] = "torn"]
    /\ doing' = [doing EXCEPT ![r] = "write"]
    /\ UNCHANGED <<registry, memo, lookups>>

(* The request fails, or is answered by an error that is recognised as one: the
   list is empty, and the file is left alone. *)
FetchFails(r) ==
    LET g == registry[r] IN
    /\ doing[r] = "fetch" /\ g \notin {"wolfi", "crates"}
    /\ names' = [names EXCEPT ![r] = "short"]
    /\ shortened' = shortened \cup {g}
    /\ doing' = [doing EXCEPT ![r] = "memo"]
    /\ UNCHANGED <<registry, listFile, memo, lookups>>

WriteEnds(r) ==
    /\ doing[r] = "write"
    /\ listFile' = [listFile EXCEPT ![registry[r]] = names[r]]
    /\ doing' = [doing EXCEPT ![r] = "memo"]
    /\ UNCHANGED <<registry, names, memo, shortened, lookups>>

(* The disk is full: the file stays cut, and the list is empty where that is
   caught and the error the visitor's where it is not. *)
WriteFails(r) ==
    LET g == registry[r] IN
    /\ doing[r] = "write"
    /\ IF g \in {"wolfi", "crates"} THEN Serve(r, "none") /\ UNCHANGED shortened
       ELSE /\ names' = [names EXCEPT ![r] = "short"]
            /\ shortened' = shortened \cup {g}
            /\ doing' = [doing EXCEPT ![r] = "memo"]
    /\ UNCHANGED <<registry, listFile, memo, lookups>>

(* The function returns.  Of two threads that were in it, the first to return
   fills the cache. *)
Memoise(r) ==
    LET p == ReaderIn[r]
        g == registry[r]
    IN
    /\ doing[r] = "memo"
    /\ memo' = IF memo[p][g] = "none" THEN [memo EXCEPT ![p][g] = names[r]] ELSE memo
    /\ Serve(r, names[r])
    /\ UNCHANGED <<registry, listFile, shortened, lookups>>

(* A web process is killed or restarted: its requests and its cache are gone. *)
ProcessDies(p) ==
    /\ doing' = [r \in Readers |-> IF ReaderIn[r] = p THEN "idle" ELSE doing[r]]
    /\ names' = [r \in Readers |-> IF ReaderIn[r] = p THEN "none" ELSE names[r]]
    /\ memo' = [memo EXCEPT ![p] = [g \in Registries |-> "none"]]
    /\ UNCHANGED <<registry, listFile, shortened, lookups>>

ListNext ==
    \/ \E r \in Readers :
        \/ Lookup(r) \/ ReadFile(r) \/ Fetch(r) \/ FetchFails(r) \/ WriteEnds(r)
        \/ WriteFails(r) \/ Memoise(r)
    \/ \E p \in WebProcesses : ProcessDies(p)

ListSpec == ListInit /\ [][ListNext]_listVars

-----------------------------------------------------------------------------
\* A list served in full or in part is what the registry gave: unless a fetch of
\* it came out short or its file could not be written, no visitor gets a short
\* list from a registry whose file is JSON, although another process may be
\* writing the file just then, or died doing so.
ListsWhole ==
    \A r \in Readers :
        doing[r] = "served" /\ names[r] = "short" =>
            registry[r] \in Csv \cup shortened
=============================================================================
