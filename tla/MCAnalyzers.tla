----------------------------- MODULE MCAnalyzers -----------------------------
(***************************************************************************)
(* Instance of Analyzers for TLC.                                          *)
(***************************************************************************)
EXTENDS Analyzers, TLC

CONSTANTS t1, t2, t3, a1, a2

(* LastPyMile: three commits, the second and third of which are compared with
   the first; a source file, and a text file whose content may be a's. *)
MCFirstParent == [c \in {1, 2, 3} |-> IF c = 1 THEN 0 ELSE 1]
MCHistories ==
    {[c \in {1, 2, 3} |-> [f \in {"py", "txt"} |-> IF f = "py" THEN py[c] ELSE txt]] :
        py \in [{1, 2, 3} -> {"a", "b", Absent}], txt \in {"a", Absent}}
MCPackings == [{"whl", "sdist", "rpm"} -> {{"a", "b"}}] \cup
              {[r \in {"whl", "sdist", "rpm"} |-> IF r = "whl" THEN {"b"} ELSE {"a"}]}
MCMetadata == {<<>>, <<"docs", "github">>}
MCRisk == [x \in {"a", "b"} |-> IF x = "a" THEN 0 ELSE 2]

(* bandit: three files, the third standard input. *)
Nd(line, below, issue, fault) ==
    [line |-> line, below |-> below, issue |-> issue, fault |-> fault]
Src(kind_, nodes, nosec, pipe) ==
    [kind |-> kind_, nodes |-> nodes, nosec |-> nosec, pipe |-> pipe]
Guard == Src("ok", <<Nd(1, 1, NoIssue, "none"), Nd(2, 0, "eval", "none"),
                     Nd(3, 0, "http", "test")>>, {1}, FALSE)
Broken == Src("ok", <<Nd(1, 0, "eval", "none"), Nd(2, 0, "http", "none"),
                      Nd(3, 0, NoIssue, "visitor")>>, {2}, FALSE)
Nested == Src("ok", <<Nd(1, 2, "import", "none"), Nd(1, 0, "eval", "none"),
                      Nd(2, 0, "http", "none")>>, {3}, FALSE)
Twice == [Nested EXCEPT !.nodes = Append(@, Nd(4, 0, "http", "none"))]
Garbled == Src("syntax", <<>>, {}, FALSE)
Piped == Src("ok", <<Nd(1, 0, "eval", "none"), Nd(4, 0, "eval", "none")>>, {}, TRUE)
Gone == Src("gone", <<>>, {}, FALSE)
MCTrees ==
    [BCommits -> {[f \in 1 .. 3 |-> CASE f = 1 -> x [] f = 2 -> y [] OTHER -> z] :
                    x \in {Guard, Nested, Twice, Gone}, y \in {Broken, Nested, Garbled},
                    z \in {Gone, Piped}}]
MCBanditProfiles ==
    {[include |-> {}, exclude |-> {}], [include |-> {"B001"}, exclude |-> {"B401"}],
     [include |-> {"B999"}, exclude |-> {}], [include |-> {"B401"}, exclude |-> {"B001"}]}
MCTestOf == [i \in {"eval", "http", "import"} |->
                CASE i = "eval" -> "B307" [] i = "http" -> "B411" [] OTHER -> "B401"]
MCSeverityOf == [i \in {"eval", "http", "import"} |->
                    CASE i = "eval" -> 3 [] i = "http" -> 2 [] OTHER -> 1]

(* py2src: a repository that was renamed, and another one. *)
MCLinks == {"old/pkg", "new/pkg", "other/lib", "new/pkg/wiki"}
MCRedirect == [l \in {"old/pkg", "new/pkg", "other/lib"} |->
                IF l = "other/lib" THEN l ELSE "new/pkg"]
MCDepth == [l \in MCLinks |-> IF l = "new/pkg/wiki" THEN 3 ELSE 2]
MCPrefix == [S \in SUBSET MCLinks |->
                IF Cardinality(S) = 1 THEN CHOOSE l \in S : TRUE ELSE NoLink]
MCPackages ==
    {[badges |-> b, home |-> h, code |-> "new/pkg", homeLinks |-> hl, docs |-> d,
      docLinks |-> [x \in Docs |-> IF x = "docs1" THEN <<"other/lib">>
                                   ELSE <<"other/lib", "old/pkg", "new/pkg">>],
      stats |-> s, oss |-> "other/lib", described |-> TRUE] :
        b \in {<<>>, <<"other/lib">>, <<"other/lib", "old/pkg", "new/pkg">>},
        h \in {NoLink, "old/pkg", "new/pkg/wiki"},
        hl \in {{}, {"old/pkg"}, {"other/lib"}},
        d \in {<<>>, <<"docs2", "docs1", "docs2">>},
        s \in {<<>>, <<"old/pkg">>}}
MCFit == [l \in {"old/pkg", "new/pkg", "other/lib"} |->
            [name |-> l = "new/pkg", descr |-> l = "new/pkg",
             badge |-> IF l = "new/pkg" THEN "this" ELSE "other",
             python |-> l = "new/pkg", others |-> TRUE]]

(* The sandbox script: types that return each other. *)
MCPyModules == <<"m1", "m2", "m3">>
MCMembersOf == [m \in {"m1", "m2", "m3"} |->
                    IF m = "m1" THEN <<"f", "A", "g">> ELSE <<"B", "h">>]
MCModuleOf == [t \in {"A", "B", "C"} |-> IF t = "B" THEN "m2" ELSE "m1"]
MCMethodsOf == [t \in {"A", "B", "C"} |->
                    CASE t = "A" -> <<"a1", "a2">> [] t = "B" -> <<"b">> [] OTHER -> <<"c">>]
MCReturns == [c \in {"f", "g", "h", "a1", "a2", "b", "c"} |->
                CASE c = "f" -> {"A", NoneType} [] c = "a1" -> {"C"}
                  [] c = "a2" -> {NoneType} [] c = "c" -> {"A", "C"}
                  [] c \in {"b", "g"} -> {"B"} [] OTHER -> {"A", "B"}]

(* Two threads of one web process, which are alike, and one of another. *)
MCProcessOf == [t \in {t1, t2, t3} |-> IF t = t3 THEN "p2" ELSE "p1"]
MCReaderIn == [r \in {"r1", "r2"} |-> IF r = "r1" THEN "p1" ELSE "p2"]
Alike == Permutations({t1, t2}) \cup Permutations({a1, a2})
=============================================================================
