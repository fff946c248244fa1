------------------------------ MODULE MCWebQueue ------------------------------
(* Small instances of WebQueue for TLC. *)
EXTENDS WebQueue, TLC

CONSTANTS r1, r2, p1, p2, n1

\* Every request is for a package of its own.
PurlPerRequest == [r \in Requests |-> IF r = r1 THEN p1 ELSE p2]

\* Both requests are for one package.
SamePurl == [r \in Requests |-> p1]

SamePackage == [p \in Purls |-> p]

NoPriority == [r \in Requests |-> 0]

NoKeys == [r \in Requests |-> NoKey]

\* Two versions of one package: the result file is named after both.
OneName == [p \in Packages |-> n1]
=============================================================================
