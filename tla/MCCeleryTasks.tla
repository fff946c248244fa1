---------------------------- MODULE MCCeleryTasks ----------------------------
(* Small instances of CeleryTasks for TLC. *)
EXTENDS CeleryTasks

CONSTANTS r1, r2, r3, p1, p2, k1

\* Two requests for one package, the third for another.
PurlSharedBy12 == [r \in Requests |-> IF r = r3 THEN p2 ELSE p1]

\* Every request is for a package of its own.
PurlPerRequest == [r \in Requests |-> IF r = r1 THEN p1 ELSE p2]

SamePackage == [p \in Purls |-> p]

NoPriority == [r \in Requests |-> 0]

NoKeys == [r \in Requests |-> NoKey]

\* The second and the third request have the same key.
KeySharedBy23 == [r \in Requests |-> IF r = r1 THEN NoKey ELSE k1]
=============================================================================
