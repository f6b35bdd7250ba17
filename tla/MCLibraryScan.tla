---------------------------- MODULE MCLibraryScan ----------------------------
(* Small instances of LibraryScan for TLC. *)
EXTENDS LibraryScan, TLC

CONSTANTS rootA, rootB, s1, s2

OneRoot == [f \in Files |-> rootA]

\* A scope for all of root A and one for root B, which has no files.
WholeRoots == [s \in Scopes |-> IF s = s1 THEN Files ELSE {}]
OwnRoot == [s \in Scopes |-> IF s = s1 THEN rootA ELSE rootB]

\* Two folders of root A, each with a scope of its own.
Folders == [s \in Scopes |-> IF s = s1 THEN {1} ELSE Files \ {1}]
SameRoot == [s \in Scopes |-> rootA]

OneScope == {<<s1>>}
OneOrBoth == {<<s1>>, <<s1, s2>>}
BothScopes == {<<s1, s2>>}
\* A run compares policy revisions only with each other.
PolicySymmetry == Permutations(Policies)
=============================================================================
