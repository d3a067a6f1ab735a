---------------------------- MODULE MCLinkGraph ----------------------------
(* Paths 1 and 3 have the same basename in two projects; 2 and 4 have      *)
(* basenames of their own.  Note a is at 2; b is at 3 and may be renamed   *)
(* to 4 or 1; d is at 1 or takes over 3.                                   *)
EXTENDS LinkGraph, TLC

CONSTANTS a, b, d, P, Q

MCBase == [p \in Paths |-> CASE p = 1 -> "n" [] p = 2 -> "a" [] p = 3 -> "n" [] p = 4 -> "m"]

Name(n)      == [name |-> n, project |-> None, plain |-> TRUE]
InProject(n) == [name |-> n, project |-> P, plain |-> FALSE]

Note(id, project, refs)   == [id |-> id, project |-> project, refs |-> refs]
At(path, note)            == [path |-> path, note |-> note]

A == {Note(a, P, {}), Note(a, P, {Name("n")}), Note(a, P, {Name("m"), InProject("n")})}
B == Note(b, P, {Name("a")})
D == Note(d, Q, {Name("n")})

MCFiles == {At(2, n) : n \in A} \cup {At(3, B), At(4, B), At(1, B), At(1, D), At(3, D)}

Fresh == {[p \in Paths |-> None]}
Full  == {[p \in Paths |-> IF p = 2 THEN Note(a, P, {Name("n")})
                           ELSE IF p = 3 THEN B ELSE None]}

MCStarts == Fresh \cup Full

Scenario(writes, events, faults) == [writes |-> writes, events |-> events, faults |-> faults]

(* The calls differ in nothing but their names.                            *)
Alike == Permutations(Calls)

(* Three writes; two and a fault; a write beside the watcher and a fault;  *)
(* the watcher alone, twice, and a fault.                                  *)
MCScenarios == {Scenario(3, 0, 0), Scenario(2, 0, 1), Scenario(1, 1, 1), Scenario(0, 2, 1)}
=============================================================================
