--------------------------- MODULE MCVaultWriters ---------------------------
(* Note n is at path 2 in notes/, and its archive path is 1.               *)
EXTENDS VaultWriters, TLC

CONSTANT n

MCOrigin  == [p \in Paths |-> IF p = 2 THEN n ELSE None]
MCArchive == [p \in {2} |-> 1]

Scenario(edits, faults, runs, calls) ==
  [edits |-> edits, faults |-> faults, runs |-> runs, calls |-> calls]

One == {CHOOSE c \in Calls : TRUE}

(* The calls differ in nothing but their names.                            *)
Alike == Permutations(Calls)

(* Two calls to any tools; an editor, a restorer and a compile run; an     *)
(* editor, a hand and a compile run; a call to any tool, a fault and a     *)
(* compile run; an editor, a hand and a fault; a hand, a fault and a run.   *)
SafetyScenarios ==
  {Scenario(0, 0, 0, Calls \X Ops), Scenario(1, 1, 1, {})} \cup
  UNION {{Scenario(0, 0, 1, ({c} \X {"edit"}) \cup ((Calls \ {c}) \X {"restore"})),
          Scenario(1, 0, 1, {c} \X {"edit"}),
          Scenario(0, 1, 1, {c} \X Ops),
          Scenario(1, 1, 0, {c} \X {"edit"})} : c \in Calls}

(* A hand and a compile run; an editor and a run; another call, a hand and *)
(* a fault.                                                                *)
EndScenarios == {Scenario(1, 0, 1, {}), Scenario(0, 0, 1, One \X {"edit"}),
                 Scenario(1, 1, 0, One \X {"write", "restore"})}
=============================================================================
