----------------------------- MODULE VaultStore -----------------------------
(***************************************************************************)
(* What the sanctioned writers of the vault promise together: each         *)
(* operation takes effect on the file in one step, as if nothing ran       *)
(* between its reading the note and its writing it, and archiving a note   *)
(* never loses what the note carried.  The promise is to each other; a     *)
(* file that a hand has changed since the last sanctioned write of it may  *)
(* be replaced unseen.                                                     *)
(***************************************************************************)
EXTENDS FiniteSets

CONSTANTS Paths, Ids, Calls, Compile, None,
          Start        \* what each path holds at first

VARIABLES file, byHand

vars == <<file, byHand>>

Becomes(p, f) ==
  /\ file' = [file EXCEPT ![p] = f]
  /\ byHand' = [byHand EXCEPT ![p] = FALSE]

Amended(f, w) == [id |-> f.id, body |-> f.body \cup {w}, ok |-> TRUE]

(* write_note: a whole file, whose note keeps its id.                      *)
Overwrite(c, p, i) ==
  /\ file[p] # None /\ file[p].ok => file[p].id = i
  /\ Becomes(p, [id |-> i, body |-> {c}, ok |-> TRUE])

(* edit_note, or a rewrite of the compile run.                             *)
Amend(w, p) ==
  /\ file[p] # None
  /\ Becomes(p, Amended(file[p], w))

(* restore_note.                                                           *)
Restore(p) == Becomes(p, Start[p])

(* The two halves of an archive move.                                      *)
CopyTo(p, q) ==
  /\ p # q
  /\ file[p] # None
  /\ file[q] = None
  /\ Becomes(q, Amended(file[p], Compile))

RemoveCopied(p, q) ==
  /\ p # q
  /\ file[p] # None
  /\ file[q] = Amended(file[p], Compile)
  /\ Becomes(p, None)

(* A sanctioned step that touches a path a hand was at last.               *)
Unseen(p, q) ==
  /\ byHand[p] \/ byHand[q]
  /\ byHand' = [byHand EXCEPT ![p] = FALSE]
  /\ \A r \in Paths \ {p} : file'[r] = file[r]

ByHand ==
  /\ byHand' \in [Paths -> BOOLEAN]
  /\ \A p \in Paths : byHand[p] \/ file'[p] # file[p] => byHand'[p]

Init ==
  /\ file = Start
  /\ byHand = [p \in Paths |-> FALSE]

Next ==
  \/ \E p \in Paths, c \in Calls :
       \/ \E i \in Ids : Overwrite(c, p, i)
       \/ Amend(c, p) \/ Restore(p)
  \/ \E p \in Paths : Amend(Compile, p)
  \/ \E p, q \in Paths : CopyTo(p, q) \/ RemoveCopied(p, q)
  \/ \E p, q \in Paths : Unseen(p, q)
  \/ ByHand

Spec == Init /\ [][Next]_vars
=============================================================================
