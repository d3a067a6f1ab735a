----------------------------- MODULE LinkGraph -----------------------------
(***************************************************************************)
(* The link graph: the edges the index derives from what notes refer to.   *)
(*                                                                         *)
(* A reference names a note by its basename, optionally within a project;  *)
(* which note that is depends on the notes indexed at the moment, and the  *)
(* first path wins.  Edges are computed when a note is indexed and are not *)
(* computed again as long as its file stays the same, so whoever indexes a *)
(* note looks for notes that mention its name and computes their edges     *)
(* anew.  Those who index are MCP calls, the watcher (one event, or a      *)
(* batch of drifted files) and the compile run.  They share no lock but    *)
(* that of a path, and resolve references some steps before they store     *)
(* the edges.                                                              *)
(*                                                                         *)
(* Which files differ from the index, and why, is VaultWriters' subject:   *)
(* here an indexer starts with files it has read.                          *)
(***************************************************************************)
EXTENDS Integers, FiniteSets, FiniteSetsExt

CONSTANTS
  Paths,       \* vault-relative paths, as numbers in their string order
  Base,        \* the basename of each
  Files,       \* what may be found where: records of a path and a note
  Starts,      \* the indexes the system may start with
  Calls,       \* MCP calls that write
  Watch,       \* the watcher's loop
  Compile,     \* the compile run
  None,
  Scenarios    \* bounds: how many writes (calls and compile rewrites), how
               \* many events (and sweeps), how many faults (crashes, failed
               \* indexing, failed repairs) may happen together

Workers == Calls \cup {Watch, Compile}
Notes   == {x.note : x \in Files}
Ids     == {n.id : n \in Notes}

(* A reference is plain when its text is [[name]] and nothing more: no     *)
(* project, alias or anchor, and no source without brackets.               *)
Refs == [name : {Base[p] : p \in Paths}, project : {n.project : n \in Notes} \cup {None},
         plain : BOOLEAN]

ASSUME NotesAssumption ==
  /\ Paths \subseteq Nat
  /\ IsFiniteSet(Paths)
  /\ \A x \in Files : x.path \in Paths /\ x.note.refs \subseteq Refs
  /\ \A n \in Notes : \A r \in n.refs : r.plain => r.project = None
  /\ Watch # Compile /\ {Watch, Compile} \cap Calls = {}
  /\ None \notin Notes \cup Ids

Bounds == [writes : Nat, events : Nat, faults : Nat]

ASSUME BoundsAssumption == Scenarios \subseteq Bounds

(* The notes table has a path and an id once (0001_initial.up.sql).        *)
ASSUME StartsAssumption ==
  /\ Starts \subseteq [Paths -> Notes \cup {None}]
  /\ \A v \in Starts : \A p, q \in Paths :
       v[p] # None /\ v[q] # None /\ v[p].id = v[q].id => p = q

VARIABLES
  row,      \* the notes table: the note indexed at each path
  link,     \* the links table: pairs of ids
  job,      \* what each worker is indexing
  excused,  \* history variable: notes whose edges the code gave up, see below
  budget    \* what is left of the bounds

vars == <<row, link, job, excused, budget>>

-----------------------------------------------------------------------------
(* References and edges.                                                   *)

Indexed(rows) == {p \in Paths : rows[p] # None}

Matches(rows, r) ==
  {p \in Indexed(rows) : Base[p] = r.name /\ r.project \in {None, rows[p].project}}

(* ResolveBasenames: the first match in path order.                        *)
Resolved(rows, r) == rows[Min(Matches(rows, r))].id

(* linksFrom: dangling references and references to itself have no edge.   *)
Targets(rows, n) ==
  {Resolved(rows, r) : r \in {s \in n.refs : Matches(rows, s) # {}}} \ {n.id}

Edges(links, id) == {e[2] : e \in {f \in links : f[1] = id}}

(* SetLinks, and the last part of IndexNote.                               *)
Stored(links, id, dsts) == {e \in links : e[1] # id} \cup ({id} \X dsts)

IdsOf(rows) == {rows[p].id : p \in Indexed(rows)}

(* Mutant: a foreign key on the source of an edge only.                    *)
CascadedSource(links, rows) == {e \in links : e[1] \in IdsOf(rows)}

(* The foreign keys of links cascade: no edge outlives either of its ends. *)
Cascaded(links, rows) == {e \in links : e[1] \in IdsOf(rows) /\ e[2] \in IdsOf(rows)}

(* upsertNoteTx: another note at the path goes, the note leaves its old path. *)
Moved(rows, p, n) ==
  [q \in Paths |-> IF q = p \/ (rows[q] # None /\ rows[q].id = n.id) THEN None ELSE rows[q]]

Upserted(rows, p, n) == [Moved(rows, p, n) EXCEPT ![p] = n]

(* Mutant: an upsert that deletes whatever is at the path.                 *)
KeptByReplacing(rows, links, p, n) == Cascaded(links, Moved(rows, p, n))

(* The note's id survives an edit and a move, and with it every edge to it. *)
Kept(rows, links, p, n) == Cascaded(links, Upserted(rows, p, n))

(* AuditGraph: the notes whose edges are not those their content implies.  *)
Wrong(rows, links) ==
  {rows[p].id : p \in {q \in Indexed(rows) :
                         Edges(links, rows[q].id) # Targets(rows, rows[q])}}

(* ReferrersOf: the notes that mention a name in the plain form.           *)
Mentions(n, names) == \E r \in n.refs : r.plain /\ r.name \in names

-----------------------------------------------------------------------------
(* An indexer works through a batch: it indexes every file of it, computes *)
(* their edges again if there were several, has the notes repaired that    *)
(* mention a name of the batch, and removes what is gone.  A call, an      *)
(* event and a compile rewrite are batches of one.                         *)

PC == {"idle", "index", "commit", "relink", "set", "refer", "repair", "reset", "gone"}

JobState == [pc : PC, batch : [Paths -> Notes \cup {None}], todo : SUBSET Paths,
             done : SUBSET Paths, dsts : SUBSET Ids, refs : [Paths -> Notes \cup {None}],
             gone : SUBSET Paths]

Nothing == [p \in Paths |-> None]

Idle == [pc |-> "idle", batch |-> Nothing, todo |-> {}, done |-> {}, dsts |-> {},
         refs |-> Nothing, gone |-> {}]

Started(batch, gone) ==
  [Idle EXCEPT !.pc = IF Indexed(batch) = {} THEN "gone" ELSE "index",
               !.batch = batch, !.todo = Indexed(batch), !.gone = gone]

(* The path order drifts are indexed in, and referrers are read in.        *)
Head(w) == Min(job[w].todo)

Fault == /\ budget.faults > 0
         /\ budget' = [budget EXCEPT !.faults = @ - 1]

(* The vault an indexer read had every id once.                            *)
Vault(batch, gone) ==
  [p \in Paths |-> IF batch[p] # None THEN batch[p] ELSE IF p \in gone THEN None ELSE row[p]]

OneFileEach(files) ==
  \A p, q \in Indexed(files) : files[p].id = files[q].id => p = q

File(p, n) == [Nothing EXCEPT ![p] = n]

(* A path's lock is held from before the file is written until the call    *)
(* returns.                                                                *)
Locked(p) == \E w \in Calls \cup {Compile} : job[w].batch[p] # None

(* write_note and edit_note: the note at the path keeps its id.            *)
BeginCall(c) ==
  /\ job[c].pc = "idle"
  /\ budget.writes > 0
  /\ \E x \in Files :
       /\ ~Locked(x.path)
       /\ row[x.path] # None => row[x.path].id = x.note.id
       /\ OneFileEach(Vault(File(x.path, x.note), {}))
       /\ job' = [job EXCEPT ![c] = Started(File(x.path, x.note), {})]
  /\ budget' = [budget EXCEPT !.writes = @ - 1]
  /\ UNCHANGED <<row, link, excused>>

(* A compile run rewrites an indexed note in place or moves it.            *)
BeginCompile ==
  /\ job[Compile].pc = "idle"
  /\ budget.writes > 0
  /\ \E p \in Indexed(row), x \in Files :
       /\ row[p].id = x.note.id
       /\ ~Locked(p) /\ ~Locked(x.path)
       /\ x.path # p => row[x.path] = None
       /\ job' = [job EXCEPT ![Compile] = Started(File(x.path, x.note), {})]
  /\ budget' = [budget EXCEPT !.writes = @ - 1]
  /\ UNCHANGED <<row, link, excused>>

(* One event: a file as it was read, or a removal.  After a rename by hand *)
(* either half may be the first to be handled.                             *)
BeginEvent ==
  /\ job[Watch].pc = "idle"
  /\ budget.events > 0
  /\ \/ \E x \in Files, renamed \in SUBSET Indexed(row) :
          /\ row[x.path] # x.note
          /\ OneFileEach(Vault(File(x.path, x.note), renamed))
          /\ job' = [job EXCEPT ![Watch] = Started(File(x.path, x.note), {})]
     \/ \E p \in Indexed(row) : job' = [job EXCEPT ![Watch] = Started(Nothing, {p})]
  /\ budget' = [budget EXCEPT !.events = @ - 1]
  /\ UNCHANGED <<row, link, excused>>

(* A reconciliation: the files that drifted and the paths that are gone.   *)
BeginSweep ==
  /\ job[Watch].pc = "idle"
  /\ budget.events > 0
  /\ \E found \in SUBSET Files, gone \in SUBSET Indexed(row) :
       LET At(p)  == {x \in found : x.path = p}
           batch  == [p \in Paths |-> IF At(p) = {} THEN None ELSE (CHOOSE x \in At(p) : TRUE).note]
       IN /\ Cardinality(found) + Cardinality(gone) > 1
          /\ \A x, y \in found : x.path = y.path => x = y
          /\ \A x \in found : x.path \notin gone /\ row[x.path] # x.note
          /\ OneFileEach(Vault(batch, gone))
          /\ job' = [job EXCEPT ![Watch] = Started(batch, gone)]
  /\ budget' = [budget EXCEPT !.events = @ - 1]
  /\ UNCHANGED <<row, link, excused>>

-----------------------------------------------------------------------------
(* What the audit may find.  A repair is owed to the notes that mention a  *)
(* name which has just been indexed.  Nothing is owed, and edges may stay  *)
(* wrong, when they were stored from a reading that no longer held, when   *)
(* a name was taken away (a note removed, replaced or renamed; a compile   *)
(* rewrite, which repairs nothing), when a repair was given up, or when a  *)
(* note has taken over a path that the indexer passes over as its own.     *)

NewlyWrong(rows, links) == Wrong(rows, links) \ Wrong(row, link)

(* A note's own edges, just stored.                                        *)
Judged(e, id, rows, links) == IF id \in Wrong(rows, links) THEN e \cup {id} ELSE e \ {id}

NamedBy(rows, name) ==
  {rows[p].id : p \in {q \in Indexed(rows) : \E r \in rows[q].refs : r.name = name}}

Became(rows, links, e) == row' = rows /\ link' = links /\ excused' = e

-----------------------------------------------------------------------------
(* The steps of an indexer.                                                *)

Finished(j) == IF j.gone = {} THEN Idle ELSE [Idle EXCEPT !.pc = "gone", !.gone = j.gone]

(* Mutant: a batch whose edges are computed in the first pass only.        *)
AfterBatchUnlinked(w, j) ==
  IF j.todo # {} THEN [j EXCEPT !.pc = "index"]
  ELSE IF w = Compile \/ j.done = {} THEN Finished(j)
  ELSE [j EXCEPT !.pc = "refer"]

AfterBatch(w, j) ==
  IF j.todo # {} THEN [j EXCEPT !.pc = "index"]
  ELSE IF w = Compile \/ j.done = {} THEN Finished(j)
  ELSE [j EXCEPT !.pc = IF Cardinality(j.done) > 1 THEN "relink" ELSE "refer",
                 !.todo = IF Cardinality(j.done) > 1 THEN j.done ELSE {}]

AfterLink(j) == [j EXCEPT !.pc = IF j.todo = {} THEN "refer" ELSE "relink"]

AfterRepair(j) == IF Indexed(j.refs) = {} THEN Finished(j) ELSE [j EXCEPT !.pc = "repair"]

Becomes(w, j) == job' = [job EXCEPT ![w] = j]

(* resolveLinks reads the notes table before the note's own transaction.   *)
ResolveNote(w) ==
  /\ job[w].pc \in {"index", "relink"}
  /\ Becomes(w, [job[w] EXCEPT !.pc = IF @ = "index" THEN "commit" ELSE "set",
                               !.dsts = Targets(row, job[w].batch[Head(w)])])
  /\ UNCHANGED <<row, link, excused, budget>>

Skipped(w) == [job[w] EXCEPT !.todo = @ \ {Head(w)}, !.dsts = {}]

(* IndexNote, one transaction; a target that is gone by now refuses it.    *)
IndexNote(w) ==
  LET p     == Head(w)
      n     == job[w].batch[p]
      rows  == Upserted(row, p, n)
      links == Stored(Kept(row, link, p, n), n.id, job[w].dsts)
      owed  == IF w = Compile THEN {} ELSE NamedBy(rows, Base[p])
  IN
  /\ job[w].pc = "commit"
  /\ IF job[w].dsts \subseteq IdsOf(rows)
     THEN /\ Became(rows, links,
                    Judged(excused \cup (NewlyWrong(rows, links) \ owed), n.id, rows, links))
          /\ Becomes(w, AfterBatch(w, [Skipped(w) EXCEPT !.done = @ \cup {p}]))
     ELSE Becomes(w, AfterBatch(w, Skipped(w))) /\ UNCHANGED <<row, link, excused>>
  /\ UNCHANGED budget

(* The embedding call or the database fails: a call returns, a batch goes  *)
(* on to its next file.                                                    *)
FailIndex(w) ==
  /\ job[w].pc = "commit"
  /\ Fault
  /\ Becomes(w, AfterBatch(w, Skipped(w)))
  /\ UNCHANGED <<row, link, excused>>

(* Edges stored for a note that is gone, or to one, are refused.           *)
Accepted(id, dsts) == dsts = {} \/ {id} \cup dsts \subseteq IdsOf(row)

(* Relink's SetLinks: a refusal is logged.                                 *)
Relink(w) ==
  LET id    == job[w].batch[Head(w)].id
      links == IF Accepted(id, job[w].dsts) THEN Stored(link, id, job[w].dsts) ELSE link
  IN
  /\ job[w].pc = "set"
  /\ Became(row, links, Judged(excused, id, row, links))
  /\ Becomes(w, AfterLink(Skipped(w)))
  /\ UNCHANGED budget

(* What is at a path of the batch by now, and is not what the batch put    *)
(* there.                                                                  *)
TakenOver(w) ==
  {row[p].id : p \in {q \in Indexed(row) \cap job[w].done : row[q].id # job[w].batch[q].id}}

ReadReferrers(w) ==
  LET names == {Base[p] : p \in job[w].done}
      found == [p \in Paths |->
                  IF p \in Indexed(row) \ job[w].done /\ Mentions(row[p], names) THEN row[p] ELSE None]
  IN
  /\ job[w].pc = "refer"
  /\ Becomes(w, AfterRepair([job[w] EXCEPT !.refs = found]))
  /\ Became(row, link, excused \cup (Wrong(row, link) \cap TakenOver(w)))
  /\ UNCHANGED budget

Referrer(w) == job[w].refs[Min(Indexed(job[w].refs))]

ResolveReferrer(w) ==
  /\ job[w].pc = "repair"
  /\ Becomes(w, [job[w] EXCEPT !.pc = "reset",
                               !.dsts = Targets(row, Referrer(w))])
  /\ UNCHANGED <<row, link, excused, budget>>

RestOf(refs) == [refs EXCEPT ![Min(Indexed(refs))] = None]

GaveUp(w) == Wrong(row, link) \cap {job[w].refs[p].id : p \in Indexed(job[w].refs)}

(* RepairReferrers' SetLinks: a refusal ends the repair.                   *)
RepairReferrer(w) ==
  LET id    == Referrer(w).id
      links == Stored(link, id, job[w].dsts)
  IN
  /\ job[w].pc = "reset"
  /\ IF Accepted(id, job[w].dsts)
     THEN /\ Became(row, links, Judged(excused, id, row, links))
          /\ Becomes(w, AfterRepair([job[w] EXCEPT !.refs = RestOf(@), !.dsts = {}]))
     ELSE /\ Became(row, link, excused \cup GaveUp(w))
          /\ Becomes(w, Finished(job[w]))
  /\ UNCHANGED budget

(* Repair is best effort.                                                  *)
FailRepair(w) ==
  /\ job[w].pc = "repair"
  /\ Fault
  /\ Became(row, link, excused \cup GaveUp(w))
  /\ Becomes(w, Finished(job[w]))

(* DeleteNote: nothing is repaired.                                        *)
Remove(w) ==
  LET p     == Min(job[w].gone)
      rows  == [row EXCEPT ![p] = None]
      links == Cascaded(link, rows)
  IN
  /\ job[w].pc = "gone"
  /\ Became(rows, links, excused \cup NewlyWrong(rows, links))
  /\ Becomes(w, Finished([job[w] EXCEPT !.gone = @ \ {p}]))
  /\ UNCHANGED budget

(* The daemon dies: files that were not indexed are found again, repairs   *)
(* that were not made are not.                                             *)
Crash ==
  /\ Fault
  /\ job' = [w \in Workers |-> Idle]
  /\ Became(row, link, excused \cup Wrong(row, link))

Step(w) == \/ ResolveNote(w) \/ IndexNote(w) \/ FailIndex(w) \/ Relink(w) \/ ReadReferrers(w)
           \/ ResolveReferrer(w) \/ RepairReferrer(w) \/ FailRepair(w) \/ Remove(w)

-----------------------------------------------------------------------------
Init ==
  /\ row \in Starts
  /\ link = {e \in Ids \X Ids : \E p \in Indexed(row) :
                                  e[1] = row[p].id /\ e[2] \in Targets(row, row[p])}
  /\ job = [w \in Workers |-> Idle]
  /\ excused = {}
  /\ budget \in Scenarios

Next ==
  \/ \E c \in Calls : BeginCall(c)
  \/ BeginCompile \/ BeginEvent \/ BeginSweep
  \/ \E w \in Workers : Step(w)
  \/ Crash

Spec == Init /\ [][Next]_vars

-----------------------------------------------------------------------------
TypeOK ==
  /\ row \in [Paths -> Notes \cup {None}]
  /\ link \subseteq IdsOf(row) \X IdsOf(row)
  /\ job \in [Workers -> JobState]
  /\ excused \subseteq Ids
  /\ budget \in Bounds

Quiet == \A w \in Workers : job[w].pc = "idle"

(* When nothing is being indexed, the edges of a note that refers to       *)
(* others in the plain form are those the audit derives from its content,  *)
(* whatever order notes and their targets were indexed in, in one batch,   *)
(* in several, or after a rebuild (indexer.go, Relink and RepairReferrers; *)
(* reconcile.go's three passes), except where the code owes no repair.     *)
Plain(n) == \A r \in n.refs : r.plain

GraphAsImplied ==
  Quiet => \A p \in Indexed(row) :
             Plain(row[p]) /\ row[p].id \notin excused => row[p].id \notin Wrong(row, link)

(* A note that is edited, saved by an editor that replaces the file, or    *)
(* moved keeps the edges that lead to it, unless what they come from no    *)
(* longer refers to it (0001_initial.up.sql: "a move never orphans the     *)
(* graph"; watch.go: an atomic save must not cost the inbound graph).      *)
InboundSurvives ==
  [][\A e \in link \ link' :
       {e[1], e[2]} \subseteq IdsOf(row') =>
         \/ e[1] \in excused'
         \/ \E p \in Indexed(row') : row'[p].id = e[1] /\ e[2] \notin Targets(row', row'[p])]_vars

=============================================================================
