---------------------------- MODULE VaultWriters ----------------------------
(***************************************************************************)
(* The writers of one vault and the index derived from it.                 *)
(*                                                                         *)
(*   - MCP handlers: write_note and edit_note (write.Pipeline) and         *)
(*     restore_note (vault.History.Restore), each a goroutine of its own;  *)
(*   - the compile run (lifecycle.Engine), which reads the whole vault     *)
(*     once and rewrites or archives notes much later;                     *)
(*   - the watcher (watch.Watcher): one loop that handles file events and  *)
(*     runs the periodic sweep, and reconciles at boot;                    *)
(*   - a human, who edits files with any tool and takes no lock.           *)
(*                                                                         *)
(* A note's content is abstracted to the set of changes it carries: every  *)
(* writer has a token, a whole-file write leaves just its own token, a     *)
(* read-modify-write adds its token to what it read.  So an update that    *)
(* was lost is a token that is missing.                                    *)
(***************************************************************************)
EXTENDS Integers, Sequences, FiniteSets

CONSTANTS
  Paths,       \* vault-relative paths, as numbers in their string order
  Active,      \* the paths in notes/, the stage a compile run works on
  Archive,     \* where a compile run moves each of them
  Notes,       \* ids of the notes the vault starts with
  Origin,      \* the note each path starts with, None for a free path
  Calls,       \* MCP tool calls; a call's name is also its token and the
               \* id it mints for a note it creates
  Supplied,    \* ids that callers of write_note put in the frontmatter
  Human,       \* token of hand edits
  Compile,     \* token of the compile run
  None,        \* no file, no row, no lock holder
  Scenarios,   \* bounds: how many hand edits, how many faults (crashes,
               \* failed writes, failed embedding calls), how many compile
               \* runs, and which calls to which tools may happen together
  MaxQueue     \* bound: pending file events; more are lost (queue overflow)

Ids    == Notes \cup Calls \cup {Human}
Tokens == Ids \cup {Compile}
Ops    == {"write", "edit", "restore"}
Bounds == [edits : Nat, faults : Nat, runs : Nat, calls : SUBSET (Calls \X Ops)]

(* stamp stands for mtime and size: the last write that moved them.  ok is *)
(* FALSE for a file the contract rejects.                                  *)
File == [id : Ids, body : SUBSET Tokens, ok : BOOLEAN, stamp : Tokens]

Contents == [id : Ids, body : SUBSET Tokens, ok : BOOLEAN]

ASSUME PathsAssumption ==
  /\ Paths \subseteq Nat
  /\ Active \subseteq Paths
  /\ Archive \in [Active -> Paths \ Active]
  /\ Origin \in [Paths -> Notes \cup {None}]
  /\ \A p, q \in Paths : Origin[p] = Origin[q] => p = q \/ Origin[p] = None

ASSUME TokensAssumption ==
  /\ Notes \cap Calls = {}
  /\ Human \notin Notes \cup Calls
  /\ Compile \notin Ids
  /\ None \notin Tokens \cup File \cup Contents
  /\ Supplied \subseteq Ids

ASSUME BoundsAssumption ==
  /\ Scenarios \subseteq Bounds
  /\ MaxQueue \in Nat

VARIABLES
  disk,        \* the file at each path
  byHand,      \* history variable: a hand, not a writer, changed the path last
  row,         \* the notes table, keyed by path
  lock,        \* write.PathLocks: the holder of each path's mutex
  suppressed,  \* watch.Watcher.suppressed
  queue,       \* file events delivered to the watcher and not yet handled
  call,        \* the MCP handlers
  eng,         \* the compile run
  wat,         \* the watcher's loop
  up,          \* the daemon serves: boot reconciliation is done
  budget       \* what is left of the bounds

vars == <<disk, byHand, row, lock, suppressed, queue, call, eng, wat, up, budget>>

-----------------------------------------------------------------------------
(* Content.                                                                *)

(* What the BLAKE3 digest covers: everything but mtime and size.           *)
Content(f) == IF f = None THEN None ELSE [id |-> f.id, body |-> f.body, ok |-> f.ok]
Same(f, g) == Content(f) = Content(g)

Fresh(p) == IF Origin[p] = None THEN None
            ELSE [id |-> Origin[p], body |-> {}, ok |-> TRUE, stamp |-> Origin[p]]

(* The frontmatter of the file at p, as far as it parses.                  *)
Readable(p) == disk[p] # None /\ disk[p].ok

(* vault.Walk's vault-wide rule.                                           *)
DistinctIds(files) ==
  \A p, q \in {r \in Paths : files[r] # None} : files[p].id = files[q].id => p = q

-----------------------------------------------------------------------------
(* The index: upsertNoteTx's three statements, then the note's own row.    *)

EvictOther(rows, p, f) ==
  [rows EXCEPT ![p] = IF @ # None /\ @.id # f.id THEN None ELSE @]

(* Mutant: upsertNoteTx without the statement that moves the note's row.   *)
MovePathSkipped(rows, p, f) == rows

MovePath(rows, p, f) ==
  [q \in Paths |-> IF rows[q] # None /\ rows[q].id = f.id THEN None ELSE rows[q]]

Upsert(rows, p, f) == [MovePath(EvictOther(rows, p, f), p, f) EXCEPT ![p] = f]

DropRow(rows, p) == [rows EXCEPT ![p] = None]

-----------------------------------------------------------------------------
(* File events.  Nothing watches the vault until boot reconciliation is    *)
(* done; a full queue loses events; a repeated event is coalesced.         *)

Changed(p) == [path |-> p, gone |-> FALSE]
Gone(p)    == [path |-> p, gone |-> TRUE]
Event      == [path : Paths, gone : BOOLEAN]

Enqueue(q, e) ==
  IF ~up \/ Len(q) >= MaxQueue \/ (q # <<>> /\ q[Len(q)] = e) THEN q ELSE Append(q, e)

(* A writer leaves f at p.                                                 *)
WriteFile(p, f) ==
  /\ disk' = [disk EXCEPT ![p] = f]
  /\ byHand' = [byHand EXCEPT ![p] = FALSE]
  /\ queue' = Enqueue(queue, Changed(p))

Fault == /\ budget.faults > 0
         /\ budget' = [budget EXCEPT !.faults = @ - 1]

-----------------------------------------------------------------------------
(* MCP handlers.  A call waits for its path's lock, computes the content,  *)
(* writes the file, stats it, indexes it and lets go.                      *)

CallPC == {"idle", "waiting", "locked", "ready", "written", "stated", "release", "done"}

CallState == [pc : CallPC, op : {"write", "edit", "restore", "none"},
              path : Paths \cup {None}, seen : File \cup {None}, new : File \cup {None}]

FreshCall == [pc |-> "idle", op |-> "none", path |-> None, seen |-> None, new |-> None]

Leaving(s) == [s EXCEPT !.pc = "release", !.seen = None, !.new = None]

Begin(c, p, op) ==
  /\ up
  /\ <<c, op>> \in budget.calls
  /\ call[c].pc = "idle"
  /\ call' = [call EXCEPT ![c] = [@ EXCEPT !.pc = "waiting", !.op = op, !.path = p]]
  /\ UNCHANGED <<disk, byHand, row, lock, suppressed, queue, eng, wat, up, budget>>

(* Mutant: a handler that takes no path lock.                               *)
AcquireUnlocked(c) ==
  /\ call[c].pc = "waiting"
  /\ call' = [call EXCEPT ![c] = [@ EXCEPT !.pc = "locked"]]
  /\ UNCHANGED <<disk, byHand, row, lock, suppressed, queue, eng, wat, up, budget>>

Acquire(c) ==
  /\ call[c].pc = "waiting"
  /\ lock[call[c].path] = None
  /\ lock' = [lock EXCEPT ![call[c].path] = c]
  /\ call' = [call EXCEPT ![c] = [@ EXCEPT !.pc = "locked"]]
  /\ UNCHANGED <<disk, byHand, row, suppressed, queue, eng, wat, up, budget>>

(* Content the contract rejects, an old_string that does not occur exactly *)
(* once, an unknown ref, a changed id: refused before anything is written. *)
Reject(c) ==
  /\ call[c].pc = "locked"
  /\ call' = [call EXCEPT ![c] = Leaving(@)]
  /\ UNCHANGED <<disk, byHand, row, lock, suppressed, queue, eng, wat, up, budget>>

(* Mutant: ensureNoteID that mints nothing.                                 *)
NoteIDUnminted(c, p) ==
  IF Readable(p) THEN disk[p].id ELSE IF row[p] # None THEN row[p].id ELSE None

(* ensureNoteID: the file's id first, the index's second, a minted one last. *)
NoteID(c, p) ==
  IF Readable(p) THEN disk[p].id ELSE IF row[p] # None THEN row[p].id ELSE c

(* rejectIDChange: a file that parses keeps its id.                        *)
KeepsID(p, i) == Readable(p) => disk[p].id = i

Composed(c, new, mute) ==
  /\ call' = [call EXCEPT ![c] = [@ EXCEPT !.pc = "ready", !.seen = disk[call[c].path], !.new = new]]
  /\ suppressed' = suppressed \cup mute
  /\ UNCHANGED <<disk, byHand, row, lock, queue, eng, wat, up, budget>>

ComposeWrite(c) ==
  LET p == call[c].path IN
  /\ call[c].pc = "locked" /\ call[c].op = "write"
  /\ \E i \in Supplied \cup {NoteID(c, p)} :
       /\ KeepsID(p, i)
       /\ Composed(c, [id |-> i, body |-> {c}, ok |-> TRUE, stamp |-> c], {p})

ComposeEdit(c) ==
  LET p == call[c].path IN
  /\ call[c].pc = "locked" /\ call[c].op = "edit"
  /\ disk[p] # None
  /\ Composed(c, [id |-> disk[p].id, body |-> disk[p].body \cup {c},
                  ok |-> TRUE, stamp |-> c], {p})

(* restore_note brings back the version the vault started with; it does    *)
(* not suppress the watcher, whose event is what reindexes the file.       *)
ComposeRestore(c) ==
  LET p == call[c].path IN
  /\ call[c].pc = "locked" /\ call[c].op = "restore"
  /\ Fresh(p) # None
  /\ Composed(c, [Fresh(p) EXCEPT !.stamp = c], {})

Put(c) ==
  /\ call[c].pc = "ready"
  /\ WriteFile(call[c].path, call[c].new)
  /\ call' = [call EXCEPT ![c] = IF @.op = "restore" THEN Leaving(@)
                                 ELSE [@ EXCEPT !.pc = "written", !.seen = None]]
  /\ UNCHANGED <<row, lock, suppressed, eng, wat, up, budget>>

(* os.Stat after the write: the index records f with the stamp found at p. *)
Stamped(f, p) == [f EXCEPT !.stamp = disk[p].stamp]

(* The file's mtime and size as they are after the history commit, which   *)
(* may be those of a hand edit that landed in between.                     *)
Stat(c) ==
  LET p == call[c].path IN
  /\ call[c].pc = "written"
  /\ call' = [call EXCEPT ![c] =
                IF disk[p] = None THEN Leaving(@)
                ELSE [@ EXCEPT !.pc = "stated", !.new = Stamped(call[c].new, p)]]
  /\ UNCHANGED <<disk, byHand, row, lock, suppressed, queue, eng, wat, up, budget>>

IndexCall(c) ==
  /\ call[c].pc = "stated"
  /\ row' = Upsert(row, call[c].path, call[c].new)
  /\ call' = [call EXCEPT ![c] = Leaving(@)]
  /\ UNCHANGED <<disk, byHand, lock, suppressed, queue, eng, wat, up, budget>>

(* The file write, the history commit or the embedding call fails.         *)
FailCall(c) ==
  /\ call[c].pc \in {"ready", "written", "stated"}
  /\ Fault
  /\ call' = [call EXCEPT ![c] = Leaving(@)]
  /\ UNCHANGED <<disk, byHand, row, lock, suppressed, queue, eng, wat, up>>

(* Mutant: an early return that skips the deferred Unsuppress.              *)
ReleaseMuted(c) ==
  /\ call[c].pc = "release"
  /\ lock' = [lock EXCEPT ![call[c].path] = None]
  /\ call' = [call EXCEPT ![c] = [FreshCall EXCEPT !.pc = "done"]]
  /\ UNCHANGED <<disk, byHand, row, suppressed, queue, eng, wat, up, budget>>

(* Mutant: a panic in the handler that skips an inline unlock.              *)
ReleaseStillLocked(c) ==
  /\ call[c].pc = "release"
  /\ suppressed' = suppressed \ {call[c].path}
  /\ call' = [call EXCEPT ![c] = [FreshCall EXCEPT !.pc = "done"]]
  /\ UNCHANGED <<disk, byHand, row, lock, queue, eng, wat, up, budget>>

Release(c) ==
  LET p == call[c].path IN
  /\ call[c].pc = "release"
  /\ lock' = [lock EXCEPT ![p] = None]
  /\ suppressed' = IF call[c].op = "restore" THEN suppressed ELSE suppressed \ {p}
  /\ call' = [call EXCEPT ![c] = [FreshCall EXCEPT !.pc = "done"]]
  /\ UNCHANGED <<disk, byHand, row, queue, eng, wat, up, budget>>

CallStep(c) ==
  \/ ComposeWrite(c) \/ ComposeEdit(c) \/ ComposeRestore(c) \/ Reject(c)
  \/ Put(c) \/ Stat(c) \/ IndexCall(c) \/ FailCall(c) \/ Release(c)

-----------------------------------------------------------------------------
(* The compile run.  It walks the vault, keeps what it parsed (walk, the   *)
(* source digests), and then rewrites or archives one note after another.  *)

EngPC == {"idle", "next", "lock", "lock2", "check", "write", "written", "stated", "remove",
          "release", "abort"}

EngState == [pc : EngPC, walk : [Paths -> File \cup {None}], todo : SUBSET Paths,
             src : Paths \cup {None}, dst : Paths \cup {None}, new : File \cup {None}]

Nothing == [p \in Paths |-> None]

IdleEng == [pc |-> "idle", walk |-> Nothing, todo |-> {}, src |-> None, dst |-> None,
            new |-> None]

BetweenNotes(e) == [e EXCEPT !.pc = "next", !.src = None, !.dst = None, !.new = None]

(* One run at a time (LockCompile); a vault with an invalid note or an id  *)
(* used twice is refused.                                                  *)
StartRun ==
  /\ up
  /\ eng.pc = "idle"
  /\ budget.runs > 0
  /\ \A p \in Paths : disk[p] # None => disk[p].ok
  /\ DistinctIds(disk)
  /\ eng' = [IdleEng EXCEPT !.pc = "next", !.walk = disk,
                            !.todo = {p \in Active : disk[p] # None}]
  /\ budget' = [budget EXCEPT !.runs = @ - 1]
  /\ UNCHANGED <<disk, byHand, row, lock, suppressed, queue, call, wat, up>>

(* Nothing is due for the note.  A refusal in mid-run (to graduate, say)   *)
(* writes nothing more, as if the run passed over all that was left.       *)
PassOver(p) ==
  /\ eng.pc = "next"
  /\ p \in eng.todo
  /\ eng' = [eng EXCEPT !.todo = @ \ {p}]
  /\ UNCHANGED <<disk, byHand, row, lock, suppressed, queue, call, wat, up, budget>>

(* Reinforce, decay, falsify, dispute or graduate: a rewrite in place.  A  *)
(* note can be written twice in one run (reinforce, then graduate).        *)
DueRewrite(p) ==
  /\ eng.pc = "next"
  /\ p \in eng.todo
  /\ \E rest \in {eng.todo, eng.todo \ {p}} :
       /\ p \in rest => Compile \notin eng.walk[p].body
       /\ eng' = [eng EXCEPT !.pc = "lock", !.src = p, !.dst = p, !.todo = rest]
  /\ UNCHANGED <<disk, byHand, row, lock, suppressed, queue, call, wat, up, budget>>

DueMove(p) ==
  /\ eng.pc = "next"
  /\ p \in eng.todo
  /\ eng' = [eng EXCEPT !.pc = "lock", !.src = p, !.dst = Archive[p], !.todo = @ \ {p}]
  /\ UNCHANGED <<disk, byHand, row, lock, suppressed, queue, call, wat, up, budget>>

(* One lock for a rewrite; for a move both, the smaller path first         *)
(* (PathLocks.LockTwo).                                                    *)
Smaller(p, q) == IF q < p THEN q ELSE p
Larger(p, q)  == IF q < p THEN p ELSE q

LockFirst ==
  LET p == Smaller(eng.src, eng.dst) IN
  /\ eng.pc = "lock"
  /\ lock[p] = None
  /\ lock' = [lock EXCEPT ![p] = Compile]
  /\ eng' = [eng EXCEPT !.pc = IF eng.src = eng.dst THEN "check" ELSE "lock2"]
  /\ UNCHANGED <<disk, byHand, row, suppressed, queue, call, wat, up, budget>>

LockSecond ==
  LET p == Larger(eng.src, eng.dst) IN
  /\ eng.pc = "lock2"
  /\ lock[p] = None
  /\ lock' = [lock EXCEPT ![p] = Compile]
  /\ eng' = [eng EXCEPT !.pc = "check"]
  /\ UNCHANGED <<disk, byHand, row, suppressed, queue, call, wat, up, budget>>

(* Mutant: no stale check, as move once was.                                *)
UnchangedUnchecked(p) == TRUE

(* assertUnchanged: the file is the one the walk parsed, or is gone.       *)
Unchanged(p) == disk[p] = None \/ Same(disk[p], eng.walk[p])

Rewritten(f) == [f EXCEPT !.body = @ \cup {Compile}, !.stamp = Compile]

(* A changed note is skipped (a rewrite in place mutes its path before it  *)
(* checks); an archive path that is taken ends the run.                    *)
Check ==
  /\ eng.pc = "check"
  /\ IF eng.dst # eng.src /\ disk[eng.dst] # None
     THEN /\ eng' = [eng EXCEPT !.pc = "abort"]
          /\ UNCHANGED suppressed
     ELSE IF Unchanged(eng.src)
     THEN /\ eng' = [eng EXCEPT !.pc = "write", !.new = Rewritten(eng.walk[eng.src])]
          /\ suppressed' = suppressed \cup {eng.dst}
     ELSE /\ eng' = [eng EXCEPT !.pc = "release", !.todo = @ \ {eng.src}]
          /\ suppressed' = suppressed \cup ({eng.src} \cap {eng.dst})
  /\ UNCHANGED <<disk, byHand, row, lock, queue, call, wat, up, budget>>

(* The engine adopts the bytes it wrote as the note's digest.              *)
Rewrite ==
  /\ eng.pc = "write"
  /\ WriteFile(eng.dst, eng.new)
  /\ eng' = [eng EXCEPT !.pc = "written",
                        !.walk[eng.src] = IF eng.src = eng.dst THEN eng.new ELSE @]
  /\ UNCHANGED <<row, lock, suppressed, call, wat, up, budget>>

StatRewritten ==
  /\ eng.pc = "written"
  /\ eng' = IF disk[eng.dst] = None
            THEN [eng EXCEPT !.pc = "abort"]
            ELSE [eng EXCEPT !.pc = "stated", !.new = Stamped(eng.new, eng.dst)]
  /\ UNCHANGED <<disk, byHand, row, lock, suppressed, queue, call, wat, up, budget>>

IndexRewritten ==
  /\ eng.pc = "stated"
  /\ row' = Upsert(row, eng.dst, eng.new)
  /\ suppressed' = suppressed \ {eng.dst}
  /\ eng' = [eng EXCEPT !.pc = IF eng.src = eng.dst THEN "release" ELSE "remove"]
  /\ UNCHANGED <<disk, byHand, lock, queue, call, wat, up, budget>>

RemoveSource ==
  /\ eng.pc = "remove"
  /\ disk' = [disk EXCEPT ![eng.src] = None]
  /\ byHand' = [byHand EXCEPT ![eng.src] = @ /\ disk[eng.src] = None]
  /\ queue' = IF disk[eng.src] = None THEN queue ELSE Enqueue(queue, Gone(eng.src))
  /\ suppressed' = suppressed \cup {eng.src}
  /\ eng' = [eng EXCEPT !.pc = "release"]
  /\ UNCHANGED <<row, lock, call, wat, up, budget>>

(* Any error but a changed note ends the run where it is.                  *)
FailRun ==
  /\ eng.pc \in {"write", "written", "stated", "remove"}
  /\ Fault
  /\ eng' = [eng EXCEPT !.pc = "abort"]
  /\ UNCHANGED <<disk, byHand, row, lock, suppressed, queue, call, wat, up>>

(* Mutant: a move that lets go of its source only.                          *)
ReleaseNoteSource ==
  /\ eng.pc \in {"release", "abort"}
  /\ lock' = [lock EXCEPT ![eng.src] = None]
  /\ suppressed' = suppressed \ {eng.src, eng.dst}
  /\ eng' = IF eng.pc = "release" THEN BetweenNotes(eng) ELSE IdleEng
  /\ UNCHANGED <<disk, byHand, row, queue, call, wat, up, budget>>

ReleaseNote ==
  /\ eng.pc \in {"release", "abort"}
  /\ lock' = [lock EXCEPT ![eng.src] = None, ![eng.dst] = None]
  /\ suppressed' = suppressed \ {eng.src, eng.dst}
  /\ eng' = IF eng.pc = "release" THEN BetweenNotes(eng) ELSE IdleEng
  /\ UNCHANGED <<disk, byHand, row, queue, call, wat, up, budget>>

FinishRun ==
  /\ eng.pc = "next"
  /\ eng.todo = {}
  /\ eng' = IdleEng
  /\ UNCHANGED <<disk, byHand, row, lock, suppressed, queue, call, wat, up, budget>>

EngLock == LockFirst \/ LockSecond

EngStep ==
  \/ \E p \in Active : PassOver(p) \/ DueRewrite(p) \/ DueMove(p)
  \/ Check \/ Rewrite \/ StatRewritten \/ IndexRewritten \/ RemoveSource \/ FailRun
  \/ ReleaseNote \/ FinishRun

-----------------------------------------------------------------------------
(* The watcher: one loop, no path locks.                                   *)

WatPC == {"boot", "loop", "settle", "delete", "read", "index", "walk", "drift"}

WatState == [pc : WatPC, force : BOOLEAN, path : Paths \cup {None}, file : File \cup {None},
             states : [Paths -> File \cup {None}], drift : [Paths -> File \cup {None}],
             gone : SUBSET Paths]

WatAt(pc, force) ==
  [pc |-> pc, force |-> force, path |-> None, file |-> None,
   states |-> Nothing, drift |-> Nothing, gone |-> {}]

(* handleEvent: the suppression check first, the file after it.  A removal *)
(* is believed only if the path does not come back (pathSettles).          *)
TakeEvent ==
  LET e == Head(queue) IN
  /\ wat.pc = "loop"
  /\ queue # <<>>
  /\ queue' = Tail(queue)
  /\ wat' = IF e.path \in suppressed THEN wat
            ELSE [wat EXCEPT !.pc = IF e.gone THEN "settle" ELSE "read", !.path = e.path]
  /\ UNCHANGED <<disk, byHand, row, lock, suppressed, call, eng, up, budget>>

Settle ==
  /\ wat.pc = "settle"
  /\ wat' = IF disk[wat.path] = None THEN [wat EXCEPT !.pc = "delete"] ELSE WatAt("loop", TRUE)
  /\ UNCHANGED <<disk, byHand, row, lock, suppressed, queue, call, eng, up, budget>>

ReadFile ==
  /\ wat.pc = "read"
  /\ wat' = IF Readable(wat.path) THEN [wat EXCEPT !.pc = "index", !.file = disk[wat.path]]
            ELSE WatAt("loop", TRUE)
  /\ UNCHANGED <<disk, byHand, row, lock, suppressed, queue, call, eng, up, budget>>

(* The file as it was read, which may no longer be the file on disk.       *)
IndexEvent ==
  /\ wat.pc = "index"
  /\ row' = Upsert(row, wat.path, wat.file)
  /\ wat' = WatAt("loop", TRUE)
  /\ UNCHANGED <<disk, byHand, lock, suppressed, queue, call, eng, up, budget>>

DeleteEvent ==
  /\ wat.pc = "delete"
  /\ row' = DropRow(row, wat.path)
  /\ wat' = WatAt("loop", TRUE)
  /\ UNCHANGED <<disk, byHand, lock, suppressed, queue, call, eng, up, budget>>

FailEvent ==
  /\ wat.pc \in {"index", "delete"}
  /\ Fault
  /\ wat' = WatAt("loop", TRUE)
  /\ UNCHANGED <<disk, byHand, row, lock, suppressed, queue, call, eng, up>>

(* reconcile: the index's file states first, the vault walk second.  The   *)
(* boot pass skips files whose mtime and size are the recorded ones; the   *)
(* sweep hashes every file.                                                *)
ReadStates ==
  /\ wat.pc \in {"boot", "loop"}
  /\ wat' = [WatAt("walk", wat.pc = "loop") EXCEPT !.states = row]
  /\ UNCHANGED <<disk, byHand, row, lock, suppressed, queue, call, eng, up, budget>>

(* Mutant: a sweep that trusts mtime and size as the boot pass does.        *)
DriftedByStamp(p) ==
  /\ disk[p] # None
  /\ ~Same(disk[p], wat.states[p])
  /\ wat.states[p] # None => wat.states[p].stamp # disk[p].stamp

Drifted(p) ==
  /\ disk[p] # None
  /\ ~Same(disk[p], wat.states[p])
  /\ wat.states[p] # None /\ ~wat.force => wat.states[p].stamp # disk[p].stamp

WalkVault ==
  /\ wat.pc = "walk"
  /\ wat' = [WatAt("drift", wat.force) EXCEPT
               !.drift = [p \in Paths |-> IF Drifted(p) THEN disk[p] ELSE None],
               !.gone = {p \in Paths : wat.states[p] # None /\ disk[p] = None}]
  /\ UNCHANGED <<disk, byHand, row, lock, suppressed, queue, call, eng, up, budget>>

(* The walk fails, as when a file vanishes under it: nothing is reconciled *)
(* until the next sweep.  (At boot the daemon gives up: Crash.)            *)
FailWalk ==
  /\ wat.pc = "walk"
  /\ wat.force
  /\ Fault
  /\ wat' = WatAt("loop", TRUE)
  /\ UNCHANGED <<disk, byHand, row, lock, suppressed, queue, call, eng, up>>

Drifts == {p \in Paths : wat.drift[p] # None}

(* Drift is indexed in path order; an invalid file is passed over and its  *)
(* old row survives.                                                       *)
IndexDrift(p) ==
  /\ wat.pc = "drift"
  /\ p \in Drifts
  /\ \A q \in Drifts : p <= q
  /\ row' = IF wat.drift[p].ok THEN Upsert(row, p, wat.drift[p]) ELSE row
  /\ wat' = [wat EXCEPT !.drift[p] = None]
  /\ UNCHANGED <<disk, byHand, lock, suppressed, queue, call, eng, up, budget>>

FailDrift(p) ==
  /\ wat.pc = "drift"
  /\ p \in Drifts
  /\ \A q \in Drifts : p <= q
  /\ Fault
  /\ wat' = [wat EXCEPT !.drift[p] = None]
  /\ UNCHANGED <<disk, byHand, row, lock, suppressed, queue, call, eng, up>>

DeleteGone(p) ==
  /\ wat.pc = "drift"
  /\ Drifts = {}
  /\ p \in wat.gone
  /\ row' = DropRow(row, p)
  /\ wat' = [wat EXCEPT !.gone = @ \ {p}]
  /\ UNCHANGED <<disk, byHand, lock, suppressed, queue, call, eng, up, budget>>

FailGone(p) ==
  /\ wat.pc = "drift"
  /\ Drifts = {}
  /\ p \in wat.gone
  /\ Fault
  /\ wat' = [wat EXCEPT !.gone = @ \ {p}]
  /\ UNCHANGED <<disk, byHand, row, lock, suppressed, queue, call, eng, up>>

(* The daemon serves once the boot pass is over.                           *)
EndReconcile ==
  /\ wat.pc = "drift"
  /\ Drifts = {}
  /\ wat.gone = {}
  /\ wat' = WatAt("loop", TRUE)
  /\ up' = TRUE
  /\ UNCHANGED <<disk, byHand, row, lock, suppressed, queue, call, eng, budget>>

WatStep ==
  \/ TakeEvent \/ Settle \/ ReadFile \/ IndexEvent \/ DeleteEvent \/ FailEvent
  \/ ReadStates \/ WalkVault \/ FailWalk \/ EndReconcile
  \/ \E p \in Paths : IndexDrift(p) \/ FailDrift(p) \/ DeleteGone(p) \/ FailGone(p)

-----------------------------------------------------------------------------
(* The world around the daemon.                                            *)

Edit == /\ budget.edits > 0
        /\ budget' = [budget EXCEPT !.edits = @ - 1]
        /\ UNCHANGED <<row, lock, suppressed, call, eng, wat, up>>

(* A save by hand, good or bad, of a note or of a new file; some tools     *)
(* keep mtime and size.  An editor that renames over the target reports a  *)
(* removal first.                                                          *)
HumanSave(p) ==
  /\ Edit
  /\ disk[p] = None => \A q \in Paths : disk[q] # None => disk[q].id # Human
  /\ \E good, rename \in BOOLEAN :
     \E stamp \in {Human} \cup (IF disk[p] = None THEN {} ELSE {disk[p].stamp}) :
       /\ disk' = [disk EXCEPT ![p] = [id |-> IF @ = None THEN Human ELSE @.id,
                                       body |-> {Human}, ok |-> good, stamp |-> stamp]]
       /\ queue' = IF rename /\ disk[p] # None
                   THEN Enqueue(Enqueue(queue, Gone(p)), Changed(p))
                   ELSE Enqueue(queue, Changed(p))
  /\ byHand' = [byHand EXCEPT ![p] = TRUE]

HumanDelete(p) ==
  /\ Edit
  /\ disk[p] # None
  /\ disk' = [disk EXCEPT ![p] = None]
  /\ queue' = Enqueue(queue, Gone(p))
  /\ byHand' = [byHand EXCEPT ![p] = TRUE]

HumanRename(p, q) ==
  /\ Edit
  /\ disk[p] # None
  /\ disk[q] = None
  /\ disk' = [disk EXCEPT ![p] = None, ![q] = disk[p]]
  /\ queue' = Enqueue(Enqueue(queue, Gone(p)), Changed(q))
  /\ byHand' = [byHand EXCEPT ![p] = TRUE, ![q] = TRUE]

(* The process dies; files and rows stay, the rest was in its memory.  The *)
(* next daemon reconciles before it serves.                                *)
Crash ==
  /\ Fault
  /\ lock' = [p \in Paths |-> None]
  /\ suppressed' = {}
  /\ queue' = <<>>
  /\ call' = [c \in Calls |-> IF call[c].pc = "idle" THEN call[c]
                              ELSE [FreshCall EXCEPT !.pc = "done"]]
  /\ eng' = IdleEng
  /\ wat' = WatAt("boot", FALSE)
  /\ up' = FALSE
  /\ UNCHANGED <<disk, byHand, row>>

Hand == \E p \in Paths : HumanSave(p) \/ HumanDelete(p) \/ \E q \in Paths : HumanRename(p, q)

-----------------------------------------------------------------------------
Init ==
  /\ disk = [p \in Paths |-> Fresh(p)]
  /\ byHand = [p \in Paths |-> FALSE]
  /\ row = [p \in Paths |-> Fresh(p)]
  /\ lock = [p \in Paths |-> None]
  /\ suppressed = {}
  /\ queue = <<>>
  /\ call = [c \in Calls |-> FreshCall]
  /\ eng = IdleEng
  /\ wat = WatAt("loop", TRUE)
  /\ up = TRUE
  /\ budget \in Scenarios

Next ==
  \/ \E c \in Calls, p \in Paths, op \in Ops : Begin(c, p, op)
  \/ \E c \in Calls : Acquire(c) \/ CallStep(c)
  \/ StartRun \/ EngLock \/ EngStep
  \/ WatStep
  \/ Hand \/ Crash

Spec == Init /\ [][Next]_vars

(* A handler and the run go on once started, Go's mutex starves no waiter, *)
(* and the loop handles events and runs its sweep again and again.         *)
Fairness ==
  /\ \A c \in Calls : SF_vars(Acquire(c)) /\ WF_vars(CallStep(c))
  /\ WF_vars(EngStep) /\ SF_vars(EngLock)
  /\ WF_vars(WatStep)

FairSpec == Spec /\ Fairness

-----------------------------------------------------------------------------
TypeOK ==
  /\ disk \in [Paths -> File \cup {None}]
  /\ byHand \in [Paths -> BOOLEAN]
  /\ row \in [Paths -> File \cup {None}]
  /\ lock \in [Paths -> Calls \cup {Compile, None}]
  /\ suppressed \subseteq Paths
  /\ queue \in Seq(Event)
  /\ call \in [Calls -> CallState]
  /\ eng \in EngState
  /\ wat \in WatState
  /\ up \in BOOLEAN
  /\ budget \in Bounds

(* A writer between taking its locks and letting go holds them, so no two  *)
(* writers are ever inside one path: what write.PathLocks is for.          *)
ExclusiveWriters ==
  /\ \A c \in Calls : call[c].pc \notin {"idle", "waiting", "done"} => lock[call[c].path] = c
  /\ eng.pc \notin {"idle", "next", "lock", "lock2"} =>
       lock[eng.src] = Compile /\ lock[eng.dst] = Compile

(* A call about to write, and a compile run about to rewrite a note, to    *)
(* fill a free archive path or to delete the source of a move, has seen    *)
(* the file it replaces -- unless what it has not seen came from a hand,   *)
(* outside every lock (pathlocks.go's lost update, ErrChangedDuringRun).   *)
Seen(p, f) == Same(disk[p], f) \/ byHand[p]

NoLostUpdate ==
  /\ \A c \in Calls : call[c].pc = "ready" => Seen(call[c].path, call[c].seen)
  /\ eng.pc = "write" => Seen(eng.src, eng.walk[eng.src])
  /\ eng.pc \in {"write", "written", "stated", "remove"} /\ eng.dst # eng.src =>
       /\ Seen(eng.src, eng.walk[eng.src])
       /\ Seen(eng.dst, IF eng.pc = "write" THEN None ELSE eng.new)

(* The suppression set counts nothing, two writers of one path would share *)
(* one entry; it still mutes a path for as long as a pipeline or compile   *)
(* write of it is in flight, and never longer: a path left muted would     *)
(* hide every later hand edit from the watcher.                            *)
MutedExactlyWhileWriting ==
  /\ \A c \in Calls : call[c].pc \in {"ready", "written", "stated"} /\ call[c].op # "restore" =>
       call[c].path \in suppressed
  /\ eng.pc \in {"write", "written", "stated"} => eng.dst \in suppressed
  /\ \A p \in suppressed : lock[p] # None

(* The notes table never holds an id twice, whatever order writers, the    *)
(* watcher and a stale sweep index moved and replaced files in.            *)
UniqueRows ==
  \A p, q \in Paths : row[p] # None /\ row[q] # None /\ row[p].id = row[q].id => p = q

(* Every call ends, so no handler waits for ever on a path lock.           *)
CallsEnd == \A c \in Calls : call[c].pc # "idle" ~> call[c].pc = "done"

(* Every compile run ends.                                                 *)
RunsEnd == eng.pc # "idle" ~> eng.pc = "idle"

(* The index agrees with the vault: no row without a file, and the right   *)
(* row for every valid note whose id no second file claims.                *)
Claimed(p) == \E q \in Paths \ {p} : disk[q] # None /\ disk[q].id = disk[p].id

InSync ==
  \A p \in Paths : IF disk[p] = None THEN row[p] = None
                   ELSE disk[p].ok /\ ~Claimed(p) => Same(disk[p], row[p])

(* Suppressed events, lost events, failed embedding calls, stale reads,    *)
(* late stats and crashes are all made good by the sweep in the end.       *)
EventuallyInSync == <>[]InSync

-----------------------------------------------------------------------------
(* Together the writers behave as the store of atomic operations does.     *)
Store == INSTANCE VaultStore WITH
           file <- [p \in Paths |-> Content(disk[p])],
           Start <- [p \in Paths |-> Content(Fresh(p))]

ImplementsStore == Store!Spec

=============================================================================
