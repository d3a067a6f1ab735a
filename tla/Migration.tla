----------------------------- MODULE Migration -----------------------------
(***************************************************************************)
(* The embedding-provider migration.  Every provider has a table of        *)
(* vectors; one provider is active.  A migration is a row of               *)
(* migration_state, and four parties act on it, each in several database   *)
(* steps:                                                                  *)
(*                                                                         *)
(*   - the back-fill worker of the daemon, which embeds what is missing,   *)
(*     flips the active provider and finishes the row;                     *)
(*   - lazy tasks, one per query, which embed the chunks the query served; *)
(*   - writers, which resolve the tables a note is embedded into and later *)
(*     commit the note in one transaction;                                 *)
(*   - the operator's commands: start, pause and resume, roll back, prune. *)
(*     They are processes of their own and run while the daemon is down.   *)
(*                                                                         *)
(* A vector is abstracted to the fact that a table has a row for a chunk;  *)
(* a note has one chunk, which every write of the note replaces.           *)
(***************************************************************************)
EXTENDS Integers, FiniteSets

CONSTANTS
  Providers,      \* provider/model pairs, each with its table
  Original,       \* the provider the corpus is embedded under at first
  Configured,     \* what the daemon's configuration may name when it boots
  Corpus,         \* the number of notes
  Writers,        \* writes that may be in flight together
  Lazies,         \* lazy tasks that may be in flight together
  Commands,       \* some of "start", "pause", "rollback", "prune"
  Batch,          \* chunks a back-fill batch holds at most
  None,
  MaxChunks,      \* bound: chunks ever created
  MaxMigrations,  \* bound: migrations ever started
  MaxFaults,      \* bound: failed embedding or database calls, and
                  \* commands the operator breaks off
  MaxCrashes      \* bound: crashes of the daemon

Notes  == 1 .. Corpus
Chunks == 1 .. MaxChunks
Ids    == 1 .. MaxMigrations

ASSUME ProvidersAssumption ==
  /\ Original \in Providers
  /\ Configured \subseteq Providers
  /\ None \notin Providers \cup Nat

ASSUME SizesAssumption ==
  /\ Corpus \in Nat
  /\ Batch \in Nat \ {0}
  /\ MaxChunks \in Nat
  /\ Corpus <= MaxChunks
  /\ MaxMigrations \in Nat
  /\ MaxFaults \in Nat
  /\ MaxCrashes \in Nat
  /\ Commands \subseteq {"start", "pause", "rollback", "prune"}

VARIABLES
  reg,       \* embedding_providers: the registered providers, whose tables exist
  active,    \* those whose row has active set
  rows,      \* the chunks each table has a vector of
  chunk,     \* the chunk of each note, None for a note that is not indexed
  fresh,     \* the id of the next chunk
  mig,       \* migration_state
  latest,    \* the id of the migration started last, 0 if there is none
  worker,    \* the back-fill worker
  lazy,      \* the lazy tasks
  writer,    \* the writes in flight
  starter,   \* embeddings migrate --from --to; one, for it holds LockMigrate
  undoer,    \* embeddings migrate --rollback
  pruner,    \* embeddings prune
  up,        \* the daemon runs
  moved,     \* history variable: the chunks each migration has embedded
  late,      \* history variable: chunks the active provider may lack
  dropped,   \* history variable: migrations whose target's table was dropped
  budget     \* what is left of the bounds

db      == <<reg, active, rows, chunk, fresh, mig, latest>>
command == <<starter, undoer, pruner>>
history == <<moved, late, dropped>>
vars    == <<db, worker, lazy, writer, command, up, history, budget>>

-----------------------------------------------------------------------------
(* The tables.                                                             *)

Live == {chunk[n] : n \in Notes} \ {None}

InProgress == {m \in Ids : mig[m].status = "in_progress"}

(* MissingChunkBatch's anti-join.                                          *)
Missing(p) == Live \ rows[p]

(* What a write's choice of tables depends on: a later start or flip shows *)
(* in it.                                                                  *)
Epoch == [latest |-> latest, active |-> active]

(* Mutant: a flip that registers the provider it names.                    *)
ActivatedUnregistered(p) == {p}

(* SetActiveProvider: every row is set, to whether it is p's.              *)
Activated(p) == reg \cap {p}

(* Mutant: FinishMigration that does not look at the status.               *)
FinishedAnyhow(m, status) == [mig EXCEPT ![m].status = status]

Finished(m, status) ==
  IF mig[m].status = "in_progress" THEN [mig EXCEPT ![m].status = status] ELSE mig

(* Deleting a chunk cascades into every table.                             *)
Cascaded(n) == [p \in Providers |-> rows[p] \ {chunk[n]}]

(* Mutant: a batch credited by its size, not by the rows that landed.      *)
RecordedWhole(m, batch, counter) ==
  LET to == mig[m].to IN
  IF to \in reg /\ batch \subseteq Live
  THEN /\ rows' = [rows EXCEPT ![to] = @ \cup batch]
       /\ mig' = [mig EXCEPT ![m][counter] = @ + Cardinality(batch)]
       /\ moved' = [moved EXCEPT ![m] = @ \cup (batch \ rows[to])]
  ELSE UNCHANGED <<rows, mig, moved>>

(* RecordMigratedBatch: rows that are absent are inserted and credited in  *)
(* one transaction.  It fails as a whole when the table is gone or a chunk *)
(* was deleted meanwhile.                                                  *)
Recorded(m, batch, counter) ==
  LET to       == mig[m].to
      inserted == batch \ rows[mig[m].to] IN
  IF to \in reg /\ batch \subseteq Live
  THEN /\ rows' = [rows EXCEPT ![to] = @ \cup inserted]
       /\ mig' = [mig EXCEPT ![m][counter] = @ + Cardinality(inserted)]
       /\ moved' = [moved EXCEPT ![m] = @ \cup inserted]
  ELSE UNCHANGED <<rows, mig, moved>>

Fault == /\ budget.faults > 0
         /\ budget' = [budget EXCEPT !.faults = @ - 1]

-----------------------------------------------------------------------------
(* The back-fill worker.                                                   *)

IdleWorker == [pc |-> "idle", m |-> 0, batch |-> {}]

WorkerRead ==
  /\ up
  /\ worker.pc = "idle"
  /\ \E m \in InProgress :
       /\ ~mig[m].paused
       /\ worker' = [pc |-> "scan", m |-> m, batch |-> {}]
  /\ UNCHANGED <<db, lazy, writer, command, up, history, budget>>

(* A batch is full unless fewer chunks are missing; ids are random, so its *)
(* order says nothing about which.                                         *)
Batches(missing) ==
  {b \in SUBSET missing : Cardinality(b) = Batch \/ (b = missing /\ Cardinality(b) < Batch)}

WorkerScan ==
  LET missing == Missing(mig[worker.m].to) IN
  /\ worker.pc = "scan"
  /\ IF mig[worker.m].to \notin reg THEN worker' = IdleWorker
     ELSE IF missing = {} THEN worker' = [worker EXCEPT !.pc = "flip"]
     ELSE \E b \in Batches(missing) : worker' = [worker EXCEPT !.pc = "embed", !.batch = b]
  /\ UNCHANGED <<db, lazy, writer, command, up, history, budget>>

WorkerRecord ==
  /\ worker.pc = "embed"
  /\ Recorded(worker.m, worker.batch, "backfill")
  /\ worker' = IdleWorker
  /\ UNCHANGED <<reg, active, chunk, fresh, latest, lazy, writer, command, up, late, dropped, budget>>

(* Mutant: a worker that goes back to polling once it has flipped.         *)
WorkerFlipOnly ==
  /\ worker.pc = "flip"
  /\ active' = Activated(mig[worker.m].to)
  /\ worker' = IdleWorker
  /\ UNCHANGED <<reg, rows, chunk, fresh, mig, latest, lazy, writer, command, up, history, budget>>

(* The flip and the terminal status are two statements.                    *)
WorkerFlip ==
  /\ worker.pc = "flip"
  /\ IF reg = {} THEN UNCHANGED active /\ worker' = IdleWorker
     ELSE active' = Activated(mig[worker.m].to) /\ worker' = [worker EXCEPT !.pc = "finish"]
  /\ UNCHANGED <<reg, rows, chunk, fresh, mig, latest, lazy, writer, command, up, history, budget>>

WorkerFinish ==
  /\ worker.pc = "finish"
  /\ mig' = Finished(worker.m, "complete")
  /\ worker' = IdleWorker
  /\ UNCHANGED <<reg, active, rows, chunk, fresh, latest, lazy, writer, command, up, history, budget>>

(* A call fails; the worker backs off and starts over.                     *)
WorkerFail ==
  /\ worker.pc # "idle"
  /\ Fault
  /\ worker' = IdleWorker
  /\ UNCHANGED <<db, lazy, writer, command, up, history>>

WorkerStep == WorkerRead \/ WorkerScan \/ WorkerRecord \/ WorkerFlip \/ WorkerFinish \/ WorkerFail

-----------------------------------------------------------------------------
(* Lazy tasks: pausing does not stop them.                                 *)

IdleLazy == [pc |-> "idle", m |-> 0, batch |-> {}]

LazyRead(l) ==
  /\ up
  /\ lazy[l].pc = "idle"
  /\ \E m \in InProgress, served \in SUBSET Live \ {{}} :
       lazy' = [lazy EXCEPT ![l] = [pc |-> "pick", m |-> m, batch |-> served]]
  /\ UNCHANGED <<db, worker, writer, command, up, history, budget>>

(* MissingAmong.                                                           *)
LazyPick(l) ==
  LET to      == mig[lazy[l].m].to
      missing == lazy[l].batch \cap Missing(mig[lazy[l].m].to) IN
  /\ lazy[l].pc = "pick"
  /\ lazy' = [lazy EXCEPT ![l] = IF to \notin reg \/ missing = {} THEN IdleLazy
                                 ELSE [@ EXCEPT !.pc = "embed", !.batch = missing]]
  /\ UNCHANGED <<db, worker, writer, command, up, history, budget>>

LazyRecord(l) ==
  /\ lazy[l].pc = "embed"
  /\ Recorded(lazy[l].m, lazy[l].batch, "lazy")
  /\ lazy' = [lazy EXCEPT ![l] = IdleLazy]
  /\ UNCHANGED <<reg, active, chunk, fresh, latest, worker, writer, command, up, late, dropped, budget>>

LazyFail(l) ==
  /\ lazy[l].pc # "idle"
  /\ Fault
  /\ lazy' = [lazy EXCEPT ![l] = IdleLazy]
  /\ UNCHANGED <<db, worker, writer, command, up, history>>

LazyStep(l) == LazyRead(l) \/ LazyPick(l) \/ LazyRecord(l) \/ LazyFail(l)

-----------------------------------------------------------------------------
(* Writers.  EmbedTargets reads the active provider and then, in another   *)
(* query, the migration; the note is embedded and committed afterwards.    *)

IdleWriter == [pc |-> "idle", note |-> 0, new |-> 0, targets |-> {},
               since |-> [latest |-> 0, active |-> {}], torn |-> FALSE]

WriterActive(w, n) ==
  /\ up
  /\ writer[w].pc = "idle"
  /\ fresh <= MaxChunks
  /\ \E a \in active :
       writer' = [writer EXCEPT ![w] = [pc |-> "migration", note |-> n, new |-> fresh,
                                        targets |-> {a}, since |-> Epoch, torn |-> FALSE]]
  /\ fresh' = fresh + 1
  /\ UNCHANGED <<reg, active, rows, chunk, mig, latest, worker, lazy, command, up, history, budget>>

(* Mutant: a writer that knows of no migration.                            *)
WriterMigrationUnread(w) ==
  /\ writer[w].pc = "migration"
  /\ writer' = [writer EXCEPT ![w].pc = "commit"]
  /\ UNCHANGED <<db, worker, lazy, command, up, history, budget>>

WriterMigration(w) ==
  /\ writer[w].pc = "migration"
  /\ writer' = [writer EXCEPT ![w].pc = "commit",
                              ![w].targets = @ \cup {mig[m].to : m \in InProgress}]
  /\ UNCHANGED <<db, worker, lazy, command, up, history, budget>>

(* EmbedTargets takes a failed read of the migration for there being none. *)
WriterMigrationFails(w) ==
  /\ writer[w].pc = "migration"
  /\ Fault
  /\ writer' = [writer EXCEPT ![w].pc = "commit", ![w].torn = TRUE]
  /\ UNCHANGED <<db, worker, lazy, command, up, history>>

(* The tables w writes to are those of an earlier time, or the migration   *)
(* could not be read.                                                      *)
TooEarly(w) == writer[w].since # Epoch \/ writer[w].torn

(* No scan of the worker's is to come that would find the chunk missing.   *)
BehindTheScan(targets) == worker.pc \in {"flip", "finish"} \/ ~(active \subseteq targets)

(* IndexNote: the note's chunks are replaced and embedded in one           *)
(* transaction, which fails when a target's table is gone.                 *)
WriterCommit(w) ==
  LET n == writer[w].note
      c == writer[w].new
      targets == writer[w].targets IN
  /\ writer[w].pc = "commit"
  /\ IF targets \subseteq reg
     THEN /\ chunk' = [chunk EXCEPT ![n] = c]
          /\ rows' = [p \in Providers |-> IF p \in targets THEN Cascaded(n)[p] \cup {c}
                                          ELSE Cascaded(n)[p]]
          /\ late' = IF TooEarly(w) /\ BehindTheScan(targets) THEN late \cup {c} ELSE late
     ELSE UNCHANGED <<chunk, rows, late>>
  /\ writer' = [writer EXCEPT ![w] = IdleWriter]
  /\ UNCHANGED <<reg, active, fresh, mig, latest, worker, lazy, command, up, moved, dropped, budget>>

WriterFail(w) ==
  /\ writer[w].pc = "commit"
  /\ Fault
  /\ writer' = [writer EXCEPT ![w] = IdleWriter]
  /\ UNCHANGED <<db, worker, lazy, command, up, history>>

DeleteNote(n) ==
  /\ up
  /\ chunk[n] # None
  /\ chunk' = [chunk EXCEPT ![n] = None]
  /\ rows' = Cascaded(n)
  /\ UNCHANGED <<reg, active, fresh, mig, latest, worker, lazy, writer, command, up, history, budget>>

WriterStep(w) ==
  \/ \E n \in Notes : WriterActive(w, n)
  \/ WriterMigration(w) \/ WriterMigrationFails(w) \/ WriterCommit(w) \/ WriterFail(w)

-----------------------------------------------------------------------------
(* The operator's commands.                                                *)

IdleStarter == [pc |-> "idle", from |-> None, to |-> None, total |-> 0]

StartCheck(from, to) ==
  /\ "start" \in Commands
  /\ starter.pc = "idle"
  /\ latest < MaxMigrations
  /\ from # to
  /\ InProgress = {}
  /\ from \in reg
  /\ starter' = [pc |-> "count", from |-> from, to |-> to, total |-> 0]
  /\ UNCHANGED <<db, worker, lazy, writer, undoer, pruner, up, history, budget>>

StartCount ==
  /\ starter.pc = "count"
  /\ starter' = [starter EXCEPT !.pc = "ensure", !.total = Cardinality(Live)]
  /\ UNCHANGED <<db, worker, lazy, writer, undoer, pruner, up, history, budget>>

(* EnsureProvider keeps a table that is there, and what is in it.          *)
StartEnsure ==
  /\ starter.pc = "ensure"
  /\ reg' = reg \cup {starter.to}
  /\ starter' = [starter EXCEPT !.pc = "insert"]
  /\ UNCHANGED <<active, rows, chunk, fresh, mig, latest, worker, lazy, writer, undoer, pruner,
                 up, history, budget>>

(* LockMigrate keeps a second start out until the row is there, and the    *)
(* table's unique index would refuse it.                                   *)
StartInsert ==
  /\ starter.pc = "insert"
  /\ InProgress = {}
  /\ mig' = [mig EXCEPT ![latest + 1] =
               [from |-> starter.from, to |-> starter.to, status |-> "in_progress", paused |-> FALSE,
                total |-> starter.total, backfill |-> 0, lazy |-> 0]]
  /\ latest' = latest + 1
  /\ starter' = IdleStarter
  /\ UNCHANGED <<reg, active, rows, chunk, fresh, worker, lazy, writer, undoer, pruner,
                 up, history, budget>>

StartBrokenOff ==
  /\ starter.pc # "idle"
  /\ Fault
  /\ starter' = IdleStarter
  /\ UNCHANGED <<db, worker, lazy, writer, undoer, pruner, up, history>>

(* Pause and Resume.                                                       *)
SetPaused ==
  /\ "pause" \in Commands
  /\ \E m \in InProgress : mig' = [mig EXCEPT ![m].paused = ~@]
  /\ UNCHANGED <<reg, active, rows, chunk, fresh, latest, worker, lazy, writer, command,
                 up, history, budget>>

IdleUndoer == [pc |-> "idle", m |-> 0]

(* Rollback reads the migration first and acts on what it has read.        *)
RollbackRead ==
  /\ "rollback" \in Commands
  /\ undoer.pc = "idle"
  /\ \/ \E m \in InProgress : undoer' = [pc |-> "mark", m |-> m]
     \/ /\ InProgress = {}
        /\ latest # 0
        /\ mig[latest].status = "complete"
        /\ undoer' = [pc |-> "flip", m |-> latest]
  /\ UNCHANGED <<db, worker, lazy, writer, starter, pruner, up, history, budget>>

RollbackMark ==
  /\ undoer.pc = "mark"
  /\ mig' = Finished(undoer.m, "rolled_back")
  /\ undoer' = IdleUndoer
  /\ UNCHANGED <<reg, active, rows, chunk, fresh, latest, worker, lazy, writer, starter, pruner,
                 up, history, budget>>

(* After completion only the active provider moves; the row stays.         *)
RollbackFlip ==
  /\ undoer.pc = "flip"
  /\ active' = IF reg = {} THEN active ELSE Activated(mig[undoer.m].from)
  /\ undoer' = IdleUndoer
  /\ UNCHANGED <<reg, rows, chunk, fresh, mig, latest, worker, lazy, writer, starter, pruner,
                 up, history, budget>>

IdlePruner == [pc |-> "idle", p |-> None]

(* The checks of prune, each a query of its own, and then the drop.  A     *)
(* query that fails passes for a check.                                    *)
PruneActive(p) ==
  /\ "prune" \in Commands
  /\ pruner.pc = "idle"
  /\ IF p \in active THEN Fault ELSE UNCHANGED budget
  /\ pruner' = [pc |-> "migration", p |-> p]
  /\ UNCHANGED <<db, worker, lazy, writer, starter, undoer, up, history>>

PruneMigration ==
  /\ pruner.pc = "migration"
  /\ LET party == \E m \in InProgress : pruner.p \in {mig[m].from, mig[m].to} IN
     \/ /\ pruner' = IF party THEN IdlePruner ELSE [pruner EXCEPT !.pc = "drop"]
        /\ UNCHANGED budget
     \/ /\ party
        /\ Fault
        /\ pruner' = [pruner EXCEPT !.pc = "drop"]
  /\ UNCHANGED <<db, worker, lazy, writer, starter, undoer, up, history>>

(* DropProvider: the table and the registry row, in one transaction.       *)
PruneDrop ==
  /\ pruner.pc = "drop"
  /\ reg' = reg \ {pruner.p}
  /\ active' = active \ {pruner.p}
  /\ rows' = [rows EXCEPT ![pruner.p] = {}]
  /\ dropped' = dropped \cup {m \in 1 .. latest : mig[m].to = pruner.p}
  /\ pruner' = IdlePruner
  /\ UNCHANGED <<chunk, fresh, mig, latest, worker, lazy, writer, starter, undoer, up, moved, late, budget>>

CommandStep ==
  \/ \E from, to \in Providers : StartCheck(from, to)
  \/ StartCount \/ StartEnsure \/ StartInsert \/ StartBrokenOff
  \/ SetPaused
  \/ RollbackRead \/ RollbackMark \/ RollbackFlip
  \/ \E p \in Providers : PruneActive(p)
  \/ PruneMigration \/ PruneDrop

-----------------------------------------------------------------------------
(* The daemon dies with all its goroutines; the database and the           *)
(* operator's commands do not.  A daemon that boots registers the provider *)
(* its configuration names and makes it the active one, whatever its table *)
(* has.                                                                    *)

Crash ==
  /\ up
  /\ budget.crashes > 0
  /\ budget' = [budget EXCEPT !.crashes = @ - 1]
  /\ up' = FALSE
  /\ worker' = IdleWorker
  /\ lazy' = [l \in Lazies |-> IdleLazy]
  /\ writer' = [w \in Writers |-> IdleWriter]
  /\ UNCHANGED <<db, command, history>>

Boot(p) ==
  /\ ~up
  /\ up' = TRUE
  /\ reg' = reg \cup {p}
  /\ active' = {p}
  /\ late' = late \cup Missing(p)
  /\ UNCHANGED <<rows, chunk, fresh, mig, latest, worker, lazy, writer, command, moved, dropped, budget>>

-----------------------------------------------------------------------------
NotStarted == [from |-> None, to |-> None, status |-> "none", paused |-> FALSE,
               total |-> 0, backfill |-> 0, lazy |-> 0]

Init ==
  /\ reg = {Original}
  /\ active = {Original}
  /\ rows = [p \in Providers |-> IF p = Original THEN Notes ELSE {}]
  /\ chunk = [n \in Notes |-> n]
  /\ fresh = Corpus + 1
  /\ mig = [m \in Ids |-> NotStarted]
  /\ latest = 0
  /\ worker = IdleWorker
  /\ lazy = [l \in Lazies |-> IdleLazy]
  /\ writer = [w \in Writers |-> IdleWriter]
  /\ starter = IdleStarter
  /\ undoer = IdleUndoer
  /\ pruner = IdlePruner
  /\ up = TRUE
  /\ moved = [m \in Ids |-> {}]
  /\ late = {}
  /\ dropped = {}
  /\ budget = [faults |-> MaxFaults, crashes |-> MaxCrashes]

Next ==
  \/ WorkerStep
  \/ \E l \in Lazies : LazyStep(l)
  \/ \E w \in Writers : WriterStep(w)
  \/ \E n \in Notes : DeleteNote(n)
  \/ CommandStep
  \/ Crash
  \/ \E p \in Configured : Boot(p)

Spec == Init /\ [][Next]_vars

(* The worker polls for as long as the daemon runs, a lazy task and a      *)
(* write in flight go on, and a supervisor restarts the daemon.            *)
Fairness ==
  /\ WF_vars(WorkerStep)
  /\ \A l \in Lazies : WF_vars(LazyPick(l) \/ LazyRecord(l))
  /\ \A w \in Writers : WF_vars(WriterMigration(w) \/ WriterCommit(w))
  /\ WF_vars(\E p \in Configured : Boot(p))

FairSpec == Spec /\ Fairness

-----------------------------------------------------------------------------
Migrations == [from : Providers \cup {None}, to : Providers \cup {None},
               status : {"none", "in_progress", "complete", "rolled_back"}, paused : BOOLEAN,
               total : Nat, backfill : Nat, lazy : Nat]

Tasks(pcs) == [pc : pcs, m : Ids \cup {0}, batch : SUBSET Chunks]

TypeOK ==
  /\ reg \subseteq Providers
  /\ active \subseteq reg
  /\ rows \in [Providers -> SUBSET Chunks]
  /\ chunk \in [Notes -> Chunks \cup {None}]
  /\ fresh \in 1 .. MaxChunks + 1
  /\ mig \in [Ids -> Migrations]
  /\ latest \in 0 .. MaxMigrations
  /\ worker \in Tasks({"idle", "scan", "embed", "flip", "finish"})
  /\ lazy \in [Lazies -> Tasks({"idle", "pick", "embed"})]
  /\ writer \in [Writers -> [pc : {"idle", "migration", "commit"}, note : Notes \cup {0},
                             new : Chunks \cup {0}, targets : SUBSET Providers,
                             since : [latest : 0 .. MaxMigrations, active : SUBSET Providers],
                             torn : BOOLEAN]]
  /\ starter \in [pc : {"idle", "count", "ensure", "insert"}, from : Providers \cup {None},
                  to : Providers \cup {None}, total : Nat]
  /\ undoer \in [pc : {"idle", "mark", "flip"}, m : Ids \cup {0}]
  /\ pruner \in [pc : {"idle", "migration", "drop"}, p : Providers \cup {None}]
  /\ up \in BOOLEAN
  /\ moved \in [Ids -> SUBSET Chunks]
  /\ late \subseteq Chunks
  /\ dropped \subseteq Ids
  /\ budget \in [faults : Nat, crashes : Nat]

(* A migration's counters count every chunk it has embedded exactly once,  *)
(* however the worker and the lazy tasks race for it, and whatever crash   *)
(* or failure interrupts them (migrate.go, embedBatch; store/migration.go, *)
(* RecordMigratedBatch).  A table that was dropped and is filled again     *)
(* counts again.                                                           *)
CreditedOnce ==
  \A m \in Ids \ dropped : mig[m].backfill + mig[m].lazy = Cardinality(moved[m])

(* Every chunk has a vector of the active provider, also when the worker   *)
(* has just flipped it, whatever was written and deleted meanwhile         *)
(* (worker.go: full coverage is "the precondition for flipping").  There   *)
(* are two exceptions: a write that resolved its tables before a start or  *)
(* a flip, or failed to, and committed behind the worker's last scan; and  *)
(* what the configured provider lacks when the daemon boots.  This is for  *)
(* an operator who only starts and pauses.                                 *)
Covered == \A c \in Live, p \in active : c \in rows[p] \/ c \in late

(* A migration that is over stays as it ended: a worker that has flipped   *)
(* and a rollback that has read the row do not overwrite each other.       *)
EndedForGood ==
  [][\A m \in Ids : mig[m].status \in {"complete", "rolled_back"} => mig'[m].status = mig[m].status]_vars

(* A migration that is not left paused ends, although batches fail, chunks *)
(* are deleted from under a batch, and the daemon crashes.                 *)
MigrationsEnd ==
  <>[](\A m \in InProgress : ~mig[m].paused) => <>[](InProgress = {})

-----------------------------------------------------------------------------
(* Claims of the repository that the code does not keep.                   *)

(* worker.go: the back-fill "guarantees eventual 100% coverage -- the       *)
(* precondition for flipping the active provider"; migrate.go, EmbedTargets: *)
(* "new writes are born fully covered".  So a write that straddles the flip *)
(* must not leave a chunk the active provider has no vector of.            *)
FullyCovered == \A c \in Live, p \in active : c \in rows[p]

(* cli.md: prune "refuses the active provider or a party to an in-progress *)
(* migration".  So it never comes to drop the table of either.             *)
PruneRefuses ==
  pruner.pc = "drop" =>
    pruner.p \notin active /\ \A m \in InProgress : pruner.p \notin {mig[m].from, mig[m].to}

=============================================================================
