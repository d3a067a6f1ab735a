# A verification of Cognosis

Cognosis is a daemon that keeps a Markdown vault as long-term memory for
agents.  The vault is the truth; Postgres holds an index derived from it;
Ollama (or a test double) turns chunks of notes into vectors; agents reach the
whole over MCP.  This directory holds TLA+ modules translated from the Go code
under `src/`, the TLC runs that check them on small instances, and theorems
about them whose proofs TLAPS checks.

    tlc -config WritersSafety.cfg MCVaultWriters     # one run
    tlapm VaultWritersProofs.tla                    # proofs

`PROJECT.json` lists every run, the lines each definition stands for, one
mutation of the code per property that TLC must find, the hazards, the
findings and the theorems.

## 1. Inventory

| Component (under `src/internal`) | State | Operations | Works with | Hard behaviour | Correct when |
|---|---|---|---|---|---|
| Per-path locks, `write/pathlocks.go` | map of path to mutex | `Lock`, `LockTwo` | pipeline, restore, lifecycle | two locks at once, waiting handlers | exclusive, and every waiter gets in |
| Write pipeline, `write/pipeline.go` | none of its own | `write_note`, `edit_note`: read, validate, id, suppress, write, commit history, stat, index, repair referrers | locks, vault, history, indexer, watcher | read-modify-write against edits, runs and hands; failure between steps | no update lost, an id is kept |
| `restore_note`, `vault/history_recovery.go` | git | show, write the old version | locks, watcher | brings back what a run has moved | the file is the old version |
| Index core, `write/indexer.go`, `store/notes.go`, `store/index.go` | tables notes, chunks, links, embeddings | upsert, delete, resolve links | everyone who writes | indexers without a common lock | an id has one row; the index follows the vault |
| Watcher, `watch/watch.go`, `watch/reconcile.go` | suppression set, event queue | handle event, settle, boot reconciliation, sweep | pipeline and lifecycle suppress it | lost, late and reordered events, stale reads | index agrees with the vault in the end |
| Lifecycle, `lifecycle/` | stats of the run, source digests | walk, reinforce, decay, falsify, dispute, graduate, archive | locks, vault, indexer, history | notes rewritten long after they were read; moves over two paths; rounding | nobody's edit is reverted; the report is true; belief is a function of age and history |
| Embedding migration, `migrate/`, `store/migration.go`, `store/providers.go`, `cli/embeddings_cmds.go` | provider registry, one table per provider, migration row | start, back-fill, lazy batches, dual writes, pause, roll back, prune | indexer, query, daemon boot | four parties, each in several queries; restarts | the provider it flips to is complete; credits are exact; it ends |
| Vault history, `vault/history.go` | git repository, `gitIndexMu` | `CommitAll`, `Log`, `Show`, `PurgePath` | every writer | a commit sweeps in another's file; purge against a running daemon | every write is in some commit |
| Link graph, `write/indexer.go`, `vault/links.go`, `write/audit.go` | table links | resolve, relink, repair of referrers, audit | indexer, watcher, lifecycle | edges depend on what is indexed when they are resolved | edges are what the notes imply, in whatever order they came |
| Daemon, `daemon/` | pid file, advisory lock, runners | start, stop, liveness guard, drain | everything | two daemons; a lock lost unnoticed | work is done under the lock; whoever starts serves or ends |
| Auth, `auth/`, `store/tokens.go` | tokens, file of the local token | mint, revoke, authenticate, prune | daemon boot, MCP server | a crash between file and row, other hosts, prunes and rebuilds | who serves has a token that works; no start is wedged |
| Retrieval, `query/`, `store/query_legs.go` | none | legs per provider, text fallbacks, graph leg, fusion, penalties, cut | store, migration (lazy) | statements at different moments, as-of filters, ties | hits pass the filter; the answer depends on content and the vector index alone |
| MCP server, `mcpserver/` | none | authenticate, dispatch, audit row, shutdown | all tools | calls in flight at shutdown | - |
| Note contract, chunker, embedding clients, configuration, personas, command line, measurement | none | parsing, splitting, HTTP, flags | - | - | - |

How they meet: handlers, the compile run and the watcher are goroutines of one
daemon; handlers and the run share the path locks and the suppression set, the
watcher takes no lock and shares only the suppression set and the database.
Hands (editors, `mv`, sync tools) change files without any of it.  The
operator's commands are processes of their own that share the database, and, when
no daemon owns it, write the vault and its git repository as well.

The hazards of `PROJECT.json` are the behaviours of this table at their lines;
they decided which properties are stated.

## 2. Plan

The order is by what would hurt users most: losing a note's content first, then
losing vectors, then the rest.

1. **VaultWriters**, with the abstract specification **VaultStore**: checked and proved.
2. **Migration**: checked and proved.
3. **History**: checked and proved.
4. **LinkGraph**: resolution, relink and repair by five kinds of indexers: checked and proved.
5. **Serving**: the daemon's process, its locks and its credentials: checked; the safety part proved.
6. **Lifecycle**: what a compile run decides, writes and reports: checked and proved.
7. **Retrieval**: a query over an index that changes under it: checked and proved,
   one of its properties for pools and providers of the code's proportions.

Every invariant and action property that a passing run checks is proved; liveness
is only checked (section 11).

The modules meet at steps each keeps of the other: VaultWriters knows that the
history commit takes time and that an index step may fail; LinkGraph starts with
files that VaultWriters says differ; Migration's writers are the index steps of
VaultWriters; Lifecycle's writes are VaultWriters' engine with the lock taken for
granted; Serving's units and calls are the watcher and the handlers.

## 3. VaultWriters

### Correspondence

| Variable | In the code |
|---|---|
| `disk` | the vault's files |
| `row` | table `notes`: id, digest, mtime and size by path |
| `lock` | `write.PathLocks` |
| `suppressed` | `watch.Watcher.suppressed` |
| `queue` | fsnotify events that were delivered and not yet handled |
| `call[c]` | a handler: where it is in `Pipeline.Write`/`Edit` or `History.Restore` |
| `eng` | `lifecycle.Engine` in a run: the parsed vault, what is left, the note in hand |
| `wat` | the watcher's goroutine: an event in hand, or a reconciliation |
| `up`, `budget` | the daemon serves; the bounds |
| `byHand` | history variable: a hand changed the path last |

A call takes `Acquire`, `ComposeWrite`/`Edit`/`Restore` (everything that is
decided before the write: validation, id, suppression), `Put`, `Stat`,
`IndexCall`, `Release`.  The engine takes `StartRun`, then for each note
`DueRewrite` or `DueMove`, `LockFirst`, `LockSecond`, `Check`, `Rewrite`,
`StatRewritten`, `IndexRewritten`, `RemoveSource`, `ReleaseNote`.  The watcher
takes `TakeEvent`, `Settle`, `ReadFile`, `IndexEvent`/`DeleteEvent`, or
`ReadStates`, `WalkVault`, `IndexDrift`..., `DeleteGone`..., `EndReconcile`.
Every step that may fail in the code has a failure of its own, and `Crash`
loses all memory at any point.

### Abstractions

- A note's content is the set of changes it carries: a whole-file write leaves
  its own token, an edit adds its token to what it read.  A lost update is a
  token that is missing.  `ok` says whether the contract accepts the file;
  `stamp` is mtime and size, which a hand may keep while it changes the bytes.
- A walk of the vault is one step, and a candidate's stat and read are one.
- What is due for a note in a compile run is a choice: the model allows every
  rewrite and every move the rules could ask for, at most twice a note.
- Links, chunks and embeddings are left to other modules; that the embedding
  call may fail is kept, for it decides how far an operation gets.
- The history commit between write and stat is kept as the time it takes: the
  stat may be that of a later edit.

### Runs

All instances have two paths (one in `notes/` and its archive path), one note
and one or two calls; a note that is new appears at the archive path.  The bounds
are sets of scenarios: a behaviour starts with one of them and cannot use more
than it has.  Every pair of parties (call and call, call and run, call and
watcher, run and watcher, each with a hand, a fault or a crash) is in some
scenario; a third call or path repeats them.

| Run | Scenarios | Shows |
|---|---|---|
| `WritersSafety` | 2 calls of any tools; an edit, a restore and a run; a call of any tool, a run and a fault or crash; an edit and a hand, with a run or with a fault; a hand, a run and a fault | type correctness, suppression, exclusion, no lost update but a hand's, one row per id, refinement of VaultStore |
| `WritersEnd` | a hand and a run; an edit and a run; a write or restore, a hand and a fault or crash; with fairness | calls and runs end; index and vault agree in the end |

`WritersSafety` and `LinksSafety` identify states that differ in the names of
the calls only: no definition tells one call from another, every scenario comes
with its permutations, and neither run checks liveness.

One hand edit is enough for a conflict with each party, one fault for each
window between two steps, and a queue of one event loses the second.  These two
check deadlock: whatever the bounds leave, the watcher goes on.

### Fairness

`SF` on taking a lock: Go's mutex goes into starvation mode after a
millisecond and hands itself to the oldest waiter.  `WF` on the rest of a call
and of a run: goroutines that are runnable run.  `WF` on the watcher as a whole:
its loop handles events and its ticker starts the sweep again and again; that
includes the boot pass after a crash, which is a supervisor's restart
(contrib/cognosis.service, `Restart=on-failure`).  No fairness for hands,
faults and the start of calls or runs.

### Theorems (VaultWritersProofs)

They hold for all sets of paths, notes and calls and all bounds that satisfy the
module's three assumptions: archive paths lie outside the active stage, the
vault starts with distinct ids, and tokens are distinct.

1. `TypeCorrect`.  `Typed` adds to `TypeOK` what each process knows at each of
   its program points (a call that is `ready` has a file to write; a run's
   note was on disk when it walked).
2. `Exclusion`.  `Locks`: who is inside a path holds its lock, and a run
   between its two locks holds the smaller path.
3. `RowsStayUnique`.  Inductive as it stands, given that `Upsert` evicts the
   row it lands on and moves the row of its id.
4. `Suppression`.  `Mutes` ties the set to locks and program points; it needs
   `Locks`, since a second writer of a path would un-suppress the first.
5. `LostUpdateFreedom`.  `Sees`: what a writer has read is what is there, or a
   hand was last; a run's walk is stale in general and `Check` re-establishes
   it under the lock, where `Locks` keeps it.
6. `Linearizes`: `Spec => VaultStore!Spec`.  `Put`, `Rewrite` and
   `RemoveSource` map to the store's operations, by `Sees`; hand edits map to
   `ByHand`; every other step stutters.

`CallsEnd`, `RunsEnd` and `EventuallyInSync` are liveness and only
model-checked.

## 4. Migration

### Correspondence

| Variable | In the code |
|---|---|
| `reg`, `active` | table `embedding_providers` and its `active` column |
| `rows[p]` | the chunks that `p`'s table has a vector of |
| `chunk`, `fresh` | table `chunks`: the chunk of each note, and the next id |
| `mig`, `latest` | table `migration_state` |
| `worker` | `migrate.Worker`: the row it read, its batch |
| `lazy[l]` | the goroutines of `Coordinator.LazyEnsure` |
| `writer[w]` | a write between `EmbedTargets` and the commit of `IndexNote` |
| `starter`, `undoer`, `pruner` | `embeddings migrate`, `migrate --rollback`, `prune` |
| `moved`, `late`, `dropped` | history variables: what was embedded, which chunks the active provider may lack, and whose table was dropped |

Each action is one query or one transaction; an embedding call is the time
between two of them.  The operator's commands go on while the daemon is down.
`Boot` is the part of the daemon's start that registers the configured provider
and makes it active.  A note has one chunk, which each write replaces: a second
chunk of a note would be replaced together with the first.  Two providers are
enough for a migration and one back.  Pausing and resuming are one action each,
since their update re-checks the status they read.

### Runs

| Run | Bounds | Shows |
|---|---|---|
| `MigrationCommands` | 1 note, 1 write, 1 lazy task, all commands, boot under either provider, 1 fault, 1 crash | only registered providers are active; counters count what was embedded, once; terminal states are terminal |
| `MigrationEnds` | 2 notes, batches of 2, 1 write, 1 lazy task, start and pause, boot under either provider, 1 fault, 1 crash, fairness | the active provider covers all chunks but the late ones; a migration that is not left paused ends |

The runs stop when their bounds are used up, so deadlock is not checked.
One write is enough to straddle each step of the worker, one lazy task to race
it for a batch, one fault or crash for each window between two queries.

`CreditedOnce` leaves out a migration whose table was dropped (what is filled
again is rightly credited again).  `Covered` is for an operator who only starts
and pauses: a rollback makes a provider active that lacks what was written
since, and one that hits the window between flip and finish (section 10) stops
dual writes while the new provider stays active.  Its
exceptions are the finding `MigrationStraddle` and the boot, which makes the
configured provider active whatever its table has.

Fairness: the worker's ticker (`WorkerStep`), lazy tasks and writes in flight,
and the supervisor that boots the daemon again.  None for the operator.

### Theorems (MigrationProofs)

They hold for all sets of providers, writers and lazy tasks and all bounds.

1. `TypeCorrect`.  `Typed` adds to `TypeOK` that a process that is not idle
   holds a migration that was started, and that rows not started are blank.
2. `EndedStays`.  Only a start and `Finished` change a status; the first writes
   a blank row, by `Typed`, and the second looks at the status.
3. `EachChunkCreditedOnce`.  `CreditedOnce` is not inductive: a batch credits
   what had no row, so what was credited must have kept its row for as long as
   the chunk lives (`Landed`).  That needs chunks to belong to one note
   (`ChunkIds`) and a writer's new chunk to be known to no table (`WriterIds`).
4. `ActiveCovered`, under the premise that the operator only starts and pauses.
   The worker at its flip knows the target to be full (`WorkerKnows`).  A
   write that would break this has chosen its tables at an earlier time, for
   one that has not has every migration's target among them (`WriterKnows`);
   replacing a chunk takes no other's row, by `ChunkIds`.

`MigrationsEnd` is liveness and only model-checked.

### Findings

`MigrationStraddle`: a write that straddles the flip leaves the active provider
without its chunk, and nothing comes back for it.

`MigrationPrune` (start and prune, no faults): prune finds no migration in
progress, a start inserts its row, and prune drops the table of the migration's
target (`PruneRefuses`; cli.md:30 says that prune refuses a party to a migration).

One more disagreement was seen while modelling and is only noted here:
`chunks_backfill + chunks_lazy` need not reach `chunks_total` at completion
(migrate.go:105 counts once, at the start; a chunk deleted later is credited to
nobody).

## 5. History

### Correspondence

| Variable | In the code |
|---|---|
| `disk` | the owned files of the vault: notes and log.md |
| `head`, `original` | the branch, and filter-branch's backup under refs/original |
| `index`, `stuck` | .git/index, and a .git/index.lock left behind |
| `mutex` | `gitIndexMu` of the daemon's process |
| `task[t]` | a call of `CommitAll`, from the write before it to its answer |
| `del` | `note delete --hard` |
| `up`, `budget` | the daemon serves; the bounds |
| `erased`, and `overtaken`, `swept` of a call, `held` of `del` | history variables: what was erased; whether somebody wrote the file, or committed, between a call's write and its snapshot; what the branch had when the deletion began |

`CommitAll` takes `Lock`, `ReadHead`, `Stage` (the snapshot), `NothingToCommit` or
`UpdateRef`, and `AddIndex`.  What precedes it is `WriteFile` (write_note,
edit_note), `RestoreFile` (the tool or the command), `CommitDrift` (watcher,
reconciliation, the end of a compile run) or a step of the deletion.
`hardDelete` takes `DeleteBegin`, then `FilterStart` and `FilterEnd` up to three
times with a call of `CommitAll` before each, then `Expire`, `Remove`, a last
call, `DeleteEnd`.  Every git call may fail (`GitFails`), a command may be
broken off, and the daemon may stop or crash between any two.

### Git, as an environment

`FilterStart`, `FilterEnd`, `Clean` and `Purged` describe `git filter-branch
--force --index-filter --prune-empty -- --all`: it refuses a tree whose index is
not the head's or whose tracked files are not the index's; it moves the branch
only if it is where it was, and replaces the backup; and it then brings index and
files to the new head, which fails when the index is locked, when a file to be
touched has changed, and when the branch is gone because all its commits became
empty.  In the last three cases it exits non-zero with the branch rewritten.
This was compared with git 2.39.

### Abstractions

- A branch is the sequence of its commits' trees and what they are named for;
  what is in no branch and no backup is gone (the reflog is not a way back that
  any command of Cognosis offers).
- A content is a version.  Commits that became empty are kept as repetitions.
- `git add` takes its snapshot of all files in one step.
- A compile run appears as edits and a `CommitDrift`; the path lock it shares with
  the handlers is `PathFree`, and the sweeping-in of its files by another's
  commit is what `swept` is for.
- Files that other tools have tracked in the repository are left out; the message
  of PurgePath covers them.
- Row, file and log.md of a hard delete go in one step.
- One command of the operator runs at a time, and with `Overlap = FALSE` none
  runs beside the daemon.  The commands ask for the advisory lock and refuse (or
  go through the daemon); the probe is a snapshot, as cli/daemonprobe.go:44-46
  says of itself, and `--force-local` skips it.  With `Overlap = TRUE` commits
  can be lost, as update-ref names no old value and `gitIndexMu` is one process's.

### Runs

| Run | Bounds | Shows |
|---|---|---|
| `HistoryCommits` | 2 goroutines, 2 notes and log.md, 3 versions, 4 calls, 1 fault, 1 crash | no commit drops another's, what was answered is recorded and under its own name, what was erased stays erased |
| `HistoryGivesUp` | 1 goroutine, 2 notes, 2 versions, 3 calls | the finding |

Two goroutines are enough for two commits on one head, three versions for an
overwritten, a restored and an erased one; four calls for writes before and
during a deletion.  The runs stop when their bounds are used up, so deadlock is
not checked.

`Recorded` excuses a call whose file somebody wrote again before the snapshot,
`OwnCommit` also one whose file another's snapshot swept in: CommitAll stages
all owned paths, so a file that is on disk before the snapshot of another is
recorded under its message.  The comment at history.go:126-133 claims the
property only for a file that lands after the snapshot, and that holds.

### Theorems (HistoryProofs)

They hold for all sets of notes and writers and all bounds.

1. `TypeCorrect`, with `Overlap` or without.  The mutex belongs to a goroutine
   exactly while that is between its first and its last git call.
2. `HistoryForward`, under `~Overlap`: `Spec => NothingLost`.  `Turns` says that
   commands and daemon keep apart and that a purge works between two calls of
   `CommitAll`; so one call at most is at its git calls (`OneInside`) and none
   beside a purge (`PurgeAlone`); so a call commits on the head there is
   (`Based`), and what it writes contains what was there (`AppendHeld`,
   `PurgedHeld`).
3. `AnsweredIsRecorded`, under `~Overlap`: `Spec => []Recorded`.  `Known` follows
   a call's version from disk to the snapshot to the branch; `NothingToCommit`
   needs that the snapshot is the head's tree (`TreeHeld`).

4. `DeletedIsErased`, under `~Overlap`: `Spec => []Erased`.  A version belongs to
   one file, and what a deletion has dropped is to be found nowhere but in the
   places of the deleted note (`Apart`); while a filter runs, the index is the
   head's and the note is off the disk, staged, or at a version that is new
   (`Purging`), so the files filter-branch brings to the new head add nothing.
5. `WriteHasOwnCommit`, under `~Overlap`: `Spec => []OwnCommit`.  A version that is
   on disk and not yet staged is in no commit and in no other call's snapshot,
   unless that call has marked it `swept` (`Own`).

### Findings

- `HistoryGivesUp`: PurgePath reports that nothing has been deleted when
  versions are gone from the branch and from the backup.  With a note that is
  the only thing the history has, it never succeeds: each attempt deletes the
  branch, git ends with an error, and the next attempt's commit starts a new one.

Two more things were seen while modelling.  A call that dies between `UpdateRef`
and `AddIndex` leaves the index behind the head, and the next call finds the
tree unchanged (history.go:198) and does not bring it up, so every purge refuses
the tree until some file changes; the message names two other causes.  And a
killed git call leaves .git/index.lock, after which every `AddIndex` fails
until a hand removes it, with the commit itself already made.

## 6. LinkGraph

### Correspondence

| Variable | In the code |
|---|---|
| `row` | table `notes`: at each path the note that was indexed, with what it refers to |
| `link` | table `links` |
| `job[w]` | an indexer: a handler, the watcher's loop, or the compile run |
| `excused` | history variable: notes to which the code owes no repair, see below |
| `budget` | the bounds |

Every indexer works through a batch: `ResolveNote` (a query), `IndexNote` (a
transaction), then for a batch of several `Relink`, then `ReadReferrers`, and
`ResolveReferrer` and `RepairReferrer` for each referrer found, then `Remove`.
A handler, an event and a compile rewrite are batches of one; the compile run
stops after `IndexNote`, as `rewriteLocked` repairs nothing.  Indexers share the
lock of a path (`Locked`) and nothing else: any step of one may fall between
another's resolution and its transaction, and a target that is gone by then makes
the foreign key refuse it.

A reference is a basename and, where it has one, a project; whether its text is
the plain `[[name]]` decides whether `ReferrersOf` finds it.  Which files differ
from the index and why is VaultWriters' subject: here a batch is any set of files
that a vault with distinct ids may hold.

### Run

`LinksSafety`: four paths, two of which share a basename in two projects; three
notes, of which one has three contents, one may be renamed to two other paths and
one may take over the other's.  Scenarios: three writes; two and a fault; a write,
an event and a fault; two sweeps or events and a fault.  Two concurrent resolutions are enough
for a stale one, a basename shared by two notes for a reference that changes
what it means.

`GraphAsImplied` compares the edges with those that `AuditGraph` derives, when
nobody is indexing.  It leaves out (`excused`) notes whose edges the code gives
up: after a removal, a rename or a compile rewrite, where it repairs nothing;
after a reading that no longer held when it was stored; after a repair that
failed or a crash; and when a note has taken over a path of the batch before its
referrers are read, for the repair passes over the batch's paths and not over
its notes (`TakenOver`; indexer.go:155).  A note is excused only while its edges
are wrong for such a reason, and comes back when its edges are stored rightly.
`InboundSurvives` has no such exception but the stale reading.

### Theorems (LinkGraphProofs)

They hold for all sets of paths, notes, files and calls and all bounds.

1. `TypeCorrect`.  `Standing` adds to `TypeOK` that an id has one row and that a
   job has what its program point works on: a file to index, a referrer to repair.
2. `InboundStays`.  An edge goes only with a note at one of its ends, or when
   the edges of its source are stored anew; what is stored is what the source
   refers to, or `Wrong` says so and the source is excused.
3. `GraphConverges`.  `GraphAsImplied` says something of quiet states only; the
   invariant behind it is `Owing`: a note whose edges are wrong and not excused
   has an indexer at work that will come to it, because it has indexed a name the
   note mentions (`Promises`), has the note in a batch whose edges it computes
   again (`Relinks`), or has read it as a referrer (`Repairs`).  Each step hands
   the debt on: a first pass that ends goes to the second, the second to the
   repair, a repair to the next referrer.  It was this step of the proof, from
   `Promises` to `Repairs`, that showed `TakenOver`: with paths and notes as
   general as the theorem has them, a note may be at a path of the batch without
   being of the batch.

## 7. Serving

### Correspondence

| Variable | In the code |
|---|---|
| `pc[d]` | where a process is between `start` and its exit |
| `pidfile[h]`, `tries` | the pid file of a host, and `AcquireLock`'s rounds |
| `owner` | the database session that holds `LockInstance` |
| `unit`, `call` | the watcher's shielded work, tool calls in flight |
| `seen`, `tokenfile[h]`, `row`, `audited` | `EnsureLocalToken`'s reading, the token file, table `tokens`, the audit rows that pin a token |
| `stopping`, `told` | `cognosis stop` between its look and its removal; SIGTERM sent |
| `lost`, `late`, `cut`, `meddled`, `orphaned` | history variables: the exceptions the code allows |

A process takes `Create`, `Name` (or `ReadPid`, `Reclaim`, again), `Claim`,
`Boot`, `LookForToken`, `ResolveToken`, `WriteToken`, `RegisterToken`, `Wire`,
serves, then `Drain`, `Drained` or `GiveUpDraining`, `Unlock`, `Release`, `Exit`:
the deferred calls of `daemon.Run` in their order.  Creating the pid file and
writing the pid are two steps, as are looking at a stale file and removing it; a
removal takes whatever file is there.  `Crash` leaves the files and frees the
session; the database may drop the session of a live process.  A process is a
member of `Daemons`, and a restart is another on the same host.  A pid is the
process: that pids are used again is left out.

### Run

`ServingSafety`: three processes of one host and one of another, one call, two
tokens.  Each scenario leaves one question open: the pid file with two and with
three starters, a restart after a crash, the overlap after a lost connection,
the credentials under revocation, prune, deletion and rebuild, two hosts.

`WorkUnderLock` names its exceptions: the connection dropped, the 15 s of the
drain ran out, or the MCP server's 5 s did with a call in flight.
`LocalTokenWorks` and `LiveTokenIsHeld` leave out what the operator does to a
process that has looked already, and what two daemons do to one another after a
lost lock.  `StopsOrServes` assumes `Fairness`: a runnable process goes on, and
the watcher's unit ends, since watch.shutdownGrace bounds it below the drain's
own bound.  Crashes, errors, calls and operators owe nothing; what they may leave
undone is their own.

### Theorems (ServingProofs)

They hold for all sets of processes, hosts, calls and tokens and all bounds.

1. `TypeCorrect`, with the count of rounds for the pid file.
2. `VaultUnderLock`.  `Holding`: a process at work owns the advisory lock or has
   had it taken away; `Busy`: what is in flight is of a process that serves or
   drains, or that has given up on it.
3. `ProvisionedTokenWorks` and `NoStartIsWedged`.  `Provisioned` follows a start:
   what it has read is what is in the file, what it is about to write was minted
   for it, and what it will overwrite does not authenticate.  It is inductive as
   long as one process is at work, which `Holding` says.

`StopsOrServes` is liveness and only model-checked.

## 8. Lifecycle

### Correspondence

| Variable | In the code |
|---|---|
| `live`, `shelf` | the notes under `notes/` and under `archive/`, as frontmatter |
| `now` | the clock, in hours |
| `run` | `Engine.run`: what `vault.Walk` parsed, what is asked, the report and `mark` |
| `landed`, `settled` | history variables: actions whose writes were made; notes the last run decided on and nobody edited since |
| `budget` | the bounds |

`Begin` is the walk and the checks of the request; each note then takes
`PassOver`, `Contest` (falsify, dispute), or `Assess` and, where asked,
`Graduate`; `Finish` writes the log and commits.  `Rewrite` and `Move` are
check, write and index in one step, as the path's lock is held throughout; the
failure of the index step ends the run with the file written.  Calls edit, pause
and resume notes between any two steps.

The curve is computed exactly: confidence in tenths is the k whose bounds,
squared, enclose (1 + t/S)^(-1/2); a stability is a ratio of hundredths of a day;
`Faded` compares the unrounded confidence.  A note that stores no stability has it
reconstructed (`InitStability`), and the run decides by that value as it is and
stores it rounded to hundredths (`Hundredths`, to the nearest); later runs decide by
the stored one.  What a note says, supersede links, reasons and the advisory lines
of the report are left out.

### Run

`LifecycleRuns`: five vaults of two or three notes that cover each stage and
status, with two of one basename; seven requests, one of them a dry run and one
without a reason; runs at the hours 0, 720, 4560 and 9600 (days 0, 30, 190 and
400), which lie on either side of decay, of the shield's and of abandonment's 180
days and of fading, and at 66034, where a stability's last hundredths decide; two runs
with an edit, or with a fault or crash; one run with two edits, or with one and a
fault.

`Idempotent` has three exceptions.  An old note that was reinforced in the run is
shielded from being abandoned only for that run; a citation may pass to an
archived namesake, which comes first in walk order (the run finds both when they
are not excepted); and a note whose reconstructed stability was rounded across a
boundary when it was stored is decided upon anew by the stored one (`Wavers`).  For
the same reason `AsTimed` allows either value.  The run reaches all three: a stable note
with three reinforcements and no stored stability has 14 * 1.9^3 * 4 = 384.104 days,
66034 hours after its last reinforcement its confidence is 0.3500012, stored as 0.4,
and the stability is stored as 384.10; a second run at the same moment computes
0.3499996 and stores 0.3.  After that second run nothing moves.

### Theorems (LifecycleProofs)

They hold for all sets of notes, hours, citations and requests, for every walk
order and all bounds; `math.Pow` is the function `Power`, and the fresh
stability is the code's 14 days.  A file that the system starts with has no
stability yet or one that its reinforcements have earned (`StabilityAssumption`):
compile runs are all that writes one.

1. `TypeCorrect`.  `Standing`: types; each stored stability is what its note's
   reinforcements have earned, but for rounding (`Rooted`); a run has a request, and
   graduates only what it has assessed (`Going`).  That the rounded confidence
   exists at all (`ConfidenceTyped`) and that growth never lowers a stability are
   lemmas on numbers, by induction on the number of reinforcements.
2. `ReportIsWhatLanded`.  `Reporting`: between two notes the report ends where the
   next note's actions start, so that a skip takes back its own lines only.
3. `ConfidenceIsAged`.  `Decided`: a note the run has decided on has its age's
   confidence, and has not faded, by the stability that is stored or by the
   reconstructed one it is the rounding of.
4. `FadingIsListed`, from `Rooted`: what fades has not been reinforced for at least
   336 days, longer than any citation shields it from being listed.
5. `ShieldedStaysPut`: a step that changes a note works on what it has checked
   against the file, so on a note that is neither paused nor canonised.
6. `SecondRunIsIdle`.  `Citing`: what the run took for cited, less the exceptions,
   a second run takes for cited too; its walk finds the same first bearer of a
   name among what the first has left in place.  A note that is changed all the
   same, or fades, was decided on by a reconstructed stability of which the
   stored one says otherwise, which is what `Wavers` says.
7. `StabilityIsEarned`: `EarnedStability`.  A stored stability is rounded at every
   reinforcement, so the absolute error grows with their number, and an
   invariant that allowed half a unit for each would not be inductive.  It grows no
   faster than the stability itself, though: after n reinforcements it is below
   5/9 of 1.9^n - 1 hundredths of a day, and fourfold once the note is stable
   (`AsEarned`).  A reinforcement, a promotion to stable in it included, keeps
   that (`GrownAsEarned`), as does what the code reconstructs for a note that has
   none stored (`InitAsEarned`).  Against 1400 times 1.9^n it is less than one part
   in two thousand, for any number of reinforcements (`EarnedNear`).

## 9. Retrieval

### Correspondence

| Variable | In the code |
|---|---|
| `row`, `mints` | tables `notes` and `chunks`; how often chunk ids were minted |
| `query` | `Engine.RunWithStats` and the tool around it: its legs, result, hint |
| `past` | history variable: the statuses at the end of each day |
| `told` | history variable: the last day that the frontmatter a note was written with speaks of or was written on |
| `offered`, `quiet` | history variables: what the filter has let through during the query; whether nothing was written since it began |
| `now`, `budget` | days; the bounds |

Each leg is a statement of its own: `RankVector` per provider and `RankFTS`,
`RankFTSNoteLevel`, `RankFTSOr` in any order, then `RankGraph`, then the
stale-link check, fusion and cut in `Answer`, then `Hint`.  Notes are written
between any two: `Edit` keeps the frontmatter, `Shelve` is a compile run that
falsifies or archives and says when, and `Write` is a file that comes with a
frontmatter of its own (`Heads`: write_note, restore_note, a hand), from which the
index takes status and dates whatever they were, a missing date included.  Every
order is `Sorted`: a set by a score, with an order that breaks ties.  Scores are
integers: fusion is multiplied by `Scale`, which every denominator divides, so
that every comparison is exact, and the discounts 0.15 and 1/2 and the graph leg's
weight 1/2 keep their ratios.

What the database computes from text is given by constants, of which nothing is
assumed: a chunk's distance from the query in each provider's space, its rank by
`ts_rank_cd` under the query's conjunction (`every`) and under the disjunction of its
terms (`any`), and whether a note's text matches as a whole (`Whole`).  The vector
index is approximate and its statement breaks no ties, so `RankVector` may return any
chunks that have an embedding, in any order; a leg that is not a list of nearest
ones counts against a bound in the runs, and the proofs hold for any number of such.
The parameters that only the evaluation sets are left out.

### Run

| Run | Bounds | Shows |
|---|---|---|
| `RetrievalAnswers` | 3 notes in 3 projects, 2 providers, a pool of 3, 5 queries, 5 frontmatters; 2 writes beside the plain query; 1 write and a day, or 1 and a fault, beside any; 1 write and a vector leg that strays beside the plain one; 3 writes and 2 days beside none | hits pass the filter; as-of filters are that day's belief; a fallback loses only at the limit; an undisturbed answer depends on content and the vector legs alone; stale referrers come last |

The pool is smaller than the number of chunks, so legs are cut; the texts have
their terms in one chunk, spread over two, and in part, some say one term often, and
one note is kept from matching as a whole by a section of its own, so that each
fallback is taken and left.  `AnswerFromContent` compares with one evaluation of the
same pipeline over the same notes with all ids minted alike and the vector legs as
they were returned: what it rules out is that ids, the order of indexing or the
order of the legs matter to anything but the vector index.

`AsOfAsBelieved` is about the days that a note's frontmatter was not written after:
what was falsified, archived or edited by calls and runs since is judged by its
status then.  A file that replaces the note's frontmatter takes the earlier days
with it.  `FallbackKeeps` is about notes that match as a whole; a note that does not
(a negated term in another section) is not found at note level, and what the
disjunction then returns may be longer without it.  The run reaches legs that are
full and have lost something (section 10).

### Theorems (RetrievalProofs, RetrievalContentProofs)

`IInv` has three parts: the types of the index; what the query has found (`Asked`:
every leg is a list of at most `Pool` chunks that were offered, and while the query
runs its filter lets nothing through that was not offered); and what a row tells of
the days before (`Dated`).

1. **`TypeCorrect`**.  The work is in the rankings.  `Ranked` shows that in a finite
   set in a strict order, something comes k-th for every k: the number of those
   ahead is an injection of the set into as many numbers, hence onto them.  So
   `Sorted` lists members of its set, whatever the scores, if what breaks the ties
   is a strict order (`SortedTyped`): paths and ordinals are one on the chunks of
   an index (`InPlaceOrders`), first appearance is one on what the legs found
   (`SoonerOrders`), places are one in a list.  Scores are integers because sums
   over legs and powers of two are (`StepsExist`, `StepsTyped`).
2. **`OnlyWhatWasOffered`**: `HitsWereOffered`.  Fusion, the three discounts and the
   cut list only what the legs found (`HitsFound`); each leg finds what the filter
   lets through when its statement runs; and a chunk once offered stays so.
3. **`BeliefOfTheDay`**: `AsOfAsBelieved`.  `Dated` is the reason: since its
   frontmatter was written a note is shelved at most once, on a day it keeps, so its
   row determines its status on every day since (`told`).  It assumes of the index
   that it starts with no rows of days to come; files may bring any.
4. **`ContentDecides`**: `AnswerFromContent`.  The proof has two halves.  One is
   about rankings: `Renamed` gives a chunk the id it has in `Alike(row)`, and every
   operator of the pipeline commutes with it.  `SortedRenamed` is the reason: what
   `Sorted` puts at a place is what has as many ahead of it, so a one-to-one
   renaming that keeps scores and ties keeps the places.  A leg's scores and ties
   are made of content, paths and ordinals, which ids do not enter
   (`SortedLegLike`, `GraphLegLike`); a chunk's shares, sum and first appearance
   are the renamed chunk's (`RrfLike`, `SoonerLike`), and each discount multiplies
   by a factor of the note (`DiscountsLike`).  It needs that no two chunks of one
   index have the same note and ordinal (`ChunkRenamed`), and it would fail for a
   tie that an id breaks.  The other half is an invariant,
   `Quietly`, that holds beside `IInv`: while nothing is written, the keyword and
   graph legs are what they would be at one moment, whichever came first, what the
   fallbacks hold is what `KeywordLeg` would have at that stage, and each vector leg
   is any that the index may return (`VectorLegs`), which the renamed query is given
   too.
5. **`FallbacksKeepWithinPool`**: `FallbackKeeps`, for any ranks.  What the first
   statement found, the filter still lets through and matches as a whole
   (`Standing`) is what it was (`Intact`), as a chunk that is written anew has a new
   id; so it is among what each fallback's statement sorts.  A statement that
   returns fewer than `Pool` chunks returns all it sorts (`FullOrAll`), and a longer
   list only takes the place of a shorter (`LongerHolds`).  With a full leg anything
   may be lost.
6. **`StaleLast`**: `StaleComesLast`.  A chunk that a primary leg found has at least
   the last rank's share of one leg (`RrfBounds`); a stale chunk has at most 0.15
   of the first rank's share in every leg (`PenaltyParts`).  `FewLegs` says that
   the latter is less, and is about constants only.  A sort by score then puts the
   one kind before the other (`Apart`), an even bias keeps it so (`EvenBiasKeeps`),
   and the discount for repeats disturbs only what is not its note's first hit
   (`DiversityKeeps`).

   `FewLegs` is 3 (2 P + 3) (60 + Pool) < 40 * 61 for P providers.  With the code's
   pool of 50 it holds for the one provider of a settled vault (1650 < 2440) and
   for the two of a migration (2310 < 2440), and for the run's two and its pool of
   3.  It does not for three (2970): a retired provider stays registered until it
   is pruned, so a second migration makes three, and then a stale chunk that is
   first in every leg can outrank one that is last in a single leg.

They assume finitely many notes, that `None` is none of them, and that
the index starts with the first ids it ever minted.

## 10. Known deviations

Besides the findings above, the models show these; the properties are stated so
that they leave them out, and no document of the repository promises otherwise
unless it is quoted here.

- A move whose index step fails (an embedding call that times out is enough) has
  written its destination and lets go of both locks with the note at both paths
  (lifecycle/io.go:154), although :126-129 wants both locks so that no such state
  is ever exposed.  Walk then refuses the vault for its duplicate id until a hand
  removes one of the files.  (VaultWriters, Lifecycle.)
- Restoring the old path of a note that has been archived since gives two files
  one id (vault/history_recovery.go:170); vault.go:264 says that ids are never
  reused, and Walk refuses the vault.  (VaultWriters.)
- A rollback between the worker's flip and its finish finds the row in progress
  and only marks it; the new provider stays active, and a second rollback is
  refused (migrate/worker.go:90; migrate.go:152-154 says that mid-migration the
  active provider never moved).  (Migration.)
- A removal, a rename, a compile rewrite and a move repair no referrers; a repair
  that a crash or failure cuts short is not made up for, and a qualified or
  aliased reference to a note that arrives later is not found (indexer.go:130).
  `audit` finds all of these.  (LinkGraph.)
- A call that indexes a note between another's resolution and its commit leaves
  an edge to what the name meant before, until the note is indexed again
  (indexer.go:99-103).  (LinkGraph.)
- A repair passes over the paths of its own batch (indexer.go:155).  A note that
  another indexer has put at one of them in the meantime, and that mentions the
  name that has just arrived, is passed over with them.  (LinkGraph; met in the
  proof of `GraphConverges`, and in the run once a note may be renamed there.)
- A file that replaces another note at its path under a new id, and refers to its
  own basename, resolves to the row that its own transaction evicts: the foreign
  key refuses the note (indexer.go:99) at every sweep.  (LinkGraph.)
- At shutdown the MCP server gives its calls 5 s (mcpserver.go:301) and the
  daemon waits up to 15 s for its runners only; a call that is still writing after
  5 s outlives the advisory lock, and nothing warns of it.  (Serving.)
- An insert of the local token that commits while its answer is lost removes the
  token's file (auth.go:236): every later start is refused until the token is
  revoked by hand, as its message says.  (Serving.)
- A start that took a pid file over before its writer had put its pid in, and is
  then refused the advisory lock, removes the file on its way out (lock.go:56);
  the daemon that runs is then unknown to `stop` and `status`.  (Serving.)
- A second note of a basename that is due for archival collides in `archive/` and
  ends every run there (io.go:135); a note whose file a hand has deleted during
  the run counts as unchanged (io.go:58) and is written anew.  (Lifecycle; the
  deletion only in the code.)
- A compile run that fails has written earlier notes, and returns no report, no
  log entry and no commit (run.go:260).  (Lifecycle.)
- A note whose stability a run reconstructs is decided on by that value and, from
  the next run on, by the two decimals of it that were stored; at a boundary the
  next run moves it once more (run.go:234; :212-213 calls the recalibration "a one-time
  realignment").  (Lifecycle, `Wavers`.)
- The disjunction's result takes the keyword leg's place when it is longer.  It is
  ranked by `ts_rank_cd`, which adds up every occurrence of any term, and cut at the
  pool, so as many chunks as the pool holds that repeat one term can push out the one
  chunk that the conjunction had found (query.go:592, query_legs.go:195-200;
  query.go:566-567 and architecture.md:151-152 say that it "can only add to recall").
  (Retrieval, `FallbackKeeps`.)
- A version from before a falsification that is written back (restore_note, a hand)
  brings its status and dates with it, and as of a day on which the note was
  falsified the filter lets it through (store/notes.go:85; tools.go:39 promises "what
  the KB believed at that instant" for all but content).  (Retrieval, `told`.)
- The hint counts falsified notes by their status of now (query_legs.go:473): as of
  a time before its falsification a note is returned and counted as excluded in one
  answer (tools.go:181).  (Retrieval, `Hint`.)

## 11. What is proved, and what is only checked

Proved for all values of the constants, under the assumptions each module names:

| Module | Theorems |
|---|---|
| VaultWriters | type correctness, exclusion, suppression, unique rows, lost-update freedom, refinement of VaultStore |
| Migration | type correctness, terminal states, counters, coverage |
| History | type correctness, `NothingLost`, `Recorded`, `Erased`, `OwnCommit` (all but the first while commands and daemon keep apart) |
| LinkGraph | type correctness, `GraphAsImplied`, `InboundSurvives` |
| Serving | type correctness, `WorkUnderLock`, `LocalTokenWorks`, `LiveTokenIsHeld` |
| Lifecycle | type correctness, `ReportIsTrue`, `AsTimed`, `Forewarned`, `ShieldedIsInert`, `Idempotent`, `EarnedStability` |
| Retrieval | type correctness, `HitsWereOffered`, `AsOfAsBelieved`, `AnswerFromContent` (given what the vector indexes return), `FallbackKeeps`, `StaleComesLast` (for `FewLegs`) |

Only model-checked, on the instances above:

- every liveness property (`CallsEnd`, `RunsEnd`, `EventuallyInSync`,
  `MigrationsEnd`, `StopsOrServes`): fairness is about ENABLED, for which the
  prover has no rule.

The library's induction theorems take an operator as their argument, which the
provers cannot instantiate.  Where a proof needs induction over the naturals
(Lifecycle's powers, Retrieval's sums and halvings, the first of several paths) it takes a least
counterexample from `WFMin` and `NatLessThanWellFounded` instead.

Sizes: the largest run has about 2.2 million states, and each stops within two
minutes on two cores.  Deadlock is checked where a behaviour may always go on
(VaultWriters); elsewhere a behaviour ends when its bounds are used up.

## 12. Not modelled

The note contract (parsing, validation, frontmatter), the chunker, the embedding
clients, configuration, personas, the command line's flags and output and the
measurement harness have no concurrent state: they are functions of their input,
and their failures appear as faults of those who call them.  Of the MCP server,
dispatch, formatting and the tools that only read are left out; of
authentication, hashing and the named tokens an operator makes; of the daemon,
the detaching of a background start and the time `stop` waits for the exit; of
retrieval, the evaluation's parameters and graph hops beyond the one that is
shipped.
