------------------------------ MODULE History ------------------------------
(***************************************************************************)
(* The vault's history: a git repository inside the vault, written by      *)
(* CommitAll and rewritten by PurgePath.                                   *)
(*                                                                         *)
(* Each git call is a step.  The goroutines of the daemon that commit      *)
(* (handlers, the compile run, the watcher) share gitIndexMu; a command of *)
(* the operator is a process of its own, with a gitIndexMu of its own.     *)
(* Files are written without it.                                           *)
(*                                                                         *)
(* A branch is the sequence of its commits, so that a commit's parents are *)
(* what precedes it; commits no branch reaches do not appear.  A content   *)
(* is a version.                                                           *)
(***************************************************************************)
EXTENDS Integers, Sequences

CONSTANTS
  Notes,        \* note files
  Log,          \* log.md
  Writers,      \* goroutines of the daemon that may commit together
  Cli,          \* the operator's command; one at a time
  None,
  Overlap,      \* whether a command and the daemon may run at one time
  MaxVersions,  \* bound: contents ever written
  MaxCalls,     \* bound: writes, restores, commits of drift and deletions
  MaxFaults,    \* bound: git calls that fail, and commands broken off
  MaxCrashes    \* bound: crashes of the daemon

Files    == Notes \cup {Log}
Versions == 1 .. MaxVersions
Tasks    == Writers \cup {Cli}

ASSUME NamesAssumption ==
  /\ Cli \notin Writers
  /\ None \notin Files \cup Tasks \cup Nat
  /\ Overlap \in BOOLEAN

ASSUME BoundsAssumption ==
  /\ MaxVersions \in Nat
  /\ MaxCalls \in Nat
  /\ MaxFaults \in Nat
  /\ MaxCrashes \in Nat

VARIABLES
  disk,      \* the vault's files
  fresh,     \* the next version
  head,      \* the branch
  original,  \* filter-branch's backup of the branch, empty if there is none
  index,     \* the repository's index
  stuck,     \* a killed git call has left .git/index.lock behind
  mutex,     \* the daemon's goroutine that holds gitIndexMu
  task,      \* calls of CommitAll, with the write before
  del,       \* note delete --hard
  up,        \* the daemon runs
  erased,    \* history variable: the versions deleted for good
  budget     \* what is left of the bounds

repo == <<head, original, index, stuck>>
vars == <<disk, fresh, repo, mutex, task, del, up, erased, budget>>

-----------------------------------------------------------------------------
NoFiles == [f \in Files |-> None]

TreeOf(branch) == IF branch = <<>> THEN NoFiles ELSE branch[Len(branch)].tree

(* The versions of f that branch has.                                      *)
Held(branch, f) == {branch[i].tree[f] : i \in DOMAIN branch} \ {None}

IdleTask == [pc |-> "idle", path |-> None, ver |-> 0, new |-> FALSE, base |-> <<>>,
             tree |-> NoFiles, overtaken |-> FALSE, swept |-> FALSE]

IdleDelete == [pc |-> "idle", path |-> None, tries |-> 0, base |-> <<>>, gone |-> {},
               held |-> {}]

Spend(what) == budget[what] > 0 /\ budget' = [budget EXCEPT ![what] = @ - 1]

(* A call that has written its file and not yet staged it.                 *)
Unstaged(s) == s.pc \in {"lock", "head", "stage"}

(* What the calls in flight are after a write of f that is not theirs.     *)
Overtaken(f) ==
  [t \in Tasks |-> IF task[t].path = f /\ Unstaged(task[t])
                   THEN [task[t] EXCEPT !.overtaken = TRUE] ELSE task[t]]

-----------------------------------------------------------------------------
(* Whoever commits has written before, or found what others wrote.  The    *)
(* path lock keeps two goroutines from one path until both have committed. *)

May(t) ==
  /\ task[t].pc = "idle"
  /\ IF t = Cli THEN del.pc = "idle" /\ (Overlap \/ ~up) ELSE up

PathFree(t, f) == t = Cli \/ \A w \in Writers \ {t} : task[w].path # f

Begun(f, v, isNew) == [IdleTask EXCEPT !.pc = "lock", !.path = f, !.ver = v, !.new = isNew]

(* write_note, edit_note.                                                  *)
WriteFile(w, f) ==
  /\ May(w)
  /\ PathFree(w, f)
  /\ fresh <= MaxVersions
  /\ Spend("calls")
  /\ disk' = [disk EXCEPT ![f] = fresh]
  /\ fresh' = fresh + 1
  /\ task' = [Overtaken(f) EXCEPT ![w] = Begun(f, fresh, TRUE)]
  /\ UNCHANGED <<repo, mutex, del, up, erased>>

(* Restore: the tool, or the command that writes the vault directly.       *)
RestoreFile(t, f) ==
  /\ May(t)
  /\ PathFree(t, f)
  /\ Spend("calls")
  /\ \E v \in Held(head, f) :
       /\ disk' = [disk EXCEPT ![f] = v]
       /\ task' = [Overtaken(f) EXCEPT ![t] = Begun(f, v, FALSE)]
  /\ UNCHANGED <<fresh, repo, mutex, del, up, erased>>

(* The watcher, a reconciliation, the end of a compile run.                *)
CommitDrift(w) ==
  /\ May(w)
  /\ Spend("calls")
  /\ task' = [task EXCEPT ![w] = Begun(None, 0, FALSE)]
  /\ UNCHANGED <<disk, fresh, repo, mutex, del, up, erased>>

(* A hand, or a compile run before it commits, changes a file.             *)
Edit(f) ==
  /\ \/ fresh <= MaxVersions /\ disk' = [disk EXCEPT ![f] = fresh] /\ fresh' = fresh + 1
     \/ disk[f] # None /\ disk' = [disk EXCEPT ![f] = None] /\ UNCHANGED fresh
  /\ Spend("calls")
  /\ task' = Overtaken(f)
  /\ UNCHANGED <<repo, mutex, del, up, erased>>

-----------------------------------------------------------------------------
(* CommitAll.                                                              *)

(* Mutant: every goroutine has a mutex of its own.                         *)
LockOwn(t) ==
  /\ task[t].pc = "lock"
  /\ mutex' = IF t = Cli THEN mutex ELSE t
  /\ task' = [task EXCEPT ![t].pc = "head"]
  /\ UNCHANGED <<disk, fresh, repo, del, up, erased, budget>>

Lock(t) ==
  /\ task[t].pc = "lock"
  /\ IF t = Cli THEN UNCHANGED mutex ELSE mutex = None /\ mutex' = t
  /\ task' = [task EXCEPT ![t].pc = "head"]
  /\ UNCHANGED <<disk, fresh, repo, del, up, erased, budget>>

Unlocked(t) == IF t = Cli THEN mutex ELSE None

ReadHead(t) ==
  /\ task[t].pc = "head"
  /\ task' = [task EXCEPT ![t].pc = "stage", ![t].base = head]
  /\ UNCHANGED <<disk, fresh, repo, mutex, del, up, erased, budget>>

(* read-tree and add into the scratch index: the snapshot.                 *)
Stage(t) ==
  /\ task[t].pc = "stage"
  /\ task' = [u \in Tasks |->
                IF u = t THEN [task[t] EXCEPT !.pc = "tree", !.tree = disk]
                ELSE [task[u] EXCEPT !.swept = @ \/ Unstaged(task[u])]]
  /\ UNCHANGED <<disk, fresh, repo, mutex, del, up, erased, budget>>

(* Mutant: emptiness judged by the repository's index, as git status does. *)
NothingToCommitByIndex(t) ==
  /\ task[t].pc = "tree"
  /\ task[t].tree = TreeOf(task[t].base) \/ task[t].tree = index
  /\ mutex' = Unlocked(t)
  /\ task' = [task EXCEPT ![t].pc = "done"]
  /\ UNCHANGED <<disk, fresh, repo, del, up, erased, budget>>

(* The tree is the parent's: no commit, and the index stays as it is.      *)
NothingToCommit(t) ==
  /\ task[t].pc = "tree"
  /\ task[t].tree = TreeOf(task[t].base)
  /\ mutex' = Unlocked(t)
  /\ task' = [task EXCEPT ![t].pc = "done"]
  /\ UNCHANGED <<disk, fresh, repo, del, up, erased, budget>>

(* Mutant: a partial commit, which takes the files as they are by now.     *)
UpdateRefLive(t) ==
  /\ task[t].pc = "tree"
  /\ task[t].tree # TreeOf(task[t].base)
  /\ head' = Append(task[t].base, [tree |-> disk, subject |-> task[t].path])
  /\ task' = [task EXCEPT ![t].pc = "index"]
  /\ UNCHANGED <<disk, fresh, original, index, stuck, mutex, del, up, erased, budget>>

(* commit-tree on the head that was read, and update-ref, which does not   *)
(* compare.                                                                *)
UpdateRef(t) ==
  /\ task[t].pc = "tree"
  /\ task[t].tree # TreeOf(task[t].base)
  /\ head' = Append(task[t].base, [tree |-> task[t].tree, subject |-> task[t].path])
  /\ task' = [task EXCEPT ![t].pc = "index"]
  /\ UNCHANGED <<disk, fresh, original, index, stuck, mutex, del, up, erased, budget>>

(* The repository's index follows, from the files as they are by now.      *)
AddIndex(t) ==
  /\ task[t].pc = "index"
  /\ ~stuck
  /\ index' = disk
  /\ mutex' = Unlocked(t)
  /\ task' = [task EXCEPT ![t].pc = "done"]
  /\ UNCHANGED <<disk, fresh, head, original, stuck, del, up, erased, budget>>

(* Mutant: an error path that keeps the mutex.                             *)
GitFailsLocked(t) ==
  /\ task[t].pc \in {"head", "stage", "tree", "index"}
  /\ \/ Spend("faults") /\ UNCHANGED stuck
     \/ Spend("faults") /\ task[t].pc = "index" /\ stuck' = TRUE
     \/ task[t].pc = "index" /\ stuck /\ UNCHANGED <<stuck, budget>>
  /\ task' = [task EXCEPT ![t] = IdleTask]
  /\ del' = IF t = Cli THEN IdleDelete ELSE del
  /\ UNCHANGED <<disk, fresh, head, original, index, mutex, up, erased>>

(* A call fails, or is killed with its context; killed while it holds the  *)
(* index it leaves its lock file, and every later call finds it.           *)
GitFails(t) ==
  /\ task[t].pc \in {"head", "stage", "tree", "index"}
  /\ \/ Spend("faults") /\ UNCHANGED stuck
     \/ Spend("faults") /\ task[t].pc = "index" /\ stuck' = TRUE
     \/ task[t].pc = "index" /\ stuck /\ UNCHANGED <<stuck, budget>>
  /\ mutex' = Unlocked(t)
  /\ task' = [task EXCEPT ![t] = IdleTask]
  /\ del' = IF t = Cli THEN IdleDelete ELSE del
  /\ UNCHANGED <<disk, fresh, head, original, index, up, erased>>

(* The path lock is released.                                              *)
Return(t) ==
  /\ task[t].pc = "done"
  /\ t = Cli => del.pc = "idle"
  /\ task' = [task EXCEPT ![t] = IdleTask]
  /\ UNCHANGED <<disk, fresh, repo, mutex, del, up, erased, budget>>

CommitStep(t) ==
  Lock(t) \/ ReadHead(t) \/ Stage(t) \/ NothingToCommit(t) \/ UpdateRef(t) \/ AddIndex(t)
    \/ GitFails(t) \/ Return(t)

-----------------------------------------------------------------------------
(* hardDelete: PurgePath first, then the file, the log and a last commit.  *)

DeleteBegin(f) ==
  /\ May(Cli)
  /\ Spend("calls")
  /\ del' = [pc |-> "commit", path |-> f, tries |-> 1, base |-> <<>>, gone |-> {},
             held |-> Held(head, f)]
  /\ task' = [task EXCEPT ![Cli] = Begun(None, 0, FALSE)]
  /\ UNCHANGED <<disk, fresh, repo, mutex, up, erased>>

(* What a failed attempt leaves: the next one, or none.                    *)
Again(d) == IF d.tries < 3 THEN [d EXCEPT !.pc = "commit", !.tries = @ + 1]
            ELSE [d EXCEPT !.pc = "gaveup"]

RetriesCommit(d) == IF Again(d).pc = "commit" THEN Begun(None, 0, FALSE) ELSE IdleTask

(* What filter-branch takes for a clean tree; untracked files do not count. *)
Clean == /\ head # <<>>
         /\ index = TreeOf(head)
         /\ \A f \in Files : index[f] # None => disk[f] = index[f]

FilterStart ==
  /\ del.pc = "commit"
  /\ task[Cli].pc = "done"
  /\ IF Clean
     THEN /\ del' = [del EXCEPT !.pc = "filter", !.base = head]
          /\ task' = [task EXCEPT ![Cli] = IdleTask]
     ELSE /\ del' = Again(del)
          /\ task' = [task EXCEPT ![Cli] = RetriesCommit(del)]
  /\ UNCHANGED <<disk, fresh, repo, mutex, up, erased, budget>>

(* The branch with f removed from every commit.  Commits that became empty *)
(* are kept as repetitions, which nothing here tells apart; a branch of    *)
(* nothing else is deleted.                                                *)
Purged(branch, f) ==
  IF \A i \in DOMAIN branch, g \in Files \ {f} : branch[i].tree[g] = None THEN <<>>
  ELSE [i \in DOMAIN branch |-> [branch[i] EXCEPT !.tree[f] = None]]

(* filter-branch moves the branch if it is still where it was, backs it    *)
(* up, and then brings index and files to the new head, which needs the    *)
(* index's lock, a head, and that it overwrites no change.                 *)
FilterEnd ==
  LET f   == del.path
      new == Purged(head, del.path)
      d   == [del EXCEPT !.gone = @ \cup Held(head, del.path)]
      changed == {g \in Files : index[g] # TreeOf(Purged(head, del.path))[g]} IN
  /\ del.pc = "filter"
  /\ IF head # del.base
     THEN /\ del' = Again(del)
          /\ task' = [task EXCEPT ![Cli] = RetriesCommit(del)]
          /\ UNCHANGED <<disk, repo>>
     ELSE /\ head' = new
          /\ original' = IF new = head THEN <<>> ELSE head
          /\ IF new # <<>> /\ ~stuck /\ \A g \in changed : disk[g] = index[g]
             THEN /\ index' = TreeOf(new)
                  /\ disk' = [g \in Files |-> IF g \in changed THEN TreeOf(new)[g] ELSE disk[g]]
                  /\ del' = [d EXCEPT !.pc = "expire"]
                  /\ UNCHANGED task
             ELSE /\ del' = Again(d)
                  /\ task' = [task EXCEPT ![Cli] = RetriesCommit(d)]
                  /\ UNCHANGED <<disk, index>>
          /\ UNCHANGED stuck
  /\ UNCHANGED <<fresh, mutex, up, erased, budget>>

(* Mutant: a purge that leaves the backup.                                 *)
ExpireKept ==
  /\ del.pc = "expire"
  /\ erased' = erased \cup del.gone
  /\ del' = [del EXCEPT !.pc = "remove"]
  /\ UNCHANGED <<disk, fresh, repo, mutex, task, up, budget>>

(* The backup is removed, and gc drops what no branch reaches.             *)
Expire ==
  /\ del.pc = "expire"
  /\ original' = <<>>
  /\ erased' = erased \cup del.gone
  /\ del' = [del EXCEPT !.pc = "remove"]
  /\ UNCHANGED <<disk, fresh, head, index, stuck, mutex, task, up, budget>>

(* The row, the file, and the lines of log.md that name the note.          *)
Remove ==
  /\ del.pc = "remove"
  /\ \/ disk' = [disk EXCEPT ![del.path] = None] /\ UNCHANGED fresh
     \/ /\ disk[Log] # None
        /\ fresh <= MaxVersions
        /\ disk' = [disk EXCEPT ![del.path] = None, ![Log] = fresh]
        /\ fresh' = fresh + 1
  /\ del' = [del EXCEPT !.pc = "final"]
  /\ task' = [task EXCEPT ![Cli] = Begun(None, 0, FALSE)]
  /\ UNCHANGED <<repo, mutex, up, erased, budget>>

DeleteEnd ==
  /\ del.pc = "gaveup" \/ (del.pc = "final" /\ task[Cli].pc = "done")
  /\ del' = IdleDelete
  /\ task' = [task EXCEPT ![Cli] = IdleTask]
  /\ UNCHANGED <<disk, fresh, repo, mutex, up, erased, budget>>

DeleteBrokenOff ==
  /\ del.pc \in {"filter", "expire", "remove"}
  /\ Spend("faults")
  /\ del' = IdleDelete
  /\ UNCHANGED <<disk, fresh, repo, mutex, task, up, erased>>

DeleteStep == FilterStart \/ FilterEnd \/ Expire \/ Remove \/ DeleteEnd \/ DeleteBrokenOff

-----------------------------------------------------------------------------
(* The daemon.                                                             *)

Down(killed) ==
  /\ up
  /\ up' = FALSE
  /\ mutex' = None
  /\ task' = [t \in Tasks |-> IF t = Cli THEN task[t] ELSE IdleTask]
  /\ stuck' \in {stuck, killed}
  /\ UNCHANGED <<disk, fresh, head, original, index, del, erased>>

Stop  == (\A w \in Writers : task[w].pc = "idle") /\ Down(stuck) /\ UNCHANGED budget

Crash == Spend("crashes") /\ Down(stuck \/ \E w \in Writers : task[w].pc = "index")

Boot ==
  /\ ~up
  /\ Overlap \/ (task[Cli].pc = "idle" /\ del.pc = "idle")
  /\ up' = TRUE
  /\ UNCHANGED <<disk, fresh, repo, mutex, task, del, erased, budget>>

-----------------------------------------------------------------------------
Init ==
  /\ disk = NoFiles
  /\ fresh = 1
  /\ head = <<>>
  /\ original = <<>>
  /\ index = NoFiles
  /\ stuck = FALSE
  /\ mutex = None
  /\ task = [t \in Tasks |-> IdleTask]
  /\ del = IdleDelete
  /\ up = TRUE
  /\ erased = {}
  /\ budget = [calls |-> MaxCalls, faults |-> MaxFaults, crashes |-> MaxCrashes]

Next ==
  \/ \E w \in Writers, f \in Notes : WriteFile(w, f)
  \/ \E t \in Tasks, f \in Notes : RestoreFile(t, f)
  \/ \E w \in Writers : CommitDrift(w)
  \/ \E f \in Files : Edit(f)
  \/ \E t \in Tasks : CommitStep(t)
  \/ \E f \in Notes : DeleteBegin(f)
  \/ DeleteStep
  \/ Stop \/ Crash \/ Boot

Spec == Init /\ [][Next]_vars

-----------------------------------------------------------------------------
Trees    == [Files -> Versions \cup {None}]
Branches == Seq([tree : Trees, subject : Notes \cup {None}])

TaskStates ==
  [pc : {"idle", "lock", "head", "stage", "tree", "index", "done"},
   path : Notes \cup {None}, ver : Versions \cup {0}, new : BOOLEAN,
   base : Branches, tree : Trees, overtaken : BOOLEAN, swept : BOOLEAN]

DeleteStates ==
  [pc : {"idle", "commit", "filter", "gaveup", "expire", "remove", "final"},
   path : Notes \cup {None}, tries : 0 .. 3, base : Branches,
   gone : SUBSET Versions, held : SUBSET Versions]

(* The mutex is held by a goroutine that is inside CommitAll, so that the  *)
(* next one gets in whatever happens to it.                                *)
MutexHeldInside ==
  \A w \in Writers : mutex = w <=> task[w].pc \in {"head", "stage", "tree", "index"}

(* Types, and the mutex.                                                   *)
TypeOK ==
  /\ disk \in Trees /\ index \in Trees
  /\ fresh \in 1 .. MaxVersions + 1
  /\ head \in Branches /\ original \in Branches
  /\ stuck \in BOOLEAN /\ up \in BOOLEAN
  /\ mutex \in Writers \cup {None}
  /\ MutexHeldInside
  /\ task \in [Tasks -> TaskStates]
  /\ del \in DeleteStates /\ (del.pc # "idle" => del.path \in Notes)
  /\ erased \subseteq Versions
  /\ budget \in [calls : Nat, faults : Nat, crashes : Nat]

(* History moves forward: no commit of one writer drops what another's has *)
(* recorded, and a purge drops the versions of its path alone              *)
(* (history.go, gitIndexMu; history_recovery.go, PurgePath).               *)
NothingLost ==
  [][\A f \in Files : Held(head, f) \subseteq Held(head', f)
                        \/ (del.pc = "filter" /\ f = del.path)]_vars

(* A write that has been answered is in the history, unless somebody wrote *)
(* the file again before the snapshot (history.go, CommitAll: nothing to   *)
(* record must mean that it is recorded).                                  *)
Recorded ==
  \A t \in Tasks : task[t].pc = "done" /\ task[t].path # None /\ ~task[t].overtaken =>
    task[t].ver \in Held(head, task[t].path)

(* A file that lands after another's snapshot stays pending for its own    *)
(* writer: the first commit that has it names it (history.go, CommitAll,   *)
(* "a snapshot, not a live read").                                         *)
OwnCommit ==
  \A t \in Tasks :
    LET s == task[t] IN
    s.pc = "done" /\ s.new /\ ~s.overtaken /\ ~s.swept =>
      \E i \in DOMAIN head : /\ head[i].tree[s.path] = s.ver
                             /\ head[i].subject = s.path
                             /\ \A j \in 1 .. i - 1 : head[j].tree[s.path] # s.ver

(* What was deleted for good is in no commit that a branch or a backup     *)
(* reaches (history_recovery.go: erasure that leaves the content           *)
(* recoverable from history is not erasure).                               *)
Erased ==
  \A f \in Files : (Held(head, f) \cup Held(original, f)) \cap erased = {}

-----------------------------------------------------------------------------
(* Claims of the repository that the code does not keep.                   *)

(* history_recovery.go, PurgePath: it gives up having destroyed nothing,    *)
(* and the message says that nothing has been deleted.  So what the branch *)
(* had of the note when the deletion began, the branch or its backup still *)
(* has.                                                                    *)
DestroysNothing ==
  del.pc = "gaveup" => del.held \subseteq Held(head, del.path) \cup Held(original, del.path)

=============================================================================
