--------------------------- MODULE HistoryProofs ---------------------------
(***************************************************************************)
(* Theorems about History for every set of notes and writers and every     *)
(* bound.  Type correctness holds always; the others hold when commands    *)
(* and daemon keep apart, which is what the commands check for.            *)
(***************************************************************************)
EXTENDS History, SequenceTheorems, TLAPS

-----------------------------------------------------------------------------
(* What a branch has.                                                      *)

Commits == [tree : Trees, subject : Notes \cup {None}]

(* A branch is a sequence of commits, of which each has a tree.            *)
LEMMA BranchTyped ==
  ASSUME NEW b \in Branches
  PROVE  /\ Len(b) \in Nat
         /\ DOMAIN b = 1 .. Len(b)
         /\ \A i \in DOMAIN b : b[i] \in Commits /\ b[i].tree \in Trees
         /\ b # <<>> => Len(b) \in DOMAIN b
<1>1. b \in Seq(Commits)
  BY DEF Branches, Commits
<1>. HIDE DEF Commits
<1>2. Len(b) \in Nat /\ DOMAIN b = 1 .. Len(b) /\ \A i \in DOMAIN b : b[i] \in Commits
  BY <1>1
<1>3. \A i \in DOMAIN b : b[i].tree \in Trees
  BY <1>2 DEF Commits
<1>4. b # <<>> => Len(b) \in DOMAIN b
  BY <1>1, <1>2, EmptySeq
<1>. QED  BY <1>2, <1>3, <1>4

(* A branch holds versions only.                                           *)
LEMMA HeldVersions ==
  ASSUME NEW b \in Branches, NEW f \in Files
  PROVE  Held(b, f) \subseteq Versions
BY BranchTyped DEF Held, Trees

(* The tree of a branch.                                                   *)
LEMMA TreeOfTyped ==
  ASSUME NEW b \in Branches
  PROVE  TreeOf(b) \in Trees
<1>1. NoFiles \in Trees
  BY DEF NoFiles, Trees
<1>. QED  BY <1>1, BranchTyped DEF TreeOf

(* What the tree has, the branch holds.                                    *)
LEMMA TreeHeld ==
  ASSUME NEW b \in Branches, NEW f \in Files, TreeOf(b)[f] # None
  PROVE  TreeOf(b)[f] \in Held(b, f)
<1>1. b # <<>>
  BY DEF TreeOf, NoFiles
<1>. QED  BY <1>1, BranchTyped DEF TreeOf, Held

(* A commit adds what its tree has and drops nothing.                      *)
LEMMA AppendHeld ==
  ASSUME NEW b \in Branches, NEW c \in Commits, NEW f \in Files
  PROVE  /\ Append(b, c) \in Branches
         /\ Held(b, f) \subseteq Held(Append(b, c), f)
         /\ c.tree[f] # None => c.tree[f] \in Held(Append(b, c), f)
<1>1. Append(b, c) \in Branches
  BY DEF Branches, Commits
<1>2. /\ DOMAIN Append(b, c) = 1 .. Len(b) + 1
      /\ \A i \in 1 .. Len(b) : Append(b, c)[i] = b[i]
      /\ Append(b, c)[Len(b) + 1] = c
  BY DEF Branches, Commits
<1>3. DOMAIN b = 1 .. Len(b) /\ Len(b) \in Nat
  BY DEF Branches
<1>4. Held(b, f) \subseteq Held(Append(b, c), f)
  BY <1>2, <1>3 DEF Held
<1>5. c.tree[f] # None => c.tree[f] \in Held(Append(b, c), f)
  BY <1>2, <1>3 DEF Held
<1>. QED  BY <1>1, <1>4, <1>5

(* And it adds nothing else.                                               *)
LEMMA AppendOnly ==
  ASSUME NEW b \in Branches, NEW c \in Commits, NEW f \in Files
  PROVE  /\ Held(Append(b, c), f) \subseteq Held(b, f) \cup ({c.tree[f]} \ {None})
         /\ TreeOf(Append(b, c)) = c.tree
<1>1. /\ DOMAIN Append(b, c) = 1 .. Len(b) + 1
      /\ \A i \in 1 .. Len(b) : Append(b, c)[i] = b[i]
      /\ Append(b, c)[Len(b) + 1] = c
      /\ Len(Append(b, c)) = Len(b) + 1
      /\ Append(b, c) # <<>>
  BY DEF Branches, Commits
<1>2. DOMAIN b = 1 .. Len(b) /\ Len(b) \in Nat
  BY DEF Branches
<1>3. \A i \in 1 .. Len(b) + 1 : i \in 1 .. Len(b) \/ i = Len(b) + 1
  BY <1>2
<1>4. Held(Append(b, c), f) \subseteq Held(b, f) \cup ({c.tree[f]} \ {None})
  BY <1>1, <1>2, <1>3 DEF Held
<1>. QED  BY <1>1, <1>4 DEF TreeOf

(* A purge keeps the branch well formed and drops its path alone.          *)
Without(b, f) == [i \in DOMAIN b |-> [b[i] EXCEPT !.tree[f] = None]]

LEMMA WithoutTyped ==
  ASSUME NEW b \in Branches, NEW f \in Files
  PROVE  /\ Without(b, f) \in Branches
         /\ DOMAIN Without(b, f) = DOMAIN b
         /\ \A i \in DOMAIN b, g \in Files \ {f} : Without(b, f)[i].tree[g] = b[i].tree[g]
<1>1. \A i \in DOMAIN b : [b[i] EXCEPT !.tree[f] = None] \in Commits
  <2>1. SUFFICES ASSUME NEW i \in DOMAIN b
                 PROVE  [b[i] EXCEPT !.tree[f] = None] \in Commits
    OBVIOUS
  <2>2. b[i] \in Commits /\ b[i].tree \in Trees
    BY BranchTyped
  <2>. QED  BY <2>2 DEF Commits, Trees
<1>2. Without(b, f) \in [1 .. Len(b) -> Commits] /\ Len(b) \in Nat
  BY <1>1, BranchTyped DEF Without
<1>3. Without(b, f) \in Branches
  BY <1>2, SeqDef DEF Branches, Commits
<1>4. \A i \in DOMAIN b, g \in Files \ {f} : Without(b, f)[i].tree[g] = b[i].tree[g]
  <2>1. SUFFICES ASSUME NEW i \in DOMAIN b, NEW g \in Files \ {f}
                 PROVE  Without(b, f)[i].tree[g] = b[i].tree[g]
    OBVIOUS
  <2>2. b[i] \in Commits /\ b[i].tree \in Trees
    BY BranchTyped
  <2>3. Without(b, f)[i] = [b[i] EXCEPT !.tree[f] = None]
    BY DEF Without
  <2>. QED  BY <2>2, <2>3 DEF Commits, Trees
<1>. QED  BY <1>3, <1>4 DEF Without

LEMMA PurgedTyped ==
  ASSUME NEW b \in Branches, NEW f \in Files
  PROVE  Purged(b, f) \in Branches
<1>1. <<>> \in Branches
  BY DEF Branches
<1>. QED  BY <1>1, WithoutTyped DEF Purged, Without

LEMMA PurgedHeld ==
  ASSUME NEW b \in Branches, NEW f \in Files, NEW g \in Files, g # f
  PROVE  Held(b, g) \subseteq Held(Purged(b, f), g)
<1>1. CASE \A i \in DOMAIN b, h \in Files \ {f} : b[i].tree[h] = None
  BY <1>1 DEF Held
<1>2. CASE ~ \A i \in DOMAIN b, h \in Files \ {f} : b[i].tree[h] = None
  <2>1. Purged(b, f) = Without(b, f)
    BY <1>2 DEF Purged, Without
  <2>2. /\ DOMAIN Without(b, f) = DOMAIN b
        /\ \A i \in DOMAIN b : Without(b, f)[i].tree[g] = b[i].tree[g]
    BY WithoutTyped
  <2>. QED  BY <2>1, <2>2 DEF Held
<1>. QED  BY <1>1, <1>2

-----------------------------------------------------------------------------
(* Types.                                                                  *)

LEMMA StatesTyped ==
  /\ NoFiles \in Trees /\ <<>> \in Branches
  /\ IdleTask \in TaskStates /\ IdleTask.pc = "idle" /\ IdleTask.path = None
  /\ IdleDelete \in DeleteStates /\ IdleDelete.pc = "idle"
  /\ \A f \in Notes \cup {None}, v \in Versions \cup {0}, n \in BOOLEAN :
       Begun(f, v, n) \in TaskStates /\ Begun(f, v, n).pc = "lock"
<1>1. NoFiles \in Trees /\ <<>> \in Branches
  BY DEF NoFiles, Trees, Branches
<1>2. IdleTask \in TaskStates /\ IdleTask.pc = "idle" /\ IdleTask.path = None
  BY <1>1 DEF IdleTask, TaskStates
<1>3. IdleDelete \in DeleteStates /\ IdleDelete.pc = "idle"
  BY <1>1 DEF IdleDelete, DeleteStates
<1>4. ASSUME NEW f \in Notes \cup {None}, NEW v \in Versions \cup {0}, NEW n \in BOOLEAN
      PROVE  Begun(f, v, n) \in TaskStates /\ Begun(f, v, n).pc = "lock"
  BY <1>1 DEF IdleTask, TaskStates, Begun
<1>. QED  BY <1>1, <1>2, <1>3, <1>4

(* A write that overtakes changes nothing else about a call.               *)
LEMMA OvertakenTyped ==
  ASSUME task \in [Tasks -> TaskStates], NEW f
  PROVE  /\ Overtaken(f) \in [Tasks -> TaskStates]
         /\ \A t \in Tasks : Overtaken(f)[t].pc = task[t].pc
BY DEF Overtaken, TaskStates

LEMMA BudgetTyped ==
  ASSUME budget \in [calls : Nat, faults : Nat, crashes : Nat],
         NEW w \in {"calls", "faults", "crashes"}, Spend(w)
  PROVE  budget' \in [calls : Nat, faults : Nat, crashes : Nat]
BY DEF Spend

LEMMA RetryTyped ==
  ASSUME NEW d \in DeleteStates
  PROVE  /\ Again(d) \in DeleteStates /\ Again(d).path = d.path
         /\ RetriesCommit(d) \in TaskStates
         /\ RetriesCommit(d).path = None
<1>1. Again(d) \in DeleteStates /\ Again(d).path = d.path
  <2>1. CASE d.tries < 3
    <3>1. d.tries + 1 \in 0 .. 3
      BY <2>1 DEF DeleteStates
    <3>. QED  BY <2>1, <3>1 DEF Again, DeleteStates
  <2>2. CASE ~(d.tries < 3)
    BY <2>2 DEF Again, DeleteStates
  <2>. QED  BY <2>1, <2>2
<1>2. RetriesCommit(d) \in TaskStates /\ RetriesCommit(d).path = None
  BY StatesTyped, NamesAssumption DEF RetriesCommit, Begun, IdleTask
<1>. QED  BY <1>1, <1>2

LEMMA WritesTyped ==
  ASSUME TypeOK,
         \/ \E w \in Writers, f \in Notes : WriteFile(w, f)
         \/ \E t \in Tasks, f \in Notes : RestoreFile(t, f)
         \/ \E w \in Writers : CommitDrift(w)
         \/ \E f \in Files : Edit(f)
  PROVE  TypeOK'
<1>. USE DEF TypeOK, repo
<1>1. ASSUME NEW w \in Writers, NEW f \in Notes, WriteFile(w, f)
      PROVE  TypeOK'
  <2>0. fresh \in Versions /\ fresh' \in 1 .. MaxVersions + 1
    BY <1>1, BoundsAssumption DEF WriteFile, Versions
  <2>1. disk' \in Trees
    BY <1>1, <2>0 DEF WriteFile, Trees, Files
  <2>2. Begun(f, fresh, TRUE) \in TaskStates /\ Begun(f, fresh, TRUE).pc = "lock"
    BY <2>0, StatesTyped
  <2>3. task' \in [Tasks -> TaskStates]
    BY <1>1, <2>2, OvertakenTyped DEF WriteFile, Tasks
  <2>4. MutexHeldInside'
    BY <1>1, <2>2, OvertakenTyped DEF WriteFile, MutexHeldInside, May, Tasks
  <2>5. budget' \in [calls : Nat, faults : Nat, crashes : Nat]
    BY <1>1, BudgetTyped DEF WriteFile
  <2>. QED  BY <1>1, <2>0, <2>1, <2>3, <2>4, <2>5 DEF WriteFile
<1>2. ASSUME NEW t \in Tasks, NEW f \in Notes, RestoreFile(t, f)
      PROVE  TypeOK'
  <2>1. PICK v \in Held(head, f) : /\ disk' = [disk EXCEPT ![f] = v]
                                   /\ task' = [Overtaken(f) EXCEPT ![t] = Begun(f, v, FALSE)]
    BY <1>2 DEF RestoreFile
  <2>2. v \in Versions
    BY HeldVersions DEF Files
  <2>3. disk' \in Trees
    BY <2>1, <2>2 DEF Trees
  <2>4. Begun(f, v, FALSE) \in TaskStates /\ Begun(f, v, FALSE).pc = "lock"
    BY <2>2, StatesTyped
  <2>5. task' \in [Tasks -> TaskStates]
    BY <2>1, <2>4, OvertakenTyped
  <2>6. MutexHeldInside'
    <3>1. \A u \in Tasks : task'[u].pc = IF u = t THEN "lock" ELSE task[u].pc
      BY <2>1, <2>4, OvertakenTyped
    <3>2. task[t].pc = "idle" /\ UNCHANGED mutex
      BY <1>2 DEF RestoreFile, May
    <3>. QED  BY <3>1, <3>2 DEF MutexHeldInside, Tasks
  <2>7. budget' \in [calls : Nat, faults : Nat, crashes : Nat]
    BY <1>2, BudgetTyped DEF RestoreFile
  <2>. QED  BY <1>2, <2>3, <2>5, <2>6, <2>7 DEF RestoreFile
<1>3. ASSUME NEW w \in Writers, CommitDrift(w)
      PROVE  TypeOK'
  <2>1. Begun(None, 0, FALSE) \in TaskStates /\ Begun(None, 0, FALSE).pc = "lock"
    BY StatesTyped
  <2>2. task' \in [Tasks -> TaskStates]
    BY <1>3, <2>1 DEF CommitDrift
  <2>3. MutexHeldInside'
    BY <1>3, <2>1 DEF CommitDrift, MutexHeldInside, May, Tasks
  <2>4. budget' \in [calls : Nat, faults : Nat, crashes : Nat]
    BY <1>3, BudgetTyped DEF CommitDrift
  <2>. QED  BY <1>3, <2>2, <2>3, <2>4 DEF CommitDrift
<1>4. ASSUME NEW f \in Files, Edit(f)
      PROVE  TypeOK'
  <2>1. disk' \in Trees /\ fresh' \in 1 .. MaxVersions + 1
    BY <1>4, BoundsAssumption DEF Edit, Trees, Versions
  <2>2. task' \in [Tasks -> TaskStates] /\ MutexHeldInside'
    BY <1>4, OvertakenTyped DEF Edit, MutexHeldInside, Tasks
  <2>3. budget' \in [calls : Nat, faults : Nat, crashes : Nat]
    BY <1>4, BudgetTyped DEF Edit
  <2>. QED  BY <1>4, <2>1, <2>2, <2>3 DEF Edit
<1>. QED  BY <1>1, <1>2, <1>3, <1>4

LEMMA CommitTyped ==
  ASSUME TypeOK, NEW t \in Tasks, CommitStep(t)
  PROVE  TypeOK'
<1>. USE DEF TypeOK, repo
<1>. t = Cli \/ t \in Writers
  BY DEF Tasks
<1>1. CASE Lock(t)
  BY <1>1, NamesAssumption DEF Lock, MutexHeldInside, TaskStates, Tasks
<1>2. CASE ReadHead(t)
  BY <1>2, NamesAssumption DEF ReadHead, MutexHeldInside, TaskStates, Tasks
<1>3. CASE Stage(t)
  <2>0. ASSUME NEW u \in Tasks
        PROVE  task'[u] \in TaskStates
    <3>1. [task[t] EXCEPT !.pc = "tree", !.tree = disk] \in TaskStates
      BY ZenonT(60) DEF TaskStates
    <3>2. [task[u] EXCEPT !.swept = @ \/ Unstaged(task[u])] \in TaskStates
      BY ZenonT(60) DEF TaskStates, Unstaged
    <3>. QED  BY <1>3, <3>1, <3>2 DEF Stage
  <2>1. task' \in [Tasks -> TaskStates]
    BY <1>3, <2>0 DEF Stage
  <2>2. \A u \in Tasks : task'[u].pc = IF u = t THEN "tree" ELSE task[u].pc
    BY <1>3 DEF Stage, TaskStates
  <2>3. MutexHeldInside'
    BY <1>3, <2>2 DEF Stage, MutexHeldInside, Tasks
  <2>. QED  BY <1>3, <2>1, <2>3 DEF Stage
<1>4. CASE NothingToCommit(t)
  BY <1>4, NamesAssumption DEF NothingToCommit, Unlocked, MutexHeldInside, TaskStates, Tasks
<1>5. CASE UpdateRef(t)
  <2>1. task[t].base \in Branches /\ task[t].tree \in Trees /\ task[t].path \in Notes \cup {None}
    BY DEF TaskStates
  <2>2. [tree |-> task[t].tree, subject |-> task[t].path] \in Commits
    BY <2>1 DEF Commits
  <2>3. head' \in Branches
    BY <1>5, <2>1, <2>2 DEF UpdateRef, Branches, Commits
  <2>4. task' \in [Tasks -> TaskStates] /\ MutexHeldInside'
    <3>1. /\ task[t].pc = "tree" /\ task' = [task EXCEPT ![t].pc = "index"]
          /\ UNCHANGED mutex
      BY <1>5 DEF UpdateRef
    <3>. QED  BY <3>1 DEF MutexHeldInside, TaskStates, Tasks
  <2>. QED  BY <1>5, <2>3, <2>4 DEF UpdateRef
<1>6. CASE AddIndex(t)
  BY <1>6, NamesAssumption DEF AddIndex, Unlocked, MutexHeldInside, TaskStates, Tasks
<1>7. CASE GitFails(t)
  <2>1. task' \in [Tasks -> TaskStates] /\ del' \in DeleteStates
    BY <1>7, StatesTyped DEF GitFails
  <2>4. del'.pc # "idle" => del'.path \in Notes
    BY <1>7, StatesTyped DEF GitFails
  <2>2. MutexHeldInside' /\ mutex' \in Writers \cup {None}
    BY <1>7, NamesAssumption DEF GitFails, Unlocked, MutexHeldInside, IdleTask, Tasks
  <2>3. stuck' \in BOOLEAN /\ budget' \in [calls : Nat, faults : Nat, crashes : Nat]
    BY <1>7, BudgetTyped DEF GitFails
  <2>. QED  BY <1>7, <2>1, <2>2, <2>3, <2>4 DEF GitFails
<1>8. CASE Return(t)
  <2>1. task' \in [Tasks -> TaskStates]
    BY <1>8, StatesTyped DEF Return
  <2>2. MutexHeldInside'
    BY <1>8 DEF Return, MutexHeldInside, IdleTask, Tasks
  <2>. QED  BY <1>8, <2>1, <2>2 DEF Return
<1>. QED  BY <1>1, <1>2, <1>3, <1>4, <1>5, <1>6, <1>7, <1>8 DEF CommitStep

LEMMA DeleteTyped ==
  ASSUME TypeOK, (\E f \in Notes : DeleteBegin(f)) \/ DeleteStep
  PROVE  TypeOK'
<1>. USE DEF TypeOK, repo
<1>0. Cli \in Tasks /\ \A w \in Writers : w \in Tasks /\ w # Cli
  BY NamesAssumption DEF Tasks
<1>1. ASSUME NEW f \in Notes, DeleteBegin(f)
      PROVE  TypeOK'
  <2>1. Held(head, f) \subseteq Versions
    BY HeldVersions DEF Files
  <2>2. del' \in DeleteStates /\ del'.path = f
    BY <1>1, <2>1, StatesTyped DEF DeleteBegin, DeleteStates
  <2>3. task' \in [Tasks -> TaskStates]
    BY <1>0, <1>1, StatesTyped DEF DeleteBegin
  <2>4. MutexHeldInside'
    BY <1>0, <1>1 DEF DeleteBegin, MutexHeldInside
  <2>5. budget' \in [calls : Nat, faults : Nat, crashes : Nat]
    BY <1>1, BudgetTyped DEF DeleteBegin
  <2>. QED  BY <1>1, <2>2, <2>3, <2>4, <2>5 DEF DeleteBegin
<1>2. CASE FilterStart
  <2>1. [del EXCEPT !.pc = "filter", !.base = head] \in DeleteStates
    BY DEF DeleteStates
  <2>2. del' \in DeleteStates /\ task' \in [Tasks -> TaskStates]
    BY <1>2, <2>1, RetryTyped, StatesTyped DEF FilterStart
  <2>4. del.path \in Notes /\ del'.path = del.path
    BY <1>2, RetryTyped, ZenonT(60) DEF FilterStart, DeleteStates
  <2>3. MutexHeldInside'
    BY <1>0, <1>2 DEF FilterStart, MutexHeldInside
  <2>. QED  BY <1>2, <2>2, <2>3, <2>4 DEF FilterStart
<1>3. CASE FilterEnd
  <2>. DEFINE f   == del.path
              new == Purged(head, f)
              d   == [del EXCEPT !.gone = @ \cup Held(head, f)]
  <2>1. MutexHeldInside'
    BY <1>0, <1>3 DEF FilterEnd, MutexHeldInside
  <2>2. f \in Notes /\ new \in Branches /\ d \in DeleteStates
    <3>1. f \in Notes
      BY <1>3 DEF FilterEnd
    <3>2. new \in Branches /\ Held(head, f) \subseteq Versions
      BY <3>1, PurgedTyped, HeldVersions DEF Files
    <3>. QED  BY <3>1, <3>2 DEF DeleteStates
  <2>3. task' \in [Tasks -> TaskStates] /\ del' \in DeleteStates
    <3>1. [d EXCEPT !.pc = "expire"] \in DeleteStates
      BY <2>2 DEF DeleteStates
    <3>2. del' \in {Again(del), Again(d), [d EXCEPT !.pc = "expire"]}
      BY <1>3 DEF FilterEnd
    <3>3. \/ UNCHANGED task
          \/ task' = [task EXCEPT ![Cli] = RetriesCommit(del)]
          \/ task' = [task EXCEPT ![Cli] = RetriesCommit(d)]
      BY <1>3 DEF FilterEnd
    <3>. HIDE DEF d
    <3>. QED  BY <1>0, <2>2, <3>1, <3>2, <3>3, RetryTyped
  <2>4. disk' \in Trees /\ index' \in Trees
    <3>1. TreeOf(new) \in Trees
      BY <2>2, TreeOfTyped
    <3>2. CASE UNCHANGED <<disk, index>>
      BY <3>2
    <3>3. CASE index' = TreeOf(new)
               /\ \E c \in SUBSET Files :
                    disk' = [g \in Files |-> IF g \in c THEN TreeOf(new)[g] ELSE disk[g]]
      <4>. HIDE DEF new
      <4>. QED  BY <3>1, <3>3 DEF Trees
    <3>4. UNCHANGED <<disk, index>>
          \/ /\ index' = TreeOf(new)
             /\ \E c \in SUBSET Files :
                   disk' = [g \in Files |-> IF g \in c THEN TreeOf(new)[g] ELSE disk[g]]
      <4>1. {g \in Files : index[g] # TreeOf(new)[g]} \in SUBSET Files
        OBVIOUS
      <4>. QED  BY <1>3, <4>1 DEF FilterEnd
    <3>. QED  BY <3>2, <3>3, <3>4
  <2>5. head' \in Branches /\ original' \in Branches
    BY <1>3, <2>2, StatesTyped DEF FilterEnd
  <2>6. del'.path = f
    <3>1. d.path = f /\ [d EXCEPT !.pc = "expire"].path = f
      BY DEF DeleteStates
    <3>2. del' \in {Again(del), Again(d), [d EXCEPT !.pc = "expire"]}
      BY <1>3 DEF FilterEnd
    <3>. HIDE DEF d
    <3>. QED  BY <2>2, <3>1, <3>2, RetryTyped
  <2>7. UNCHANGED <<fresh, stuck, mutex, up, erased, budget>>
    BY <1>3 DEF FilterEnd
  <2>. QED  BY <2>1, <2>2, <2>3, <2>4, <2>5, <2>6, <2>7
<1>4. CASE Expire
  <2>1. del' \in DeleteStates /\ del.path \in Notes /\ del'.path = del.path
    BY <1>4 DEF Expire, DeleteStates
  <2>2. erased' \subseteq Versions /\ original' \in Branches
    BY <1>4, StatesTyped DEF Expire, DeleteStates
  <2>. QED  BY <1>4, <2>1, <2>2 DEF Expire, MutexHeldInside
<1>5. CASE Remove
  <2>1. disk' \in Trees /\ fresh' \in 1 .. MaxVersions + 1
    BY <1>5, BoundsAssumption DEF Remove, Trees, Versions
  <2>2. Begun(None, 0, FALSE) \in TaskStates
    BY StatesTyped
  <2>3. task' \in [Tasks -> TaskStates]
    BY <1>5, <2>2 DEF Remove
  <2>4. MutexHeldInside'
    BY <1>0, <1>5 DEF Remove, MutexHeldInside
  <2>5. del' \in DeleteStates /\ del.path \in Notes /\ del'.path = del.path
    BY <1>5 DEF Remove, DeleteStates
  <2>. QED  BY <1>5, <2>1, <2>3, <2>4, <2>5 DEF Remove
<1>6. CASE DeleteEnd
  <2>1. task' \in [Tasks -> TaskStates] /\ del' \in DeleteStates /\ del'.pc = "idle"
    BY <1>6, StatesTyped DEF DeleteEnd
  <2>2. MutexHeldInside'
    BY <1>0, <1>6 DEF DeleteEnd, MutexHeldInside
  <2>. QED  BY <1>6, <2>1, <2>2 DEF DeleteEnd
<1>7. CASE DeleteBrokenOff
  <2>1. budget' \in [calls : Nat, faults : Nat, crashes : Nat]
    BY <1>7, BudgetTyped DEF DeleteBrokenOff
  <2>. QED  BY <1>7, <2>1, StatesTyped DEF DeleteBrokenOff, MutexHeldInside
<1>. QED  BY <1>1, <1>2, <1>3, <1>4, <1>5, <1>6, <1>7 DEF DeleteStep

LEMMA DaemonTyped ==
  ASSUME TypeOK, Stop \/ Crash \/ Boot
  PROVE  TypeOK'
<1>. USE DEF TypeOK, repo
<1>1. ASSUME NEW killed \in BOOLEAN, Down(killed)
      PROVE  /\ task' \in [Tasks -> TaskStates] /\ MutexHeldInside'
             /\ mutex' = None /\ stuck' \in BOOLEAN /\ up' = FALSE
  <2>1. task' \in [Tasks -> TaskStates]
    BY <1>1, StatesTyped DEF Down
  <2>2. \A w \in Writers : task'[w].pc = "idle"
    BY <1>1, NamesAssumption DEF Down, Tasks, IdleTask
  <2>. QED  BY <1>1, <2>1, <2>2, NamesAssumption DEF Down, MutexHeldInside, Tasks
<1>2. CASE Stop
  <2>1. Down(stuck)
    BY <1>2 DEF Stop
  <2>. QED  BY <1>1, <1>2, <2>1 DEF Stop, Down
<1>3. CASE Crash
  <2>1. stuck \/ (\E w \in Writers : task[w].pc = "index") \in BOOLEAN
    OBVIOUS
  <2>2. PICK killed \in BOOLEAN : Down(killed)
    BY <1>3, <2>1 DEF Crash
  <2>3. budget' \in [calls : Nat, faults : Nat, crashes : Nat]
    BY <1>3, BudgetTyped DEF Crash
  <2>. QED  BY <1>1, <2>2, <2>3 DEF Down
<1>4. CASE Boot
  BY <1>4 DEF Boot, MutexHeldInside
<1>. QED  BY <1>2, <1>3, <1>4

(* Every reachable state is well typed, and the mutex is held exactly by a *)
(* goroutine inside CommitAll, whatever fails or crashes.                  *)
THEOREM TypeCorrect == Spec => []TypeOK
<1>1. Init => TypeOK
  <2>1. SUFFICES ASSUME Init PROVE TypeOK
    OBVIOUS
  <2>2. MutexHeldInside
    BY <2>1, NamesAssumption DEF Init, MutexHeldInside, IdleTask, Tasks
  <2>3. fresh \in 1 .. MaxVersions + 1
    BY <2>1, BoundsAssumption DEF Init
  <2>. QED  BY <2>1, <2>2, <2>3, StatesTyped, BoundsAssumption DEF Init, TypeOK
<1>2. TypeOK /\ [Next]_vars => TypeOK'
  <2>1. SUFFICES ASSUME TypeOK, [Next]_vars PROVE TypeOK'
    OBVIOUS
  <2>2. CASE UNCHANGED vars
    BY <2>1, <2>2 DEF TypeOK, vars, repo, MutexHeldInside
  <2>3. CASE Next
    BY <2>1, <2>3, WritesTyped, CommitTyped, DeleteTyped, DaemonTyped DEF Next
  <2>. QED  BY <2>1, <2>2, <2>3
<1>. QED  BY <1>1, <1>2, PTL DEF Spec

-----------------------------------------------------------------------------
(* Commands and the daemon keep apart.                                     *)

(* While the daemon is up no command is at work, and while it is down no   *)
(* goroutine is; a purge works between two calls of CommitAll.             *)
Turns ==
  /\ up => task[Cli].pc = "idle" /\ del.pc = "idle"
  /\ ~up => \A w \in Writers : task[w].pc = "idle"
  /\ del.pc \in {"filter", "expire", "remove"} => task[Cli].pc = "idle"

(* So at most one call is between its first git call and its last.         *)
LEMMA OneInside ==
  ASSUME TypeOK, Turns, NEW t \in Tasks, NEW u \in Tasks,
         task[t].pc \in {"head", "stage", "tree", "index"},
         task[u].pc \in {"head", "stage", "tree", "index"}
  PROVE  t = u
BY DEF TypeOK, Turns, MutexHeldInside, Tasks

(* While a purge rewrites the branch there is no call at all.              *)
LEMMA PurgeAlone ==
  ASSUME TypeOK, Turns, del.pc \in {"filter", "expire", "remove"}, NEW t \in Tasks
  PROVE  task[t].pc = "idle"
BY DEF TypeOK, Turns, Tasks

(* What each step does to the program points.                              *)
LEMMA TurnsStep ==
  ASSUME TypeOK, Turns, ~Overlap, Next
  PROVE  Turns'
<1>. USE DEF Turns, TypeOK
<1>0. Cli \in Tasks /\ \A w \in Writers : w \in Tasks /\ w # Cli
  BY NamesAssumption DEF Tasks
<1>1. ASSUME NEW w \in Writers, NEW f \in Notes, WriteFile(w, f)
      PROVE  Turns'
  BY <1>0, <1>1, OvertakenTyped DEF WriteFile, May
<1>2. ASSUME NEW t \in Tasks, NEW f \in Notes, RestoreFile(t, f)
      PROVE  Turns'
  <2>1. \A u \in Tasks : u # t => task'[u].pc = task[u].pc
    BY <1>2, OvertakenTyped DEF RestoreFile
  <2>2. UNCHANGED <<up, del>> /\ May(t)
    BY <1>2 DEF RestoreFile
  <2>. QED  BY <1>0, <2>1, <2>2 DEF May, Tasks
<1>3. ASSUME NEW w \in Writers, CommitDrift(w)
      PROVE  Turns'
  BY <1>0, <1>3 DEF CommitDrift, May
<1>4. ASSUME NEW f \in Files, Edit(f)
      PROVE  Turns'
  BY <1>0, <1>4, OvertakenTyped DEF Edit
<1>5. ASSUME NEW t \in Tasks, CommitStep(t)
      PROVE  Turns'
  <2>1. task[t].pc # "idle" /\ \A u \in Tasks : u # t => task'[u].pc = task[u].pc
    BY <1>5 DEF CommitStep, Lock, ReadHead, Stage, NothingToCommit, UpdateRef, AddIndex,
                GitFails, Return, TaskStates
  <2>2. UNCHANGED up /\ (UNCHANGED del \/ (t = Cli /\ del'.pc = "idle"))
    BY <1>5, StatesTyped DEF CommitStep, Lock, ReadHead, Stage, NothingToCommit, UpdateRef,
                AddIndex, GitFails, Return
  <2>. QED  BY <1>0, <2>1, <2>2 DEF Tasks
<1>6. ASSUME NEW f \in Notes, DeleteBegin(f)
      PROVE  Turns'
  BY <1>0, <1>6 DEF DeleteBegin, May, IdleDelete
<1>7. CASE DeleteStep
  <2>1. del.pc # "idle" /\ UNCHANGED up /\ \A w \in Writers : task'[w] = task[w]
    BY <1>0, <1>7 DEF DeleteStep, FilterStart, FilterEnd, Expire, Remove, DeleteEnd,
                      DeleteBrokenOff
  <2>2. del'.pc \in {"filter", "expire", "remove"} => task'[Cli].pc = "idle"
    <3>1. CASE FilterStart
      BY <1>0, <3>1, StatesTyped DEF FilterStart, Again, DeleteStates
    <3>2. CASE FilterEnd
      <4>1. \/ del'.pc \in {"commit", "gaveup"}
            \/ UNCHANGED task
        BY <3>2 DEF FilterEnd, Again, DeleteStates
      <4>. QED  BY <3>2, <4>1, PurgeAlone, <1>0 DEF FilterEnd
    <3>3. CASE Expire \/ Remove \/ DeleteEnd \/ DeleteBrokenOff
      BY <1>0, <3>3, StatesTyped DEF Expire, Remove, DeleteEnd, DeleteBrokenOff, DeleteStates
    <3>. QED  BY <1>7, <3>1, <3>2, <3>3 DEF DeleteStep
  <2>. QED  BY <2>1, <2>2
<1>8. CASE Stop \/ Crash
  BY <1>0, <1>8, StatesTyped DEF Stop, Crash, Down
<1>9. CASE Boot
  BY <1>0, <1>9 DEF Boot
<1>. QED  BY <1>1, <1>2, <1>3, <1>4, <1>5, <1>6, <1>7, <1>8, <1>9 DEF Next

-----------------------------------------------------------------------------
(* History moves forward.                                                  *)

(* A call commits on the head it has read: nobody has moved the branch     *)
(* since.                                                                  *)
Based == \A t \in Tasks : task[t].pc \in {"stage", "tree"} => task[t].base = head

(* What a step of CommitAll does to the branch.                            *)
LEMMA CommitHead ==
  ASSUME TypeOK, Based, NEW t \in Tasks, CommitStep(t)
  PROVE  \/ UNCHANGED head
         \/ /\ UpdateRef(t)
            /\ \A f \in Files : Held(head, f) \subseteq Held(head', f)
<1>1. UNCHANGED head \/ UpdateRef(t)
  BY DEF CommitStep, Lock, ReadHead, Stage, NothingToCommit, AddIndex, GitFails, Return, repo
<1>2. CASE UpdateRef(t)
  <2>. DEFINE c == [tree |-> task[t].tree, subject |-> task[t].path]
  <2>1. task[t].tree \in Trees /\ task[t].path \in Notes \cup {None}
    BY DEF TypeOK, TaskStates
  <2>2. c \in Commits
    BY <2>1 DEF Commits
  <2>3. head' = Append(head, c)
    BY <1>2 DEF UpdateRef, Based
  <2>. HIDE DEF c
  <2>4. head \in Branches
    BY DEF TypeOK
  <2>. QED  BY <1>2, <2>2, <2>3, <2>4, AppendHeld
<1>. QED  BY <1>1, <1>2

LEMMA BasedStep ==
  ASSUME TypeOK, Turns, Based, ~Overlap, Next
  PROVE  Based'
<1>. USE DEF Based
<1>0. Cli \in Tasks /\ \A w \in Writers : w \in Tasks
  BY DEF Tasks
<1>1. CASE \/ \E w \in Writers, f \in Notes : WriteFile(w, f)
           \/ \E t \in Tasks, f \in Notes : RestoreFile(t, f)
           \/ \E w \in Writers : CommitDrift(w)
           \/ \E f \in Files : Edit(f)
  <2>1. UNCHANGED head
    BY <1>1 DEF WriteFile, RestoreFile, CommitDrift, Edit, repo
  <2>2. \A t \in Tasks : \/ task'[t].pc = "lock"
                         \/ task'[t].pc = task[t].pc /\ task'[t].base = task[t].base
    <3>1. task \in [Tasks -> TaskStates]
      BY DEF TypeOK
    <3>2. \A f \in Files, t \in Tasks : /\ Overtaken(f)[t].pc = task[t].pc
                                       /\ Overtaken(f)[t].base = task[t].base
      BY <3>1 DEF Overtaken, TaskStates
    <3>3. ASSUME NEW w \in Writers, NEW f \in Notes, WriteFile(w, f), NEW t \in Tasks
          PROVE  \/ task'[t].pc = "lock"
                 \/ task'[t].pc = task[t].pc /\ task'[t].base = task[t].base
      BY <3>2, <3>3, <3>1, OvertakenTyped DEF WriteFile, Begun, IdleTask, Files
    <3>4. ASSUME NEW u \in Tasks, NEW f \in Notes, RestoreFile(u, f), NEW t \in Tasks
          PROVE  \/ task'[t].pc = "lock"
                 \/ task'[t].pc = task[t].pc /\ task'[t].base = task[t].base
      BY <3>2, <3>4, <3>1, OvertakenTyped DEF RestoreFile, Begun, IdleTask, Files
    <3>5. ASSUME NEW w \in Writers, CommitDrift(w), NEW t \in Tasks
          PROVE  \/ task'[t].pc = "lock"
                 \/ task'[t].pc = task[t].pc /\ task'[t].base = task[t].base
      BY <3>1, <3>5 DEF CommitDrift, Begun, IdleTask
    <3>6. ASSUME NEW f \in Files, Edit(f), NEW t \in Tasks
          PROVE  task'[t].pc = task[t].pc /\ task'[t].base = task[t].base
      BY <3>2, <3>6 DEF Edit
    <3>. QED  BY <1>1, <3>3, <3>4, <3>5, <3>6
  <2>. QED  BY <2>1, <2>2
<1>2. ASSUME NEW t \in Tasks, CommitStep(t)
      PROVE  Based'
  <2>1. task \in [Tasks -> TaskStates]
    BY DEF TypeOK
  <2>2. \A u \in Tasks : u # t => task'[u].pc = task[u].pc /\ task'[u].base = task[u].base
    BY <1>2, <2>1 DEF CommitStep, Lock, ReadHead, Stage, NothingToCommit, UpdateRef, AddIndex,
                      GitFails, Return, TaskStates
  <2>3. CASE UpdateRef(t)
    <3>1. task[t].pc = "tree" /\ task'[t].pc = "index"
      BY <2>1, <2>3 DEF UpdateRef, TaskStates
    <3>2. \A u \in Tasks : task[u].pc \in {"stage", "tree"} => u = t
      BY <3>1, OneInside
    <3>. QED  BY <2>2, <3>1, <3>2
  <2>4. CASE UNCHANGED head
    <3>1. task'[t].pc \in {"stage", "tree"} => task'[t].base = head
      <4>1. CASE Lock(t) \/ ReadHead(t) \/ NothingToCommit(t) \/ AddIndex(t)
        BY <2>1, <4>1 DEF Lock, ReadHead, NothingToCommit, AddIndex, TaskStates
      <4>2. CASE Stage(t)
        BY <2>1, <4>2 DEF Stage, TaskStates
      <4>3. CASE UpdateRef(t)
        BY <2>1, <4>3 DEF UpdateRef, TaskStates
      <4>4. CASE GitFails(t) \/ Return(t)
        BY <2>1, <4>4 DEF GitFails, Return, IdleTask
      <4>. QED  BY <1>2, <4>1, <4>2, <4>3, <4>4 DEF CommitStep
    <3>. QED  BY <2>2, <2>4, <3>1
  <2>. QED  BY <1>2, <2>3, <2>4, CommitHead
<1>3. CASE DeleteStep \/ \E f \in Notes : DeleteBegin(f)
  <2>1. task \in [Tasks -> TaskStates]
    BY DEF TypeOK
  <2>2. \A t \in Tasks : task'[t] = task[t] \/ task'[t].pc \in {"idle", "lock"}
    <3>1. CASE FilterStart \/ FilterEnd
      <4>1. \/ UNCHANGED task
            \/ task' = [task EXCEPT ![Cli] = IdleTask]
            \/ \E d : task' = [task EXCEPT ![Cli] = RetriesCommit(d)]
        BY <3>1 DEF FilterStart, FilterEnd
      <4>2. IdleTask.pc = "idle" /\ \A d : RetriesCommit(d).pc \in {"idle", "lock"}
        BY DEF RetriesCommit, Begun, IdleTask
      <4>3. CASE UNCHANGED task
        BY <4>3
      <4>4. ASSUME NEW x, task' = [task EXCEPT ![Cli] = x], x.pc \in {"idle", "lock"}
            PROVE  \A t \in Tasks : task'[t] = task[t] \/ task'[t].pc \in {"idle", "lock"}
        BY <2>1, <4>4
      <4>5. CASE task' = [task EXCEPT ![Cli] = IdleTask]
        BY <4>2, <4>4, <4>5
      <4>6. CASE \E d : task' = [task EXCEPT ![Cli] = RetriesCommit(d)]
        <5>1. PICK d : task' = [task EXCEPT ![Cli] = RetriesCommit(d)]
          BY <4>6
        <5>2. RetriesCommit(d).pc \in {"idle", "lock"}
          BY <4>2
        <5>. QED  BY <4>4, <5>1, <5>2
      <4>. QED  BY <4>1, <4>3, <4>5, <4>6
    <3>2. CASE Expire \/ Remove \/ DeleteEnd \/ DeleteBrokenOff
      <4>1. Begun(None, 0, FALSE).pc = "lock" /\ IdleTask.pc = "idle"
        BY StatesTyped
      <4>. QED  BY <2>1, <3>2, <4>1 DEF Expire, Remove, DeleteEnd, DeleteBrokenOff
    <3>3. CASE \E f \in Notes : DeleteBegin(f)
      BY <2>1, <3>3 DEF DeleteBegin, Begun, IdleTask
    <3>. QED  BY <1>3, <3>1, <3>2, <3>3 DEF DeleteStep
  <2>3. UNCHANGED head \/ \A t \in Tasks : task[t].pc = "idle"
    <3>1. UNCHANGED head \/ del.pc = "filter"
      BY <1>3 DEF DeleteStep, DeleteBegin, FilterStart, FilterEnd, Expire, Remove, DeleteEnd,
                  DeleteBrokenOff, repo
    <3>. QED  BY <3>1, PurgeAlone
  <2>. QED  BY <2>2, <2>3
<1>4. CASE Stop \/ Crash \/ Boot
  BY <1>4 DEF Stop, Crash, Boot, Down, IdleTask, repo
<1>. QED  BY <1>1, <1>2, <1>3, <1>4 DEF Next

(* Only a commit, which adds, and a purge, which takes its path, move the  *)
(* branch.                                                                 *)
LEMMA HeadKept ==
  ASSUME TypeOK, Based, [Next]_vars
  PROVE  \A f \in Files : Held(head, f) \subseteq Held(head', f)
                              \/ (del.pc = "filter" /\ f = del.path)
<1>1. CASE UNCHANGED head
  BY <1>1
<1>2. ASSUME NEW t \in Tasks, CommitStep(t)
      PROVE  \A f \in Files : Held(head, f) \subseteq Held(head', f)
  BY <1>2, CommitHead
<1>3. CASE FilterEnd
  <2>1. del.pc = "filter" /\ (UNCHANGED head \/ head' = Purged(head, del.path))
    BY <1>3 DEF FilterEnd, repo
  <2>2. CASE head' = Purged(head, del.path)
    <3>1. del.path \in Files /\ head \in Branches
      BY <2>1 DEF TypeOK, Files
    <3>. QED  BY <2>1, <2>2, <3>1, PurgedHeld
  <2>. QED  BY <1>1, <2>1, <2>2
<1>4. \/ UNCHANGED head \/ FilterEnd
      \/ \E t \in Tasks : CommitStep(t)
  BY DEF Next, vars, repo, WriteFile, RestoreFile, CommitDrift, Edit, DeleteBegin, DeleteStep,
         FilterStart, Expire, Remove, DeleteEnd, DeleteBrokenOff, Stop, Crash, Boot, Down
<1>. QED  BY <1>1, <1>2, <1>3, <1>4

(* What the theorems about commits rest on.                                *)
LEMMA KeptApart == ~Overlap => (Spec => [](TypeOK /\ Turns /\ Based))
<1>. SUFFICES ASSUME ~Overlap
              PROVE  Spec => [](TypeOK /\ Turns /\ Based)
  OBVIOUS
<1>1. Init => Turns /\ Based
  BY DEF Init, Turns, Based, IdleTask, IdleDelete, Tasks
<1>2. TypeOK /\ Turns /\ Based /\ [Next]_vars => Turns' /\ Based'
  <2>1. SUFFICES ASSUME TypeOK, Turns, Based, [Next]_vars PROVE Turns' /\ Based'
    OBVIOUS
  <2>2. CASE UNCHANGED vars
    BY <2>1, <2>2 DEF vars, repo, Turns, Based
  <2>3. CASE Next
    BY <2>1, <2>3, TurnsStep, BasedStep
  <2>. QED  BY <2>1, <2>2, <2>3
<1>. QED  BY <1>1, <1>2, TypeCorrect, PTL DEF Spec

(* When commands and the daemon keep apart, no commit drops what another   *)
(* has recorded and a purge takes its own path only.                       *)
THEOREM HistoryForward == ~Overlap => (Spec => NothingLost)
<1>. SUFFICES ASSUME ~Overlap
              PROVE  Spec => NothingLost
  OBVIOUS
<1>1. TypeOK /\ Turns /\ Based /\ [Next]_vars =>
        [\A f \in Files : Held(head, f) \subseteq Held(head', f)
                             \/ (del.pc = "filter" /\ f = del.path)]_vars
  BY HeadKept
<1>. QED  BY <1>1, KeptApart, PTL DEF Spec, NothingLost

-----------------------------------------------------------------------------
(* What has been answered is recorded.                                     *)

(* A call's version is on disk until the snapshot, then in the snapshot,   *)
(* then in the history, unless it was overtaken before the snapshot.       *)
KnownOf(s, files, branch) ==
  s.path # None /\ ~s.overtaken =>
    /\ s.pc \in {"lock", "head", "stage", "tree", "index", "done"} => s.ver \in Versions
    /\ Unstaged(s) => files[s.path] = s.ver
    /\ s.pc = "tree" => s.tree[s.path] = s.ver
    /\ s.pc \in {"index", "done"} => s.ver \in Held(branch, s.path)

Known == \A t \in Tasks : KnownOf(task[t], disk, head)

(* Beginning a call.                                                       *)
LEMMA BegunKnown ==
  ASSUME NEW f \in Notes, NEW v \in Versions, NEW n \in BOOLEAN, NEW files, files[f] = v,
         NEW branch
  PROVE  KnownOf(Begun(f, v, n), files, branch)
BY DEF KnownOf, Begun, IdleTask, Unstaged

(* A call that is not about a note knows nothing.                          *)
LEMMA NothingKnown ==
  ASSUME NEW files, NEW branch
  PROVE  /\ KnownOf(IdleTask, files, branch)
         /\ KnownOf(Begun(None, 0, FALSE), files, branch)
BY DEF KnownOf, Begun, IdleTask

(* A write leaves what the others know, or overtakes them.                 *)
LEMMA OvertakenKnown ==
  ASSUME TypeOK, Known, NEW f \in Files, NEW files \in Trees,
         \A g \in Files \ {f} : files[g] = disk[g], NEW t \in Tasks
  PROVE  KnownOf(Overtaken(f)[t], files, head)
<1>1. task[t] \in TaskStates /\ KnownOf(task[t], disk, head)
  BY DEF TypeOK, Known
<1>2. CASE task[t].path = f /\ Unstaged(task[t])
  BY <1>1, <1>2 DEF Overtaken, KnownOf, TaskStates, Unstaged
<1>3. CASE ~(task[t].path = f /\ Unstaged(task[t]))
  <2>1. Overtaken(f)[t] = task[t]
    BY <1>3 DEF Overtaken
  <2>2. task[t].path # None => task[t].path \in Files
    BY <1>1 DEF TaskStates, Files
  <2>. QED  BY <1>1, <1>3, <2>1, <2>2 DEF KnownOf
<1>. QED  BY <1>2, <1>3

(* As long as nothing is dropped from the history, a call that is not at   *)
(* work knows what it knew.                                                *)
LEMMA StillKnown ==
  ASSUME NEW s \in TaskStates, NEW files, NEW branch, NEW files2, NEW branch2,
         KnownOf(s, files, branch), Unstaged(s) => files2 = files,
         \A f \in Files : Held(branch, f) \subseteq Held(branch2, f)
  PROVE  KnownOf(s, files2, branch2)
<1>1. s.path # None => s.path \in Files
  BY DEF TaskStates, Files
<1>. QED  BY <1>1 DEF KnownOf

LEMMA KnownCommit ==
  ASSUME TypeOK, Based, Known, NEW t \in Tasks, CommitStep(t)
  PROVE  Known'
<1>1. /\ task \in [Tasks -> TaskStates] /\ task[t] \in TaskStates
      /\ KnownOf(task[t], disk, head) /\ head \in Branches
  BY DEF TypeOK, Known
<1>2. UNCHANGED disk /\ \A f \in Files : Held(head, f) \subseteq Held(head', f)
  <2>1. UNCHANGED disk
    BY DEF CommitStep, Lock, ReadHead, Stage, NothingToCommit, UpdateRef, AddIndex, GitFails,
           Return
  <2>. QED  BY <2>1, CommitHead
<1>3. ASSUME NEW u \in Tasks, u # t
      PROVE  KnownOf(task'[u], disk', head')
  <2>1. KnownOf(task[u], disk', head')
    BY <1>1, <1>2, StillKnown DEF Known
  <2>2. \/ task'[u] = task[u]
        \/ task'[u] = [task[u] EXCEPT !.swept = @ \/ Unstaged(task[u])]
    BY <1>1, <1>3 DEF CommitStep, Lock, ReadHead, Stage, NothingToCommit, UpdateRef, AddIndex,
                      GitFails, Return
  <2>3. task[u] \in TaskStates
    BY <1>1
  <2>. QED  BY <2>1, <2>2, <2>3 DEF KnownOf, TaskStates, Unstaged
<1>4. KnownOf(task'[t], disk', head')
  <2>1. CASE Lock(t) \/ ReadHead(t)
    BY <1>1, <2>1 DEF Lock, ReadHead, KnownOf, TaskStates, Unstaged, repo
  <2>2. CASE Stage(t)
    BY <1>1, <2>2 DEF Stage, KnownOf, TaskStates, Unstaged, repo
  <2>3. CASE NothingToCommit(t)
    <3>1. /\ task[t].pc = "tree" /\ task[t].tree = TreeOf(head)
          /\ task'[t] = [task[t] EXCEPT !.pc = "done"] /\ UNCHANGED head
      BY <1>1, <2>3 DEF NothingToCommit, Based, repo
    <3>2. ASSUME task[t].path # None, ~task[t].overtaken
          PROVE  task[t].ver \in Versions /\ task[t].ver \in Held(head, task[t].path)
      <4>1. task[t].tree[task[t].path] = task[t].ver /\ task[t].ver \in Versions
        BY <1>1, <3>1, <3>2 DEF KnownOf
      <4>2. task[t].path \in Files
        BY <1>1, <3>2 DEF TaskStates, Files
      <4>3. task[t].ver # None
        BY <4>1, NamesAssumption, BoundsAssumption DEF Versions
      <4>. QED  BY <1>1, <3>1, <4>1, <4>2, <4>3, TreeHeld
    <3>. QED  BY <1>1, <3>1, <3>2 DEF KnownOf, TaskStates, Unstaged
  <2>4. CASE UpdateRef(t)
    <3>. DEFINE c == [tree |-> task[t].tree, subject |-> task[t].path]
    <3>1. /\ task[t].pc = "tree" /\ head' = Append(head, c)
          /\ task'[t] = [task[t] EXCEPT !.pc = "index"]
      BY <1>1, <2>4 DEF UpdateRef, Based
    <3>2. c \in Commits /\ c.tree = task[t].tree
      BY <1>1 DEF Commits, TaskStates
    <3>. HIDE DEF c
    <3>3. ASSUME task[t].path # None, ~task[t].overtaken
          PROVE  task[t].ver \in Versions /\ task[t].ver \in Held(head', task[t].path)
      <4>1. task[t].tree[task[t].path] = task[t].ver /\ task[t].ver \in Versions
        BY <1>1, <3>1, <3>3 DEF KnownOf
      <4>2. task[t].path \in Files
        BY <1>1, <3>3 DEF TaskStates, Files
      <4>3. task[t].ver # None
        BY <4>1, NamesAssumption, BoundsAssumption DEF Versions
      <4>. QED  BY <1>1, <3>1, <3>2, <4>1, <4>2, <4>3, AppendHeld
    <3>. QED  BY <1>1, <3>1, <3>3 DEF KnownOf, TaskStates, Unstaged
  <2>5. CASE AddIndex(t)
    BY <1>1, <2>5 DEF AddIndex, KnownOf, TaskStates, Unstaged
  <2>6. CASE GitFails(t) \/ Return(t)
    <3>1. task'[t] = IdleTask
      BY <1>1, <2>6 DEF GitFails, Return
    <3>. QED  BY <3>1, NothingKnown
  <2>. QED  BY <2>1, <2>2, <2>3, <2>4, <2>5, <2>6 DEF CommitStep
<1>. QED  BY <1>3, <1>4 DEF Known

LEMMA KnownWrites ==
  ASSUME TypeOK, Known,
         \/ \E w \in Writers, f \in Notes : WriteFile(w, f)
         \/ \E t \in Tasks, f \in Notes : RestoreFile(t, f)
         \/ \E w \in Writers : CommitDrift(w)
         \/ \E f \in Files : Edit(f)
  PROVE  Known'
<1>1. ASSUME NEW t \in Tasks, NEW f \in Notes, NEW v \in Versions, NEW n \in BOOLEAN,
             disk' = [disk EXCEPT ![f] = v], UNCHANGED head,
             task' = [Overtaken(f) EXCEPT ![t] = Begun(f, v, n)]
      PROVE  Known'
  <2>1. f \in Files /\ disk \in Trees /\ disk' \in Trees /\ disk'[f] = v
        /\ \A g \in Files \ {f} : disk'[g] = disk[g]
    BY <1>1 DEF TypeOK, Trees, Files
  <2>2. ASSUME NEW u \in Tasks
        PROVE  KnownOf(task'[u], disk', head')
    <3>1. Overtaken(f) \in [Tasks -> TaskStates]
      BY OvertakenTyped DEF TypeOK
    <3>2. CASE u = t
      BY <1>1, <2>1, <3>1, <3>2, BegunKnown
    <3>3. CASE u # t
      BY <1>1, <2>1, <3>1, <3>3, OvertakenKnown
    <3>. QED  BY <3>2, <3>3
  <2>. QED  BY <2>2 DEF Known
<1>2. ASSUME NEW w \in Writers, NEW f \in Notes, WriteFile(w, f)
      PROVE  Known'
  <2>1. fresh \in Versions /\ w \in Tasks
    BY <1>2 DEF WriteFile, TypeOK, Versions, Tasks
  <2>. QED  BY <1>1, <1>2, <2>1 DEF WriteFile, repo
<1>3. ASSUME NEW t \in Tasks, NEW f \in Notes, RestoreFile(t, f)
      PROVE  Known'
  <2>1. PICK v \in Held(head, f) : /\ disk' = [disk EXCEPT ![f] = v]
                                   /\ task' = [Overtaken(f) EXCEPT ![t] = Begun(f, v, FALSE)]
    BY <1>3 DEF RestoreFile
  <2>2. v \in Versions
    BY HeldVersions DEF TypeOK, Files
  <2>. QED  BY <1>1, <1>3, <2>1, <2>2 DEF RestoreFile, repo
<1>4. ASSUME NEW w \in Writers, CommitDrift(w)
      PROVE  Known'
  <2>1. /\ task \in [Tasks -> TaskStates] /\ UNCHANGED <<disk, head>>
        /\ task' = [task EXCEPT ![w] = Begun(None, 0, FALSE)]
    BY <1>4 DEF CommitDrift, TypeOK, repo
  <2>. QED  BY <2>1, NothingKnown DEF Known
<1>5. ASSUME NEW f \in Files, Edit(f)
      PROVE  Known'
  <2>1. disk' \in Trees /\ \A g \in Files \ {f} : disk'[g] = disk[g]
    BY <1>5 DEF Edit, TypeOK, Trees, Versions
  <2>2. task' = Overtaken(f) /\ UNCHANGED head
    BY <1>5 DEF Edit, repo
  <2>. QED  BY <2>1, <2>2, OvertakenKnown DEF Known
<1>. QED  BY <1>2, <1>3, <1>4, <1>5

LEMMA KnownStep ==
  ASSUME TypeOK, Turns, Based, Known, Next
  PROVE  Known'
<1>1. task \in [Tasks -> TaskStates]
  BY DEF TypeOK
<1>2. CASE DeleteStep /\ del.pc \in {"filter", "expire", "remove"}
  <2>1. \A t \in Tasks : task[t].pc = "idle"
    BY <1>2, PurgeAlone
  <2>2. ASSUME NEW t \in Tasks
        PROVE  task'[t].pc = "idle" \/ task'[t].path = None
    <3>1. \/ UNCHANGED task
          \/ task' = [task EXCEPT ![Cli] = IdleTask]
          \/ task' = [task EXCEPT ![Cli] = Begun(None, 0, FALSE)]
      BY <1>2 DEF DeleteStep, FilterStart, FilterEnd, Expire, Remove, DeleteEnd,
                  DeleteBrokenOff, RetriesCommit
    <3>2. IdleTask.path = None /\ Begun(None, 0, FALSE).path = None
      BY DEF IdleTask, Begun
    <3>. QED  BY <1>1, <2>1, <3>1, <3>2
  <2>. QED  BY <2>2 DEF Known, KnownOf, Unstaged
<1>3. CASE \/ \E f \in Notes : DeleteBegin(f)
           \/ FilterStart \/ DeleteEnd
  <2>1. /\ UNCHANGED <<disk, head>>
        /\ \/ UNCHANGED task
           \/ task' = [task EXCEPT ![Cli] = IdleTask]
           \/ task' = [task EXCEPT ![Cli] = Begun(None, 0, FALSE)]
    BY <1>3 DEF DeleteBegin, FilterStart, DeleteEnd, RetriesCommit, repo
  <2>. QED  BY <1>1, <2>1, NothingKnown DEF Known
<1>4. CASE Stop \/ Crash \/ Boot
  <2>1. /\ UNCHANGED <<disk, head>>
        /\ \A t \in Tasks : task'[t] = task[t] \/ task'[t] = IdleTask
    BY <1>4 DEF Stop, Crash, Boot, Down, repo
  <2>. QED  BY <2>1, NothingKnown DEF Known
<1>5. DeleteStep => \/ FilterStart \/ DeleteEnd
                    \/ del.pc \in {"filter", "expire", "remove"}
  BY DEF DeleteStep, FilterEnd, Expire, Remove, DeleteBrokenOff
<1>. QED  BY <1>2, <1>3, <1>4, <1>5, KnownCommit, KnownWrites DEF Next

LEMMA KeptKnown == ~Overlap => (Spec => []Known)
<1>. SUFFICES ASSUME ~Overlap
              PROVE  Spec => []Known
  OBVIOUS
<1>1. Init => Known
  BY NothingKnown DEF Init, Known
<1>2. TypeOK /\ Turns /\ Based /\ Known /\ [Next]_vars => Known'
  <2>1. SUFFICES ASSUME TypeOK, Turns, Based, Known, [Next]_vars PROVE Known'
    OBVIOUS
  <2>2. CASE UNCHANGED vars
    BY <2>1, <2>2 DEF vars, repo, Known
  <2>3. CASE Next
    BY <2>1, <2>3, KnownStep
  <2>. QED  BY <2>1, <2>2, <2>3
<1>. QED  BY <1>1, <1>2, KeptApart, PTL DEF Spec

(* When commands and the daemon keep apart, a write that has been answered *)
(* is in the history, or somebody wrote the file again before the          *)
(* snapshot.                                                               *)
THEOREM AnsweredIsRecorded == ~Overlap => (Spec => []Recorded)
<1>1. Known => Recorded
  BY DEF Known, KnownOf, Recorded
<1>. QED  BY <1>1, KeptKnown, PTL

-----------------------------------------------------------------------------
(* What was deleted for good is gone.                                      *)

(* Where a version of f can still come back from: the file, the branch and *)
(* its backup, and the snapshots that are about to be committed.           *)
Seen(f) ==
  {v \in Versions :
     \/ v = disk[f]
     \/ v \in Held(head, f) \cup Held(original, f)
     \/ \E t \in Tasks : task[t].pc = "tree" /\ task[t].tree[f] = v}

(* A version is one file's and was written before the next one, and what a *)
(* deletion has dropped is nowhere but in the deleted note's own places    *)
(* until it is erased, and then nowhere.                                   *)
Apart ==
  /\ \A f \in Files : Seen(f) \subseteq 1 .. fresh - 1
  /\ erased \cup del.gone \subseteq 1 .. fresh - 1
  /\ \A f, g \in Files : f # g => Seen(f) \cap Seen(g) = {}
  /\ \A f \in Files : Seen(f) \cap erased = {}
  /\ \A f \in Files \ {del.path} : Seen(f) \cap del.gone = {}

(* What the commit before a purge has of the note.                         *)
Staged == IF task[Cli].pc = "tree" THEN task[Cli].tree[del.path] ELSE TreeOf(head)[del.path]

(* Once the commit before the purge has taken its snapshot the note's file *)
(* is as in the snapshot, or missing, or newer than all that is purged; so *)
(* the purge leaves nothing of it on disk.                                 *)
Settled == \/ disk[del.path] \in {None, Staged}
           \/ disk[del.path] \notin Held(head, del.path) \cup del.gone

Purging ==
  /\ del.pc = "filter" \/ (del.pc = "commit" /\ task[Cli].pc \in {"tree", "index", "done"}) =>
       Settled
  /\ del.pc = "filter" => index = TreeOf(head)
  /\ del.pc = "expire" => Held(head, del.path) = {} /\ disk[del.path] \notin del.gone

(* A step moves versions between the places of their file, and may write   *)
(* the next version to the file n.                                         *)
Moves(n) ==
  /\ fresh' \in {fresh, fresh + 1}
  /\ \A f \in Files :
       Seen(f)' \subseteq Seen(f) \cup (IF f = n /\ fresh' = fresh + 1 THEN {fresh} ELSE {})

LEMMA SeenIn ==
  ASSUME NEW f \in Files, NEW S,
         disk'[f] \in Versions => disk'[f] \in S,
         Held(head', f) \subseteq S, Held(original', f) \subseteq S,
         \A t \in Tasks : task'[t].pc = "tree" /\ task'[t].tree[f] \in Versions =>
                            task'[t].tree[f] \in S
  PROVE  Seen(f)' \subseteq S
BY DEF Seen

(* The places.                                                             *)
LEMMA SeenPlaces ==
  ASSUME TypeOK, NEW f \in Files
  PROVE  /\ disk[f] \in Seen(f) \cup {None}
         /\ Held(head, f) \subseteq Seen(f)
         /\ Held(original, f) \subseteq Seen(f)
         /\ \A t \in Tasks : task[t].pc = "tree" => task[t].tree[f] \in Seen(f) \cup {None}
         /\ None \notin Versions
<1>1. disk[f] \in Versions \cup {None}
  BY DEF TypeOK, Trees
<1>2. Held(head, f) \subseteq Versions /\ Held(original, f) \subseteq Versions
  BY HeldVersions DEF TypeOK
<1>3. \A t \in Tasks : task[t].tree[f] \in Versions \cup {None}
  BY DEF TypeOK, TaskStates, Trees
<1>4. None \notin Versions
  BY NamesAssumption, BoundsAssumption DEF Versions
<1>. QED  BY <1>1, <1>2, <1>3, <1>4 DEF Seen

(* A step that writes at most one file, with the next version, with one    *)
(* the branch has, or by removing it, and takes no snapshot.               *)
LEMMA MovesByFile ==
  ASSUME TypeOK, NEW n \in Files, NEW v, disk' = [disk EXCEPT ![n] = v],
         \/ v \in Seen(n) \cup {None} /\ fresh' = fresh
         \/ v = fresh /\ fresh' = fresh + 1,
         UNCHANGED <<head, original>>,
         \A t \in Tasks : task'[t].pc = "tree" => /\ task[t].pc = "tree"
                                                  /\ task'[t].tree = task[t].tree
  PROVE  Moves(n)
<1>1. ASSUME NEW f \in Files
      PROVE  Seen(f)' \subseteq Seen(f) \cup (IF f = n /\ fresh' = fresh + 1 THEN {fresh} ELSE {})
  <2>. DEFINE S == Seen(f) \cup (IF f = n /\ fresh' = fresh + 1 THEN {fresh} ELSE {})
  <2>1. Seen(f) \subseteq S
    OBVIOUS
  <2>2. disk'[f] = IF f = n THEN v ELSE disk[f]
    BY DEF TypeOK, Trees
  <2>3. disk'[f] \in Versions => disk'[f] \in S
    BY <2>2, SeenPlaces
  <2>4. \A t \in Tasks : task'[t].pc = "tree" /\ task'[t].tree[f] \in Versions =>
                            task'[t].tree[f] \in S
    BY <2>1, SeenPlaces
  <2>5. Held(head', f) \subseteq S /\ Held(original', f) \subseteq S
    BY <2>1, SeenPlaces
  <2>. HIDE DEF S
  <2>6. Seen(f)' \subseteq S
    BY <2>3, <2>4, <2>5, SeenIn
  <2>. QED  BY <2>6 DEF S
<1>. QED  BY <1>1 DEF Moves

LEMMA MovesWrites ==
  ASSUME TypeOK,
         \/ \E w \in Writers, f \in Notes : WriteFile(w, f)
         \/ \E t \in Tasks, f \in Notes : RestoreFile(t, f)
         \/ \E w \in Writers : CommitDrift(w)
         \/ \E f \in Files : Edit(f)
  PROVE  \E n \in Files : Moves(n)
<1>0. /\ task \in [Tasks -> TaskStates]
      /\ \A f : \A t \in Tasks : /\ Overtaken(f)[t].pc = task[t].pc
                                   /\ Overtaken(f)[t].tree = task[t].tree
      /\ \A f : Overtaken(f) = [t \in Tasks |-> Overtaken(f)[t]]
      /\ \A f, v, n : Begun(f, v, n).pc = "lock"
  BY DEF TypeOK, TaskStates, Overtaken, Begun, IdleTask
<1>1. ASSUME NEW w \in Writers, NEW f \in Notes, WriteFile(w, f)
      PROVE  \E n \in Files : Moves(n)
  <2>1. \A t \in Tasks : task'[t].pc = "tree" =>
                            task[t].pc = "tree" /\ task'[t].tree = task[t].tree
    BY <1>0, <1>1 DEF WriteFile
  <2>2. f \in Files
    BY DEF Files
  <2>. QED  BY <1>1, <2>1, <2>2, MovesByFile DEF WriteFile, repo
<1>2. ASSUME NEW t \in Tasks, NEW f \in Notes, RestoreFile(t, f)
      PROVE  \E n \in Files : Moves(n)
  <2>1. PICK v \in Held(head, f) : /\ disk' = [disk EXCEPT ![f] = v]
                                   /\ task' = [Overtaken(f) EXCEPT ![t] = Begun(f, v, FALSE)]
    BY <1>2 DEF RestoreFile
  <2>2. \A u \in Tasks : task'[u].pc = "tree" =>
                            task[u].pc = "tree" /\ task'[u].tree = task[u].tree
    BY <1>0, <2>1
  <2>3. f \in Files /\ v \in Seen(f)
    BY SeenPlaces DEF Files
  <2>. QED  BY <1>2, <2>1, <2>2, <2>3, MovesByFile DEF RestoreFile, repo
<1>3. ASSUME NEW w \in Writers, CommitDrift(w)
      PROVE  \E n \in Files : Moves(n)
  <2>1. Log \in Files /\ disk' = [disk EXCEPT ![Log] = disk[Log]] /\ UNCHANGED fresh
    BY <1>3 DEF CommitDrift, Files, TypeOK, Trees
  <2>2. disk[Log] \in Seen(Log) \cup {None}
    BY <2>1, SeenPlaces
  <2>3. \A u \in Tasks : task'[u].pc = "tree" =>
                            task[u].pc = "tree" /\ task'[u].tree = task[u].tree
    BY <1>0, <1>3 DEF CommitDrift
  <2>. QED  BY <1>3, <2>1, <2>2, <2>3, MovesByFile DEF CommitDrift, repo
<1>4. ASSUME NEW f \in Files, Edit(f)
      PROVE  \E n \in Files : Moves(n)
  <2>1. \A u \in Tasks : task'[u].pc = "tree" =>
                            task[u].pc = "tree" /\ task'[u].tree = task[u].tree
    BY <1>0, <1>4 DEF Edit
  <2>. QED  BY <1>4, <2>1, MovesByFile DEF Edit, repo
<1>. QED  BY <1>1, <1>2, <1>3, <1>4

LEMMA MovesCommit ==
  ASSUME TypeOK, Based, NEW t \in Tasks, CommitStep(t)
  PROVE  Moves(Log)
<1>0. /\ task \in [Tasks -> TaskStates] /\ UNCHANGED <<disk, original, fresh>>
      /\ \A f \in Files : Held(original', f) = Held(original, f)
  BY DEF TypeOK, CommitStep, Lock, ReadHead, Stage, NothingToCommit, UpdateRef, AddIndex,
         GitFails, Return, repo
<1>1. \A f \in Files : Held(head', f) \subseteq Seen(f)
  <2>1. CASE UNCHANGED head
    BY <2>1, SeenPlaces
  <2>2. CASE UpdateRef(t)
    <3>1. /\ task[t].tree \in Trees /\ task[t].path \in Notes \cup {None}
          /\ head \in Branches /\ task[t].pc = "tree"
          /\ head' = Append(head, [tree |-> task[t].tree, subject |-> task[t].path])
      BY <2>2 DEF UpdateRef, Based, TypeOK, TaskStates
    <3>2. [tree |-> task[t].tree, subject |-> task[t].path] \in Commits
      BY <3>1 DEF Commits
    <3>3. \A f \in Files : Held(head', f) \subseteq Held(head, f) \cup ({task[t].tree[f]} \ {None})
      BY <3>1, <3>2, AppendOnly
    <3>4. \A f \in Files : Held(head, f) \subseteq Seen(f) /\ task[t].tree[f] \in Seen(f) \cup {None}
      BY <3>1, SeenPlaces
    <3>. QED  BY <3>3, <3>4
  <2>. QED  BY <2>1, <2>2, CommitHead
<1>2. ASSUME NEW f \in Files, NEW u \in Tasks, task'[u].pc = "tree"
      PROVE  task'[u].tree[f] \in Seen(f) \cup {None}
  <2>1. \/ task[u].pc = "tree" /\ task'[u].tree = task[u].tree
        \/ task'[u].tree = disk
    <3>1. CASE Stage(t)
      <4>1. task[u] \in TaskStates /\ task[t] \in TaskStates
        BY <1>0
      <4>2. task'[u] = IF u = t THEN [task[t] EXCEPT !.pc = "tree", !.tree = disk]
                       ELSE [task[u] EXCEPT !.swept = @ \/ Unstaged(task[u])]
        BY <3>1 DEF Stage
      <4>. QED  BY <1>2, <4>1, <4>2 DEF TaskStates
    <3>2. CASE ~Stage(t)
      BY <1>0, <1>2, <3>2 DEF CommitStep, Lock, ReadHead, NothingToCommit, UpdateRef, AddIndex,
                              GitFails, Return, IdleTask, TaskStates
    <3>. QED  BY <3>1, <3>2
  <2>. QED  BY <2>1, SeenPlaces
<1>3. ASSUME NEW f \in Files
      PROVE  Seen(f)' \subseteq Seen(f)
  BY <1>0, <1>1, <1>2, SeenPlaces, SeenIn
<1>. QED  BY <1>0, <1>3 DEF Moves

(* The branch and the tree of a purged branch.                             *)
LEMMA PurgedOnly ==
  ASSUME NEW b \in Branches, NEW f \in Files
  PROVE  /\ Held(Purged(b, f), f) = {}
         /\ \A g \in Files : Held(Purged(b, f), g) \subseteq Held(b, g)
         /\ TreeOf(Purged(b, f))[f] = None
<1>1. CASE \A i \in DOMAIN b, g \in Files \ {f} : b[i].tree[g] = None
  <2>1. Purged(b, f) = <<>>
    BY <1>1 DEF Purged
  <2>2. \A g : Held(<<>>, g) = {}
    BY DEF Held
  <2>. QED  BY <2>1, <2>2 DEF TreeOf, NoFiles
<1>2. CASE ~ \A i \in DOMAIN b, g \in Files \ {f} : b[i].tree[g] = None
  <2>1. Purged(b, f) = Without(b, f)
    BY <1>2 DEF Purged, Without
  <2>2. /\ Without(b, f) \in Branches /\ DOMAIN Without(b, f) = DOMAIN b
        /\ \A i \in DOMAIN b, g \in Files \ {f} : Without(b, f)[i].tree[g] = b[i].tree[g]
    BY WithoutTyped
  <2>3. ASSUME NEW i \in DOMAIN b
        PROVE  Without(b, f)[i].tree[f] = None
    <3>1. b[i] \in Commits /\ b[i].tree \in Trees
      BY BranchTyped
    <3>2. Without(b, f)[i] = [b[i] EXCEPT !.tree[f] = None]
      BY DEF Without
    <3>. QED  BY <3>1, <3>2 DEF Commits, Trees
  <2>4. Held(Without(b, f), f) = {}
    BY <2>2, <2>3 DEF Held
  <2>5. \A g \in Files : Held(Without(b, f), g) \subseteq Held(b, g)
    BY <2>2, <2>4 DEF Held
  <2>6. TreeOf(Without(b, f))[f] = None
    <3>1. Without(b, f) # <<>> => Len(Without(b, f)) \in DOMAIN Without(b, f)
      BY <2>2, BranchTyped
    <3>. QED  BY <2>2, <2>3, <3>1 DEF TreeOf, NoFiles
  <2>. QED  BY <2>1, <2>4, <2>5, <2>6
<1>. QED  BY <1>1, <1>2

(* What a successful or a refused purge does, for the places of the        *)
(* versions.                                                               *)
LEMMA PurgeEffect ==
  ASSUME TypeOK, FilterEnd
  PROVE  /\ del'.path = del.path
         /\ \/ /\ UNCHANGED <<disk, head, original, index>>
               /\ del'.gone = del.gone /\ del'.pc \in {"commit", "gaveup"}
            \/ /\ head' = Purged(head, del.path) /\ original' \in {<<>>, head}
               /\ del'.gone = del.gone \cup Held(head, del.path)
               /\ \/ UNCHANGED disk /\ del'.pc \in {"commit", "gaveup"}
                  \/ /\ index' = TreeOf(head') /\ del'.pc = "expire" /\ head' # <<>>
                     /\ \A g \in Files : disk'[g] = IF index[g] # TreeOf(head')[g]
                                                    THEN TreeOf(head')[g] ELSE disk[g]
<1>. DEFINE d == [del EXCEPT !.gone = @ \cup Held(head, del.path)]
<1>1. \A e \in DeleteStates : /\ Again(e).gone = e.gone /\ Again(e).path = e.path
                              /\ Again(e).pc \in {"commit", "gaveup"}
  BY DEF Again, DeleteStates
<1>2. /\ del \in DeleteStates /\ d \in DeleteStates
      /\ d.gone = del.gone \cup Held(head, del.path) /\ d.path = del.path
  <2>1. Held(head, del.path) \subseteq Versions
    BY HeldVersions DEF TypeOK, FilterEnd, Files
  <2>. QED  BY <2>1 DEF TypeOK, DeleteStates
<1>3. /\ [d EXCEPT !.pc = "expire"].gone = d.gone /\ [d EXCEPT !.pc = "expire"].path = d.path
      /\ [d EXCEPT !.pc = "expire"].pc = "expire"
  BY <1>2 DEF DeleteStates
<1>4. CASE head # del.base
  BY <1>1, <1>2, <1>4 DEF FilterEnd, repo
<1>5. CASE head = del.base
  <2>. DEFINE new     == Purged(head, del.path)
              changed == {g \in Files : index[g] # TreeOf(new)[g]}
  <2>1. /\ head' = new /\ original' \in {<<>>, head}
        /\ \/ /\ index' = TreeOf(new) /\ del' = [d EXCEPT !.pc = "expire"] /\ new # <<>>
              /\ disk' = [g \in Files |-> IF g \in changed THEN TreeOf(new)[g] ELSE disk[g]]
           \/ del' = Again(d) /\ UNCHANGED disk
    BY <1>5 DEF FilterEnd
  <2>. HIDE DEF d, new
  <2>2. CASE del' = Again(d) /\ UNCHANGED disk
    BY <1>1, <1>2, <2>1, <2>2 DEF new
  <2>3. CASE /\ index' = TreeOf(new) /\ del' = [d EXCEPT !.pc = "expire"] /\ new # <<>>
             /\ disk' = [g \in Files |-> IF g \in changed THEN TreeOf(new)[g] ELSE disk[g]]
    <3>1. \A g \in Files : disk'[g] = IF index[g] # TreeOf(head')[g]
                                        THEN TreeOf(head')[g] ELSE disk[g]
      BY <2>1, <2>3
    <3>. QED  BY <1>2, <1>3, <2>1, <2>3, <3>1 DEF new
  <2>. QED  BY <2>1, <2>2, <2>3
<1>. QED  BY <1>4, <1>5

(* A step that leaves the files and the repository alone, and takes no     *)
(* snapshot.                                                               *)
LEMMA MovesNothing ==
  ASSUME TypeOK, UNCHANGED <<disk, head, fresh>>, original' \in {<<>>, original},
         \A t \in Tasks : task'[t].pc = "tree" => /\ task[t].pc = "tree"
                                                  /\ task'[t].tree = task[t].tree
  PROVE  Moves(Log)
<1>1. \A f : Held(<<>>, f) = {}
  BY DEF Held
<1>2. ASSUME NEW f \in Files
      PROVE  Seen(f)' \subseteq Seen(f)
  <2>1. Held(original', f) \subseteq Seen(f)
    BY <1>1, SeenPlaces
  <2>. QED  BY <2>1, SeenPlaces, SeenIn
<1>. QED  BY <1>2 DEF Moves

LEMMA MovesDelete ==
  ASSUME TypeOK, (\E f \in Notes : DeleteBegin(f)) \/ DeleteStep
  PROVE  \E n \in Files : Moves(n)
<1>0. /\ task \in [Tasks -> TaskStates] /\ Log \in Files /\ Notes \subseteq Files
      /\ \A f : Held(<<>>, f) = {}
  BY DEF TypeOK, Files, Held
<1>1. \A t \in Tasks : task'[t].pc = "tree" =>
                          task[t].pc = "tree" /\ task'[t].tree = task[t].tree
  <2>1. \/ UNCHANGED task
        \/ task' = [task EXCEPT ![Cli] = IdleTask]
        \/ task' = [task EXCEPT ![Cli] = Begun(None, 0, FALSE)]
    BY DEF DeleteBegin, DeleteStep, FilterStart, FilterEnd, Expire, Remove, DeleteEnd,
           DeleteBrokenOff, RetriesCommit
  <2>2. IdleTask.pc = "idle" /\ Begun(None, 0, FALSE).pc = "lock"
    BY DEF IdleTask, Begun
  <2>. QED  BY <1>0, <2>1, <2>2
<1>2. CASE \/ \E f \in Notes : DeleteBegin(f)
           \/ FilterStart \/ Expire \/ DeleteEnd \/ DeleteBrokenOff
  <2>1. UNCHANGED <<disk, head, fresh>> /\ original' \in {<<>>, original}
    BY <1>2 DEF DeleteBegin, FilterStart, Expire, DeleteEnd, DeleteBrokenOff, repo
  <2>. QED  BY <1>0, <1>1, <2>1, MovesNothing
<1>3. CASE FilterEnd
  <2>1. head \in Branches /\ del.path \in Files /\ UNCHANGED fresh
    BY <1>0, <1>3 DEF FilterEnd, TypeOK
  <2>2. CASE UNCHANGED <<disk, head, original>>
    BY <1>0, <1>1, <2>1, <2>2, MovesNothing
  <2>3. CASE /\ head' = Purged(head, del.path) /\ original' \in {<<>>, head}
             /\ \A g \in Files : disk'[g] \in {disk[g], TreeOf(head')[g]}
    <3>1. head' \in Branches /\ \A g \in Files : Held(head', g) \subseteq Held(head, g)
      BY <2>1, <2>3, PurgedTyped, PurgedOnly
    <3>2. \A g \in Files : TreeOf(head')[g] \in Held(head, g) \cup {None}
      BY <3>1, TreeHeld
    <3>3. \A g \in Files : Held(original', g) \subseteq Held(head, g)
      BY <1>0, <2>3
    <3>4. ASSUME NEW g \in Files
          PROVE  Seen(g)' \subseteq Seen(g)
      <4>1. disk'[g] \in Seen(g) \cup {None}
        BY <2>3, <3>2, SeenPlaces
      <4>2. Held(head', g) \subseteq Seen(g) /\ Held(original', g) \subseteq Seen(g)
        BY <3>1, <3>3, SeenPlaces
      <4>3. \A t \in Tasks : task'[t].pc = "tree" => task'[t].tree[g] \in Seen(g) \cup {None}
        BY <1>1, SeenPlaces
      <4>. QED  BY <4>1, <4>2, <4>3, SeenPlaces, SeenIn
    <3>. QED  BY <1>0, <2>1, <3>4 DEF Moves
  <2>4. UNCHANGED <<disk, head, original>>
        \/ /\ head' = Purged(head, del.path) /\ original' \in {<<>>, head}
           /\ \A g \in Files : disk'[g] \in {disk[g], TreeOf(head')[g]}
    BY <1>3, PurgeEffect
  <2>. QED  BY <2>2, <2>3, <2>4
<1>4. CASE Remove
  <2>1. /\ del.path \in Files /\ UNCHANGED <<head, original>>
    BY <1>0, <1>4 DEF Remove, TypeOK, repo
  <2>2. CASE disk' = [disk EXCEPT ![del.path] = None] /\ UNCHANGED fresh
    BY <1>1, <2>1, <2>2, MovesByFile
  <2>3. CASE disk' = [disk EXCEPT ![del.path] = None, ![Log] = fresh] /\ fresh' = fresh + 1
    <3>1. disk \in [Files -> Versions \cup {None}]
      BY DEF TypeOK, Trees
    <3>2. ASSUME NEW f \in Files
          PROVE  Seen(f)' \subseteq Seen(f) \cup (IF f = Log THEN {fresh} ELSE {})
      <4>. DEFINE S == Seen(f) \cup (IF f = Log THEN {fresh} ELSE {})
      <4>1. disk'[f] \in S \cup {None}
        BY <2>1, <2>3, <3>1, SeenPlaces, <1>0
      <4>2. /\ Held(head', f) \subseteq S /\ Held(original', f) \subseteq S
            /\ \A t \in Tasks : task'[t].pc = "tree" => task'[t].tree[f] \in S \cup {None}
        BY <1>1, <2>1, SeenPlaces
      <4>. HIDE DEF S
      <4>3. Seen(f)' \subseteq S
        BY <4>1, <4>2, SeenPlaces, SeenIn
      <4>. QED  BY <4>3 DEF S
    <3>3. Moves(Log)
      BY <2>3, <3>2 DEF Moves
    <3>. QED  BY <1>0, <3>3
  <2>. QED  BY <1>4, <2>2, <2>3 DEF Remove
<1>. QED  BY <1>2, <1>3, <1>4 DEF DeleteStep

LEMMA MovesStep ==
  ASSUME TypeOK, Based, Next
  PROVE  \E n \in Files : Moves(n)
<1>1. Log \in Files
  BY DEF Files
<1>2. CASE Stop \/ Crash \/ Boot
  <2>1. /\ UNCHANGED <<disk, head, fresh, original>>
        /\ \A t \in Tasks : task'[t] = task[t] \/ task'[t] = IdleTask
    BY <1>2 DEF Stop, Crash, Boot, Down, repo, TypeOK
  <2>. QED  BY <1>1, <2>1, StatesTyped, MovesNothing
<1>. QED  BY <1>1, <1>2, MovesWrites, MovesCommit, MovesDelete DEF Next

(* What a step does to what is erased and to what a deletion has dropped.  *)
LEMMA ErasedEffect ==
  ASSUME TypeOK, Turns, Next
  PROVE  \/ erased' = erased /\ del'.gone = {}
         \/ erased' = erased /\ del'.gone = del.gone /\ del'.path = del.path
         \/ /\ FilterEnd /\ erased' = erased /\ del'.path = del.path
            /\ del'.gone = del.gone \cup Held(head, del.path)
         \/ Expire
<1>0. del \in DeleteStates /\ IdleDelete.gone = {}
  BY DEF TypeOK, IdleDelete
<1>1. CASE FilterEnd
  <2>1. UNCHANGED erased
    BY <1>1 DEF FilterEnd
  <2>. QED  BY <1>1, <2>1, PurgeEffect
<1>2. CASE FilterStart
  <2>1. del' \in {[del EXCEPT !.pc = "filter", !.base = head], Again(del)} /\ UNCHANGED erased
    BY <1>2 DEF FilterStart
  <2>. QED  BY <1>0, <2>1 DEF Again, DeleteStates
<1>3. CASE Remove
  BY <1>0, <1>3 DEF Remove, DeleteStates
<1>4. ASSUME NEW f \in Notes, DeleteBegin(f)
      PROVE  erased' = erased /\ del'.gone = {}
  BY <1>4 DEF DeleteBegin
<1>5. CASE DeleteEnd \/ DeleteBrokenOff
  BY <1>0, <1>5 DEF DeleteEnd, DeleteBrokenOff
<1>6. ASSUME NEW t \in Tasks, CommitStep(t)
      PROVE  erased' = erased /\ (UNCHANGED del \/ del' = IdleDelete)
  BY <1>6 DEF CommitStep, Lock, ReadHead, Stage, NothingToCommit, UpdateRef, AddIndex, GitFails,
              Return
<1>7. CASE UNCHANGED <<erased, del>>
  BY <1>7
<1>8. \/ UNCHANGED <<erased, del>>
      \/ \E t \in Tasks : CommitStep(t)
      \/ \E f \in Notes : DeleteBegin(f)
      \/ DeleteStep
  BY DEF Next, WriteFile, RestoreFile, CommitDrift, Edit, Stop, Crash, Boot, Down
<1>. QED  BY <1>0, <1>1, <1>2, <1>3, <1>4, <1>5, <1>6, <1>7, <1>8 DEF DeleteStep

(* After an expiry nothing holds what the deletion dropped.                *)
LEMMA ExpireClears ==
  ASSUME TypeOK, Turns, Purging, Apart, Expire, NEW f \in Files
  PROVE  Seen(f)' \cap del.gone = {}
<1>1. del.pc = "expire" /\ UNCHANGED <<disk, head, task>> /\ original' = <<>>
  BY DEF Expire
<1>2. \A t \in Tasks : task'[t].pc = "idle"
  BY <1>1, PurgeAlone
<1>3. Held(<<>>, f) = {}
  BY DEF Held
<1>4. CASE f = del.path
  BY <1>1, <1>2, <1>3, <1>4 DEF Purging, Seen
<1>5. CASE f # del.path
  <2>1. Seen(f)' \subseteq Seen(f)
    BY <1>1, <1>2, <1>3, SeenPlaces, SeenIn
  <2>. QED  BY <1>5, <2>1 DEF Apart
<1>. QED  BY <1>4, <1>5

LEMMA ApartStep ==
  ASSUME TypeOK, Turns, Based, Purging, Apart, Next
  PROVE  Apart'
<1>1. PICK n \in Files : Moves(n)
  BY MovesStep
<1>2. /\ 1 .. fresh - 1 \subseteq 1 .. fresh' - 1
      /\ fresh' = fresh + 1 => fresh \in 1 .. fresh' - 1
      /\ fresh \notin 1 .. fresh - 1
  <2>1. fresh \in 1 .. MaxVersions + 1 /\ MaxVersions \in Nat
    BY BoundsAssumption DEF TypeOK
  <2>2. fresh \in Nat /\ fresh >= 1
    BY <2>1
  <2>3. fresh' = fresh \/ fresh' = fresh + 1
    BY <1>1 DEF Moves
  <2>. QED  BY <2>2, <2>3
<1>3. \A f \in Files :
        Seen(f)' \subseteq Seen(f) \cup (IF f = n /\ fresh' = fresh + 1 THEN {fresh} ELSE {})
  BY <1>1 DEF Moves
<1>4. \A f \in Files : Seen(f)' \subseteq 1 .. fresh' - 1
  BY <1>2, <1>3 DEF Apart
<1>5. \A f, g \in Files : f # g => Seen(f)' \cap Seen(g)' = {}
  <2>1. SUFFICES ASSUME NEW f \in Files, NEW g \in Files, f # g,
                        NEW v \in Seen(f)', v \in Seen(g)'
                 PROVE  FALSE
    OBVIOUS
  <2>2. v \in Seen(f) \/ (v = fresh /\ f = n)
    BY <1>3, <2>1
  <2>3. v \in Seen(g) \/ (v = fresh /\ g = n)
    BY <1>3, <2>1
  <2>4. Seen(f) \cap Seen(g) = {} /\ fresh \notin Seen(f) /\ fresh \notin Seen(g)
    BY <1>2, <2>1 DEF Apart
  <2>. QED  BY <2>1, <2>2, <2>3, <2>4
<1>6. \A f \in Files : Seen(f)' \cap erased = {}
  BY <1>2, <1>3 DEF Apart
<1>7. \A f \in Files \ {del.path} : Seen(f)' \cap del.gone = {}
  BY <1>2, <1>3 DEF Apart
<1>8. CASE Expire
  <2>1. /\ erased' = erased \cup del.gone /\ del'.gone = del.gone /\ del'.path = del.path
    BY <1>8 DEF Expire, TypeOK, DeleteStates
  <2>2. \A f \in Files : Seen(f)' \cap del.gone = {}
    BY <1>8, ExpireClears
  <2>3. erased' \cup del'.gone \subseteq 1 .. fresh' - 1
    BY <1>2, <2>1 DEF Apart
  <2>. QED  BY <1>4, <1>5, <1>6, <2>1, <2>2, <2>3 DEF Apart
<1>9. CASE /\ FilterEnd /\ erased' = erased /\ del'.path = del.path
           /\ del'.gone = del.gone \cup Held(head, del.path)
  <2>1. del.path \in Files
    BY <1>9 DEF FilterEnd, TypeOK, Files
  <2>2. Held(head, del.path) \subseteq Seen(del.path) /\ Seen(del.path) \subseteq 1 .. fresh - 1
    BY <2>1, SeenPlaces DEF Apart
  <2>3. erased' \cup del'.gone \subseteq 1 .. fresh' - 1
    BY <1>2, <1>9, <2>2 DEF Apart
  <2>4. \A f \in Files \ {del.path} : Seen(f)' \cap Seen(del.path) = {}
    BY <1>2, <1>3, <2>1 DEF Apart
  <2>. QED  BY <1>4, <1>5, <1>6, <1>7, <1>9, <2>2, <2>3, <2>4 DEF Apart
<1>10. CASE erased' = erased /\ (del'.gone = {} \/ (del'.gone = del.gone /\ del'.path = del.path))
  <2>1. erased' \cup del'.gone \subseteq 1 .. fresh' - 1
    BY <1>2, <1>10 DEF Apart
  <2>2. \A f \in Files \ {del'.path} : Seen(f)' \cap del'.gone = {}
    BY <1>7, <1>10
  <2>. QED  BY <1>4, <1>5, <1>6, <1>10, <2>1, <2>2 DEF Apart
<1>. QED  BY <1>8, <1>9, <1>10, ErasedEffect

(* A hand that changes the note's file while it is being deleted writes    *)
(* what nothing has had.                                                   *)
LEMMA PurgingEdit ==
  ASSUME TypeOK, Apart, Purging, NEW f \in Files, Edit(f)
  PROVE  Purging'
<1>1. CASE del.pc \notin {"filter", "commit", "expire"}
  BY <1>1 DEF Edit, Purging
<1>2. CASE del.pc \in {"filter", "commit", "expire"}
  <2>1. /\ del.path \in Files /\ UNCHANGED <<del, head, index>> /\ Cli \in Tasks
        /\ task'[Cli].pc = task[Cli].pc /\ task'[Cli].tree = task[Cli].tree
    BY <1>2 DEF Edit, TypeOK, Files, Tasks, Overtaken, TaskStates, repo
  <2>2. Staged' = Staged
    BY <2>1 DEF Staged
  <2>3. fresh \notin Held(head, del.path) \cup del.gone /\ None \notin del.gone
    <3>1. fresh \notin 1 .. fresh - 1
      BY BoundsAssumption DEF TypeOK
    <3>2. Held(head, del.path) \cup del.gone \subseteq 1 .. fresh - 1
      BY <2>1, SeenPlaces DEF Apart
    <3>3. None \notin Versions /\ del.gone \subseteq Versions
      BY <2>1, SeenPlaces DEF TypeOK, DeleteStates
    <3>. QED  BY <3>1, <3>2, <3>3
  <2>4. disk'[del.path] \in {disk[del.path], None, fresh}
    BY <2>1 DEF Edit, TypeOK, Trees
  <2>. QED  BY <2>1, <2>2, <2>3, <2>4 DEF Purging, Settled
<1>. QED  BY <1>1, <1>2

LEMMA PurgingCommit ==
  ASSUME TypeOK, Turns, Based, Purging, NEW t \in Tasks, CommitStep(t)
  PROVE  Purging'
<1>. DEFINE p == del.path
<1>0. /\ task \in [Tasks -> TaskStates] /\ head \in Branches
      /\ task[t].pc # "idle" /\ UNCHANGED disk /\ (t = Cli \/ t \in Writers)
  BY DEF TypeOK, CommitStep, Lock, ReadHead, Stage, NothingToCommit, UpdateRef, AddIndex,
         GitFails, Return, Tasks
<1>1. CASE t \in Writers
  <2>1. del.pc = "idle" /\ UNCHANGED del
    BY <1>0, <1>1, NamesAssumption DEF Turns, CommitStep, Lock, ReadHead, Stage, NothingToCommit,
                      UpdateRef, AddIndex, GitFails, Return
  <2>. QED  BY <2>1 DEF Purging
<1>2. CASE t = Cli /\ del.pc # "commit"
  <2>1. del.pc \notin {"filter", "expire"} /\ (UNCHANGED del \/ del' = IdleDelete)
    BY <1>0, <1>2 DEF Turns, CommitStep, Lock, ReadHead, Stage, NothingToCommit, UpdateRef,
                      AddIndex, GitFails, Return
  <2>. QED  BY <1>2, <2>1 DEF Purging, IdleDelete
<1>3. CASE t = Cli /\ del.pc = "commit"
  <2>0. p \in Files /\ task[t] \in TaskStates
    BY <1>0, <1>3 DEF TypeOK, Files
  <2>1. CASE Lock(t) \/ ReadHead(t)
    BY <1>0, <1>3, <2>0, <2>1 DEF Lock, ReadHead, Purging, TaskStates
  <2>2. CASE Stage(t)
    <3>1. task'[Cli].pc = "tree" /\ task'[Cli].tree = disk /\ UNCHANGED del
      BY <1>0, <1>3, <2>0, <2>2 DEF Stage, TaskStates
    <3>2. Staged' = disk'[p]
      BY <1>0, <3>1 DEF Staged
    <3>. QED  BY <1>3, <3>1, <3>2 DEF Purging, Settled
  <2>3. CASE NothingToCommit(t)
    <3>1. /\ task[Cli].pc = "tree" /\ task'[Cli].pc = "done" /\ UNCHANGED <<del, head>>
          /\ task[Cli].tree = TreeOf(head)
      BY <1>0, <1>3, <2>0, <2>3 DEF NothingToCommit, TaskStates, Based, repo
    <3>2. Staged' = Staged
      BY <3>1 DEF Staged
    <3>3. Settled' = Settled
      BY <1>0, <3>1, <3>2 DEF Settled
    <3>. QED  BY <1>3, <3>1, <3>3 DEF Purging
  <2>4. CASE UpdateRef(t)
    <3>. DEFINE c == [tree |-> task[t].tree, subject |-> task[t].path]
    <3>1. /\ task[Cli].pc = "tree" /\ task'[Cli].pc = "index" /\ UNCHANGED del
          /\ head' = Append(head, c) /\ c \in Commits /\ c.tree = task[Cli].tree
      BY <1>0, <1>3, <2>0, <2>4 DEF UpdateRef, TaskStates, Based, Commits
    <3>. HIDE DEF c
    <3>2. TreeOf(head') = task[Cli].tree
      BY <1>0, <2>0, <3>1, AppendOnly
    <3>3. Held(head', p) \subseteq Held(head, p) \cup {task[Cli].tree[p]}
      BY <1>0, <2>0, <3>1, AppendOnly
    <3>4. Staged' = Staged /\ Staged = task[Cli].tree[p]
      BY <3>1, <3>2 DEF Staged
    <3>5. Settled => Settled'
      BY <1>0, <3>1, <3>3, <3>4 DEF Settled
    <3>. QED  BY <1>3, <3>1, <3>5 DEF Purging
  <2>5. CASE AddIndex(t)
    <3>1. /\ task[Cli].pc = "index" /\ task'[Cli].pc = "done" /\ UNCHANGED <<del, head>>
      BY <1>0, <1>3, <2>0, <2>5 DEF AddIndex, TaskStates
    <3>2. Staged' = Staged
      BY <3>1 DEF Staged
    <3>3. Settled' = Settled
      BY <1>0, <3>1, <3>2 DEF Settled
    <3>. QED  BY <1>3, <3>1, <3>3 DEF Purging
  <2>6. CASE GitFails(t)
    BY <1>3, <2>6 DEF GitFails, Purging, IdleDelete
  <2>7. CASE Return(t)
    BY <1>3, <2>7 DEF Return
  <2>. QED  BY <2>1, <2>2, <2>3, <2>4, <2>5, <2>6, <2>7 DEF CommitStep
<1>. QED  BY <1>0, <1>1, <1>2, <1>3

LEMMA PurgingFilterStart ==
  ASSUME TypeOK, Purging, FilterStart
  PROVE  Purging'
<1>0. /\ task \in [Tasks -> TaskStates] /\ Cli \in Tasks /\ UNCHANGED <<disk, head, index>>
      /\ del.pc = "commit" /\ task[Cli].pc = "done" /\ del \in DeleteStates
  BY DEF FilterStart, TypeOK, Tasks, repo
<1>1. CASE Clean
  <2>1. /\ del' = [del EXCEPT !.pc = "filter", !.base = head] /\ task'[Cli].pc = "idle"
        /\ index = TreeOf(head)
    BY <1>0, <1>1 DEF FilterStart, IdleTask, Clean
  <2>2. del'.pc = "filter" /\ del'.path = del.path /\ del'.gone = del.gone
    BY <1>0, <2>1 DEF DeleteStates
  <2>3. Staged' = Staged
    BY <1>0, <2>1, <2>2 DEF Staged
  <2>4. Settled' = Settled
    BY <1>0, <2>2, <2>3 DEF Settled
  <2>. QED  BY <1>0, <2>1, <2>2, <2>4 DEF Purging
<1>2. CASE ~Clean
  <2>1. del'.pc = "gaveup" \/ (del'.pc = "commit" /\ task'[Cli].pc = "lock")
    BY <1>0, <1>2, ZenonT(60) DEF FilterStart, Again, RetriesCommit, Begun, IdleTask, DeleteStates
  <2>. QED  BY <2>1 DEF Purging
<1>. QED  BY <1>1, <1>2

LEMMA PurgingFilterEnd ==
  ASSUME TypeOK, Turns, Purging, FilterEnd
  PROVE  Purging'
<1>. DEFINE p == del.path
<1>0. /\ task \in [Tasks -> TaskStates] /\ Cli \in Tasks /\ head \in Branches
      /\ del.pc = "filter" /\ task[Cli].pc = "idle" /\ del \in DeleteStates
      /\ p \in Files /\ index = TreeOf(head)
  BY DEF FilterEnd, TypeOK, Tasks, Turns, Purging, Files
<1>1. CASE del'.pc = "expire"
  <2>1. /\ head' = Purged(head, p) /\ del'.gone = del.gone \cup Held(head, p)
        /\ disk'[p] = IF index[p] # TreeOf(head')[p] THEN TreeOf(head')[p] ELSE disk[p]
        /\ del'.path = p
    BY <1>0, <1>1, PurgeEffect
  <2>2. Held(head', p) = {} /\ TreeOf(head')[p] = None
    BY <1>0, <2>1, PurgedOnly
  <2>3. None \notin del'.gone
    <3>1. /\ None \notin Versions /\ del.gone \subseteq Versions
          /\ Held(head, p) \subseteq Versions
      BY <1>0, HeldVersions, SeenPlaces DEF DeleteStates
    <3>. QED  BY <2>1, <3>1
  <2>4. Staged = TreeOf(head)[p]
    BY <1>0 DEF Staged
  <2>5. disk'[p] \notin del'.gone
    BY <1>0, <2>1, <2>2, <2>3, <2>4 DEF Purging, Settled
  <2>. QED  BY <1>1, <2>1, <2>2, <2>5 DEF Purging
<1>2. CASE del'.pc # "expire"
  <2>1. del'.pc = "gaveup" \/ (del'.pc = "commit" /\ task'[Cli].pc = "lock")
    BY <1>0, <1>2, ZenonT(60) DEF FilterEnd, Again, RetriesCommit, Begun, IdleTask, DeleteStates
  <2>. QED  BY <2>1 DEF Purging
<1>. QED  BY <1>1, <1>2

LEMMA PurgingStep ==
  ASSUME TypeOK, Turns, Based, Apart, Purging, ~Overlap, Next
  PROVE  Purging'
<1>1. CASE \/ \E w \in Writers, f \in Notes : WriteFile(w, f)
           \/ \E t \in Tasks, f \in Notes : RestoreFile(t, f)
           \/ \E w \in Writers : CommitDrift(w)
           \/ Stop \/ Crash \/ Boot
  <2>1. del.pc = "idle" /\ UNCHANGED del
    BY <1>1, NamesAssumption DEF WriteFile, RestoreFile, CommitDrift, May, Stop, Crash, Boot,
                                 Down, Turns
  <2>. QED  BY <2>1 DEF Purging
<1>2. CASE \/ \E f \in Notes : DeleteBegin(f)
           \/ Expire \/ Remove \/ DeleteEnd \/ DeleteBrokenOff
  <2>1. \/ del'.pc \in {"idle", "remove", "final"}
        \/ del'.pc = "commit" /\ task'[Cli].pc = "lock"
    <3>1. /\ task \in [Tasks -> TaskStates] /\ Cli \in Tasks /\ del \in DeleteStates
          /\ Begun(None, 0, FALSE).pc = "lock" /\ IdleDelete.pc = "idle"
      BY DEF TypeOK, Tasks, Begun, IdleTask, IdleDelete
    <3>2. CASE \E f \in Notes : DeleteBegin(f)
      <4>1. del'.pc = "commit" /\ task' = [task EXCEPT ![Cli] = Begun(None, 0, FALSE)]
        BY <3>2 DEF DeleteBegin
      <4>. QED  BY <3>1, <4>1
    <3>3. CASE Expire \/ Remove \/ DeleteEnd \/ DeleteBrokenOff
      BY <3>1, <3>3 DEF Expire, Remove, DeleteEnd, DeleteBrokenOff, DeleteStates
    <3>. QED  BY <1>2, <3>2, <3>3
  <2>. QED  BY <2>1 DEF Purging
<1>. QED  BY <1>1, <1>2, PurgingEdit, PurgingCommit, PurgingFilterStart, PurgingFilterEnd
          DEF Next, DeleteStep

(* What the theorems about erasure and about whose commit a write is in    *)
(* rest on.                                                                *)
LEMMA KeptErased == ~Overlap => (Spec => [](Apart /\ Purging))
<1>. SUFFICES ASSUME ~Overlap
              PROVE  Spec => [](Apart /\ Purging)
  OBVIOUS
<1>1. Init => Apart /\ Purging
  <2>1. SUFFICES ASSUME Init PROVE Apart /\ Purging
    OBVIOUS
  <2>2. \A f \in Files : Seen(f) = {}
    <3>1. None \notin Versions
      BY NamesAssumption, BoundsAssumption DEF Versions
    <3>. QED  BY <2>1, <3>1 DEF Init, Seen, NoFiles, Held, IdleTask
  <2>. QED  BY <2>1, <2>2 DEF Init, Apart, Purging, Settled, IdleDelete
<1>2. TypeOK /\ Turns /\ Based /\ Apart /\ Purging /\ [Next]_vars => Apart' /\ Purging'
  <2>1. SUFFICES ASSUME TypeOK, Turns, Based, Apart, Purging, [Next]_vars PROVE Apart' /\ Purging'
    OBVIOUS
  <2>2. CASE UNCHANGED vars
    BY <2>1, <2>2 DEF vars, repo, Apart, Purging, Settled, Seen, Staged
  <2>3. CASE Next
    BY <2>1, <2>3, ApartStep, PurgingStep
  <2>. QED  BY <2>1, <2>2, <2>3
<1>. QED  BY <1>1, <1>2, KeptApart, PTL DEF Spec

(* When commands and the daemon keep apart, what was deleted for good is   *)
(* in no commit that the branch or its backup reaches, whatever failed or  *)
(* was restored before and after.                                          *)
THEOREM DeletedIsErased == ~Overlap => (Spec => []Erased)
<1>. SUFFICES ASSUME ~Overlap
              PROVE  Spec => []Erased
  OBVIOUS
<1>1. TypeOK /\ Apart => Erased
  <2>1. SUFFICES ASSUME TypeOK, Apart, NEW f \in Files
                 PROVE  (Held(head, f) \cup Held(original, f)) \cap erased = {}
    BY DEF Erased
  <2>. QED  BY <2>1, SeenPlaces DEF Apart
<1>. QED  BY <1>1, KeptApart, KeptErased, PTL

-----------------------------------------------------------------------------
(* A write is in a commit of its own.                                      *)

(* The first commit of the branch that has the call's version names its    *)
(* file.                                                                   *)
NamedFirst(s, branch) ==
  \E i \in DOMAIN branch : /\ branch[i].tree[s.path] = s.ver
                           /\ branch[i].subject = s.path
                           /\ \A j \in 1 .. i - 1 : branch[j].tree[s.path] # s.ver

(* A new version that nobody swept up is in no commit until its writer's,  *)
(* and in no snapshot but its writer's.                                    *)
OwnOf(s, branch, tasks) ==
  s.new /\ ~s.overtaken /\ ~s.swept =>
    /\ s.pc \in {"lock", "head", "stage", "tree"} => s.ver \notin Held(branch, s.path)
    /\ Unstaged(s) => \A u \in Tasks : tasks[u].pc = "tree" => tasks[u].tree[s.path] # s.ver
    /\ s.pc \in {"index", "done"} => NamedFirst(s, branch)

Own == /\ \A t \in Tasks : OwnOf(task[t], head, task)
       /\ \A t \in Tasks : task[t].new => task[t].path # None

(* What a step may do to the calls without saying anything new of them.    *)
SameCall(t) ==
  \/ task'[t] = task[t]
  \/ task'[t] = [task[t] EXCEPT !.overtaken = TRUE]
  \/ task'[t] \in {IdleTask, Begun(None, 0, FALSE)}

LEMMA OwnSame ==
  ASSUME TypeOK, NEW t \in Tasks, OwnOf(task[t], head, task), NEW tasks,
         task[t].new => task[t].path # None,
         SameCall(t),
         \A u \in Tasks : tasks[u].pc = "tree" =>
                            task[u].pc = "tree" /\ tasks[u].tree = task[u].tree
  PROVE  OwnOf(task'[t], head, tasks) /\ (task'[t].new => task'[t].path # None)
<1>0. task[t] \in TaskStates
  BY DEF TypeOK
<1>1. CASE task'[t] = task[t]
  BY <1>1 DEF OwnOf
<1>2. CASE task'[t] = [task[t] EXCEPT !.overtaken = TRUE]
  BY <1>0, <1>2 DEF OwnOf, TaskStates
<1>3. CASE task'[t] \in {IdleTask, Begun(None, 0, FALSE)}
  <2>1. ~IdleTask.new /\ ~Begun(None, 0, FALSE).new
    BY DEF IdleTask, Begun
  <2>. QED  BY <1>3, <2>1 DEF OwnOf
<1>. QED  BY <1>1, <1>2, <1>3 DEF SameCall

(* So a step that leaves the branch alone, and takes no snapshot, keeps it. *)
LEMMA OwnKept ==
  ASSUME TypeOK, Own, UNCHANGED head,
         \A t \in Tasks : SameCall(t),
         \A u \in Tasks : task'[u].pc = "tree" =>
                            task[u].pc = "tree" /\ task'[u].tree = task[u].tree
  PROVE  Own'
BY OwnSame DEF Own

LEMMA OwnWrite ==
  ASSUME TypeOK, Apart, Own, NEW w \in Tasks, NEW f \in Notes, NEW v, NEW n \in BOOLEAN,
         UNCHANGED head, task' = [Overtaken(f) EXCEPT ![w] = Begun(f, v, n)],
         n => v = fresh
  PROVE  Own'
<1>0. /\ task \in [Tasks -> TaskStates] /\ f \in Files /\ f # None
      /\ \A t \in Tasks : t # w => task'[t] = Overtaken(f)[t]
      /\ task'[w] = Begun(f, v, n)
  BY NamesAssumption DEF TypeOK, Overtaken, Files
<1>1. \A t \in Tasks : t # w => SameCall(t)
  BY <1>0 DEF Overtaken, SameCall
<1>2. \A u \in Tasks : task'[u].pc = "tree" =>
                          task[u].pc = "tree" /\ task'[u].tree = task[u].tree
  BY <1>0 DEF Overtaken, Begun, IdleTask, TaskStates
<1>3. \A t \in Tasks : t # w => /\ OwnOf(task'[t], head, task')
                                /\ task'[t].new => task'[t].path # None
  BY <1>1, <1>2, OwnSame DEF Own
<1>4. CASE n
  <2>1. fresh \notin Seen(f)
    <3>1. fresh \notin 1 .. fresh - 1
      BY BoundsAssumption DEF TypeOK
    <3>. QED  BY <1>0, <3>1 DEF Apart
  <2>2. fresh # None
    BY NamesAssumption, BoundsAssumption DEF TypeOK
  <2>3. fresh \notin Held(head, f)
    BY <1>0, <2>1, SeenPlaces
  <2>4. \A u \in Tasks : task'[u].pc = "tree" => task'[u].tree[f] # fresh
    BY <1>0, <1>2, <2>1, <2>2, SeenPlaces
  <2>5. Begun(f, v, n).pc = "lock" /\ Begun(f, v, n).path = f /\ Begun(f, v, n).ver = fresh
    BY <1>4 DEF Begun, IdleTask
  <2>6. OwnOf(task'[w], head, task')
    BY <1>0, <2>3, <2>4, <2>5 DEF OwnOf
  <2>. QED  BY <1>0, <1>3, <2>5, <2>6 DEF Own
<1>5. CASE ~n
  <2>1. ~Begun(f, v, n).new
    BY <1>5 DEF Begun, IdleTask
  <2>. QED  BY <1>0, <1>3, <2>1 DEF Own, OwnOf
<1>. QED  BY <1>4, <1>5

(* A commit after it does not change which commit was the first.           *)
LEMMA FirstKept ==
  ASSUME NEW b \in Branches, NEW c \in Commits, NEW s, NamedFirst(s, b)
  PROVE  NamedFirst(s, Append(b, c))
<1>1. /\ DOMAIN Append(b, c) = 1 .. Len(b) + 1 /\ DOMAIN b = 1 .. Len(b) /\ Len(b) \in Nat
      /\ \A i \in 1 .. Len(b) : Append(b, c)[i] = b[i]
  BY DEF Branches, Commits
<1>2. PICK i \in DOMAIN b : /\ b[i].tree[s.path] = s.ver
                            /\ b[i].subject = s.path
                            /\ \A j \in 1 .. i - 1 : b[j].tree[s.path] # s.ver
  BY DEF NamedFirst
<1>3. i \in DOMAIN Append(b, c) /\ \A j \in 1 .. i - 1 : j \in 1 .. Len(b)
  BY <1>1
<1>. QED  BY <1>1, <1>2, <1>3 DEF NamedFirst

(* A commit that brings a version nothing had is the first that has it.    *)
LEMMA FirstNow ==
  ASSUME NEW b \in Branches, NEW c \in Commits, NEW s, s.path \in Files, s.ver # None,
         s.ver \notin Held(b, s.path), c.tree[s.path] = s.ver, c.subject = s.path
  PROVE  NamedFirst(s, Append(b, c))
<1>1. /\ DOMAIN Append(b, c) = 1 .. Len(b) + 1 /\ DOMAIN b = 1 .. Len(b) /\ Len(b) \in Nat
      /\ \A i \in 1 .. Len(b) : Append(b, c)[i] = b[i]
      /\ Append(b, c)[Len(b) + 1] = c
  BY DEF Branches, Commits
<1>2. \A j \in 1 .. Len(b) : b[j].tree[s.path] # s.ver
  BY <1>1 DEF Held
<1>3. Len(b) + 1 \in DOMAIN Append(b, c) /\ (Len(b) + 1) - 1 = Len(b)
  BY <1>1
<1>. QED  BY <1>1, <1>2, <1>3 DEF NamedFirst

LEMMA OwnUpdateRef ==
  ASSUME TypeOK, Turns, Based, Known, Own, NEW t \in Tasks, UpdateRef(t)
  PROVE  Own'
<1>. DEFINE c == [tree |-> task[t].tree, subject |-> task[t].path]
<1>0. /\ task \in [Tasks -> TaskStates] /\ head \in Branches /\ task[t] \in TaskStates
      /\ task[t].pc = "tree" /\ head' = Append(head, c) /\ c \in Commits
      /\ task' = [task EXCEPT ![t].pc = "index"]
      /\ c.tree = task[t].tree /\ c.subject = task[t].path
  BY DEF UpdateRef, TypeOK, Based, TaskStates, Commits
<1>. HIDE DEF c
<1>1. /\ \A u \in Tasks : u # t => task'[u] = task[u]
      /\ task'[t] = [task[t] EXCEPT !.pc = "index"]
  BY <1>0
<1>2. ASSUME NEW u \in Tasks, u # t
      PROVE  OwnOf(task'[u], head', task') /\ (task'[u].new => task'[u].path # None)
  <2>1. task[u].pc \notin {"head", "stage", "tree", "index"}
    BY <1>0, <1>2, OneInside
  <2>2. SUFFICES ASSUME task[u].new, ~task[u].overtaken, ~task[u].swept
                 PROVE  OwnOf(task[u], head', task') /\ task[u].path # None
    BY <1>1, <1>2 DEF Own, OwnOf
  <2>3. task[u].path \in Files /\ task[u].path # None
    BY <1>0, <2>2 DEF Own, TaskStates, Files
  <2>4. CASE task[u].pc = "lock"
    <3>1. /\ task[u].ver \notin Held(head, task[u].path)
          /\ \A w \in Tasks : task[w].pc = "tree" => task[w].tree[task[u].path] # task[u].ver
      BY <2>2, <2>4 DEF Own, OwnOf, Unstaged
    <3>2. task[u].ver \notin Held(head', task[u].path)
      BY <1>0, <2>3, <3>1, AppendOnly
    <3>3. \A w \in Tasks : task'[w].pc = "tree" => task'[w].tree[task[u].path] # task[u].ver
      BY <1>0, <3>1
    <3>. QED  BY <2>3, <2>4, <3>2, <3>3 DEF OwnOf
  <2>5. CASE task[u].pc = "done"
    <3>1. NamedFirst(task[u], head)
      BY <2>2, <2>5 DEF Own, OwnOf
    <3>2. NamedFirst(task[u], head')
      BY <1>0, <3>1, FirstKept
    <3>. QED  BY <2>3, <2>5, <3>2 DEF OwnOf, Unstaged
  <2>6. CASE task[u].pc = "idle"
    BY <2>3, <2>6 DEF OwnOf, Unstaged
  <2>. QED  BY <1>0, <2>1, <2>4, <2>5, <2>6 DEF TaskStates
<1>3. OwnOf(task'[t], head', task') /\ (task'[t].new => task'[t].path # None)
  <2>1. /\ task'[t].pc = "index" /\ task'[t].new = task[t].new /\ task'[t].path = task[t].path
        /\ task'[t].ver = task[t].ver /\ task'[t].overtaken = task[t].overtaken
        /\ task'[t].swept = task[t].swept
    BY <1>0, <1>1 DEF TaskStates
  <2>2. SUFFICES ASSUME task[t].new, ~task[t].overtaken, ~task[t].swept
                 PROVE  NamedFirst(task'[t], head') /\ task[t].path # None
    BY <2>1 DEF Own, OwnOf, Unstaged
  <2>3. task[t].path \in Files /\ task[t].path # None
    BY <1>0, <2>2 DEF Own, TaskStates, Files
  <2>4. /\ task[t].ver \in Versions /\ task[t].tree[task[t].path] = task[t].ver
    BY <1>0, <2>2, <2>3 DEF Known, KnownOf
  <2>5. task[t].ver \notin Held(head, task[t].path)
    BY <1>0, <2>2 DEF Own, OwnOf
  <2>6. task[t].ver # None
    BY <2>4, NamesAssumption, BoundsAssumption DEF Versions
  <2>. QED  BY <1>0, <2>1, <2>3, <2>4, <2>5, <2>6, FirstNow
<1>. QED  BY <1>2, <1>3 DEF Own

LEMMA OwnStage ==
  ASSUME TypeOK, Turns, Own, NEW t \in Tasks, Stage(t)
  PROVE  Own'
<1>0. /\ task \in [Tasks -> TaskStates] /\ UNCHANGED head /\ task[t].pc = "stage"
      /\ task'[t] = [task[t] EXCEPT !.pc = "tree", !.tree = disk]
      /\ \A u \in Tasks : u # t => task'[u] = [task[u] EXCEPT !.swept = @ \/ Unstaged(task[u])]
  BY DEF Stage, TypeOK, repo
<1>1. ASSUME NEW u \in Tasks, u # t
      PROVE  OwnOf(task'[u], head', task') /\ (task'[u].new => task'[u].path # None)
  <2>1. /\ task'[u].pc = task[u].pc /\ task'[u].new = task[u].new /\ task'[u].path = task[u].path
        /\ task'[u].ver = task[u].ver /\ task'[u].overtaken = task[u].overtaken
        /\ ~task'[u].swept => ~task[u].swept /\ ~Unstaged(task[u])
    <3>1. task[u] \in TaskStates
      BY <1>0
    <3>2. task'[u] = [task[u] EXCEPT !.swept = @ \/ Unstaged(task[u])]
      BY <1>0, <1>1
    <3>. QED  BY <3>1, <3>2 DEF TaskStates
  <2>2. NamedFirst(task[u], head) => NamedFirst(task'[u], head)
    BY <2>1 DEF NamedFirst
  <2>3. Unstaged(task'[u]) = Unstaged(task[u])
    BY <2>1 DEF Unstaged
  <2>4. OwnOf(task[u], head, task) /\ (task[u].new => task[u].path # None)
    BY DEF Own
  <2>5. CASE Unstaged(task[u])
    BY <2>1, <2>4, <2>5 DEF OwnOf
  <2>6. CASE ~Unstaged(task[u])
    BY <1>0, <2>1, <2>2, <2>3, <2>4, <2>6 DEF OwnOf
  <2>. QED  BY <2>5, <2>6
<1>2. OwnOf(task'[t], head', task') /\ (task'[t].new => task'[t].path # None)
  <2>1. /\ task'[t].pc = "tree" /\ task'[t].new = task[t].new /\ task'[t].path = task[t].path
        /\ task'[t].ver = task[t].ver /\ task'[t].overtaken = task[t].overtaken
        /\ task'[t].swept = task[t].swept
    BY <1>0 DEF TaskStates
  <2>2. OwnOf(task[t], head, task) /\ (task[t].new => task[t].path # None)
    BY DEF Own
  <2>. QED  BY <1>0, <2>1, <2>2 DEF OwnOf, Unstaged
<1>. QED  BY <1>1, <1>2 DEF Own

LEMMA OwnCommitStep ==
  ASSUME TypeOK, Turns, Based, Known, Own, NEW t \in Tasks, CommitStep(t)
  PROVE  Own'
<1>0. task \in [Tasks -> TaskStates] /\ task[t] \in TaskStates
  BY DEF TypeOK
<1>1. CASE Lock(t) \/ ReadHead(t) \/ NothingToCommit(t) \/ AddIndex(t)
  <2>1. /\ UNCHANGED head
        /\ \A u \in Tasks : u # t => task'[u] = task[u]
        /\ task'[t].new = task[t].new /\ task'[t].path = task[t].path
        /\ task'[t].ver = task[t].ver /\ task'[t].overtaken = task[t].overtaken
        /\ task'[t].swept = task[t].swept /\ task'[t].pc \in {"head", "stage", "done"}
    BY <1>0, <1>1 DEF Lock, ReadHead, NothingToCommit, AddIndex, TaskStates, repo
  <2>2. \A u \in Tasks : task'[u].pc = "tree" =>
                            task[u].pc = "tree" /\ task'[u].tree = task[u].tree
    BY <2>1
  <2>3. ASSUME NEW u \in Tasks, u # t
        PROVE  OwnOf(task'[u], head', task') /\ (task'[u].new => task'[u].path # None)
    <3>1. SameCall(u)
      BY <2>1, <2>3 DEF SameCall
    <3>. QED  BY <2>1, <2>2, <3>1, OwnSame DEF Own
  <2>4. ASSUME task[t].new, ~task[t].overtaken, ~task[t].swept, NothingToCommit(t)
        PROVE  FALSE
    <3>1. /\ task[t].pc = "tree" /\ task[t].tree = TreeOf(head) /\ head \in Branches
      BY <2>4 DEF NothingToCommit, Based, TypeOK
    <3>2. task[t].path \in Files /\ task[t].path # None
      BY <1>0, <2>4 DEF Own, TaskStates, Files
    <3>3. task[t].ver \in Versions /\ task[t].tree[task[t].path] = task[t].ver
      BY <2>4, <3>1, <3>2 DEF Known, KnownOf
    <3>4. task[t].ver # None
      BY <3>3, NamesAssumption, BoundsAssumption DEF Versions
    <3>5. task[t].ver \in Held(head, task[t].path)
      BY <3>1, <3>2, <3>3, <3>4, TreeHeld
    <3>. QED  BY <2>4, <3>1, <3>5 DEF Own, OwnOf
  <2>5. OwnOf(task'[t], head', task') /\ (task'[t].new => task'[t].path # None)
    <3>1. OwnOf(task[t], head, task) /\ (task[t].new => task[t].path # None)
      BY DEF Own
    <3>2. NamedFirst(task[t], head) => NamedFirst(task'[t], head)
      BY <2>1 DEF NamedFirst
    <3>3. CASE Lock(t) \/ ReadHead(t)
      <4>1. Unstaged(task[t]) /\ task'[t].pc \in {"head", "stage"}
            /\ task[t].pc \in {"lock", "head"}
        BY <1>0, <3>3 DEF Lock, ReadHead, Unstaged, TaskStates
      <4>. QED  BY <2>1, <2>2, <3>1, <4>1 DEF OwnOf
    <3>4. CASE AddIndex(t)
      <4>1. task[t].pc = "index" /\ task'[t].pc = "done"
        BY <1>0, <3>4 DEF AddIndex, TaskStates
      <4>. QED  BY <2>1, <3>1, <3>2, <4>1 DEF OwnOf, Unstaged
    <3>5. CASE NothingToCommit(t)
      BY <2>1, <2>4, <3>1, <3>5 DEF OwnOf
    <3>. QED  BY <1>1, <3>3, <3>4, <3>5
  <2>. QED  BY <2>3, <2>5 DEF Own
<1>2. CASE GitFails(t) \/ Return(t)
  <2>1. UNCHANGED head /\ task' = [task EXCEPT ![t] = IdleTask]
    BY <1>2 DEF GitFails, Return, repo
  <2>2. \A u \in Tasks : SameCall(u)
    BY <1>0, <2>1 DEF SameCall
  <2>3. \A u \in Tasks : task'[u].pc = "tree" =>
                            task[u].pc = "tree" /\ task'[u].tree = task[u].tree
    BY <1>0, <2>1 DEF IdleTask
  <2>. QED  BY <2>1, <2>2, <2>3, OwnKept
<1>. QED  BY <1>1, <1>2, OwnStage, OwnUpdateRef DEF CommitStep

LEMMA OwnStep ==
  ASSUME TypeOK, Turns, Based, Known, Apart, Own, Next
  PROVE  Own'
<1>0. task \in [Tasks -> TaskStates]
  BY DEF TypeOK
<1>1. ASSUME NEW w \in Writers, NEW f \in Notes, WriteFile(w, f)
      PROVE  Own'
  <2>1. w \in Tasks /\ UNCHANGED head /\ task' = [Overtaken(f) EXCEPT ![w] = Begun(f, fresh, TRUE)]
    BY <1>1 DEF WriteFile, Tasks, repo
  <2>. QED  BY <2>1, OwnWrite
<1>2. ASSUME NEW t \in Tasks, NEW f \in Notes, RestoreFile(t, f)
      PROVE  Own'
  <2>1. PICK v : task' = [Overtaken(f) EXCEPT ![t] = Begun(f, v, FALSE)]
    BY <1>2 DEF RestoreFile
  <2>2. UNCHANGED head
    BY <1>2 DEF RestoreFile, repo
  <2>. QED  BY <2>1, <2>2, OwnWrite
<1>3. CASE DeleteStep /\ del.pc \in {"filter", "expire", "remove"}
  <2>1. \A t \in Tasks : task[t].pc = "idle"
    BY <1>3, PurgeAlone
  <2>2. \/ UNCHANGED task
        \/ task' = [task EXCEPT ![Cli] = IdleTask]
        \/ task' = [task EXCEPT ![Cli] = Begun(None, 0, FALSE)]
    BY <1>3 DEF DeleteStep, FilterStart, FilterEnd, Expire, Remove, DeleteEnd, DeleteBrokenOff,
                RetriesCommit
  <2>3. IdleTask.pc = "idle" /\ ~IdleTask.new /\ ~Begun(None, 0, FALSE).new
    BY DEF IdleTask, Begun
  <2>4. \A t \in Tasks : \/ task'[t].pc = "idle" /\ task'[t].new = task[t].new
                                                 /\ task'[t].path = task[t].path
                         \/ ~task'[t].new
    BY <1>0, <2>1, <2>2, <2>3
  <2>. QED  BY <2>4 DEF Own, OwnOf, Unstaged
<1>4. CASE \/ \E f \in Notes : DeleteBegin(f)
           \/ FilterStart \/ DeleteEnd
           \/ \E w \in Writers : CommitDrift(w)
           \/ \E f \in Files : Edit(f)
           \/ Stop \/ Crash \/ Boot
  <2>1. UNCHANGED head
    BY <1>4 DEF DeleteBegin, FilterStart, DeleteEnd, CommitDrift, Edit, Stop, Crash, Boot, Down, repo
  <2>2. \/ \E x \in {IdleTask, Begun(None, 0, FALSE)}, u \in Tasks : task' = [task EXCEPT ![u] = x]
        \/ \A t \in Tasks : SameCall(t)
    <3>1. CASE \E f \in Files : Edit(f)
      BY <1>0, <3>1 DEF Edit, Overtaken, SameCall
    <3>2. CASE Stop \/ Crash \/ Boot
      BY <1>0, <3>2 DEF Stop, Crash, Boot, Down, SameCall
    <3>3. CASE \/ \E f \in Notes : DeleteBegin(f)
               \/ FilterStart \/ DeleteEnd
               \/ \E w \in Writers : CommitDrift(w)
      BY <3>3 DEF DeleteBegin, FilterStart, DeleteEnd, CommitDrift, RetriesCommit, Tasks
    <3>. QED  BY <1>4, <3>1, <3>2, <3>3
  <2>3. \A t \in Tasks : SameCall(t)
    BY <1>0, <2>2 DEF SameCall
  <2>4. IdleTask.pc # "tree" /\ Begun(None, 0, FALSE).pc # "tree"
    BY DEF IdleTask, Begun
  <2>5. \A u \in Tasks : task'[u].pc = "tree" =>
                            task[u].pc = "tree" /\ task'[u].tree = task[u].tree
    BY <1>0, <2>3, <2>4 DEF SameCall, TaskStates
  <2>. QED  BY <2>1, <2>3, <2>5, OwnKept
<1>5. DeleteStep => \/ FilterStart \/ DeleteEnd
                    \/ del.pc \in {"filter", "expire", "remove"}
  BY DEF DeleteStep, FilterEnd, Expire, Remove, DeleteBrokenOff
<1>. QED  BY <1>1, <1>2, <1>3, <1>4, <1>5, OwnCommitStep DEF Next

(* When commands and the daemon keep apart, the first commit that has an   *)
(* answered write is its own and names its file, unless another snapshot   *)
(* swept it up or somebody wrote the file again.                           *)
THEOREM WriteHasOwnCommit == ~Overlap => (Spec => []OwnCommit)
<1>. SUFFICES ASSUME ~Overlap
              PROVE  Spec => []OwnCommit
  OBVIOUS
<1>1. Init => Own
  BY DEF Init, Own, OwnOf, IdleTask
<1>2. TypeOK /\ Turns /\ Based /\ Known /\ Apart /\ Own /\ [Next]_vars => Own'
  <2>1. SUFFICES ASSUME TypeOK, Turns, Based, Known, Apart, Own, [Next]_vars PROVE Own'
    OBVIOUS
  <2>2. CASE UNCHANGED vars
    BY <2>1, <2>2 DEF vars, repo, Own
  <2>3. CASE Next
    BY <2>1, <2>3, OwnStep
  <2>. QED  BY <2>1, <2>2, <2>3
<1>3. Own => OwnCommit
  BY DEF Own, OwnOf, NamedFirst, OwnCommit
<1>. QED  BY <1>1, <1>2, <1>3, KeptApart, KeptKnown, KeptErased, PTL DEF Spec

=============================================================================
