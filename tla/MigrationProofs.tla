-------------------------- MODULE MigrationProofs --------------------------
(***************************************************************************)
(* Theorems about Migration for every set of providers, writers and lazy   *)
(* tasks and every bound.                                                  *)
(***************************************************************************)
EXTENDS Migration, FiniteSetTheorems, TLAPS

-----------------------------------------------------------------------------
(* Type correctness.  Beside its type each process has, while it is not    *)
(* idle, a migration that was started, or the providers it works on.       *)

Started == 1 .. latest

TablesTyped ==
  /\ reg \subseteq Providers
  /\ active \subseteq reg
  /\ rows \in [Providers -> SUBSET Chunks]
  /\ chunk \in [Notes -> Chunks \cup {None}]
  /\ fresh \in 1 .. MaxChunks + 1

MigTyped ==
  /\ latest \in 0 .. MaxMigrations
  /\ mig \in [Ids -> Migrations]
  /\ moved \in [Ids -> SUBSET Chunks]
  /\ late \subseteq Chunks
  /\ dropped \subseteq Ids
  /\ \A m \in Started : mig[m].status # "none" /\ mig[m].from \in Providers /\ mig[m].to \in Providers
  /\ \A m \in Ids \ Started : mig[m] = NotStarted /\ moved[m] = {} /\ m \notin dropped

TaskTyped(t, pcs) ==
  /\ t \in Tasks(pcs)
  /\ t.pc # "idle" => t.m \in Started

WriterType == [pc : {"idle", "migration", "commit"}, note : Notes \cup {0},
               new : Chunks \cup {0}, targets : SUBSET Providers,
               since : [latest : 0 .. MaxMigrations, active : SUBSET Providers],
               torn : BOOLEAN]

WriterTyped(s) ==
  /\ s \in WriterType
  /\ s.pc # "idle" => s.note \in Notes /\ s.new \in Chunks

StarterType == [pc : {"idle", "count", "ensure", "insert"}, from : Providers \cup {None},
                to : Providers \cup {None}, total : Nat]

CommandsTyped ==
  /\ starter \in StarterType
  /\ starter.pc # "idle" => /\ starter.from \in Providers /\ starter.to \in Providers
                            /\ latest < MaxMigrations
  /\ undoer \in [pc : {"idle", "mark", "flip"}, m : Ids \cup {0}]
  /\ undoer.pc # "idle" => undoer.m \in Started
  /\ pruner \in [pc : {"idle", "migration", "drop"}, p : Providers \cup {None}]
  /\ pruner.pc # "idle" => pruner.p \in Providers

WorkerPC == {"idle", "scan", "embed", "flip", "finish"}
LazyPC   == {"idle", "pick", "embed"}

ProcessesTyped ==
  /\ TaskTyped(worker, WorkerPC)
  /\ lazy \in [Lazies -> Tasks(LazyPC)]
  /\ \A l \in Lazies : TaskTyped(lazy[l], LazyPC)
  /\ writer \in [Writers -> WriterType]
  /\ \A w \in Writers : WriterTyped(writer[w])

Budgets == [faults : Nat, crashes : Nat]

Typed ==
  /\ TablesTyped
  /\ MigTyped
  /\ ProcessesTyped
  /\ CommandsTyped
  /\ up \in BOOLEAN
  /\ budget \in Budgets

LEMMA TypedTypeOK == Typed => TypeOK
BY DEF Typed, TypeOK, TablesTyped, MigTyped, ProcessesTyped, CommandsTyped, TaskTyped,
       WriterType, StarterType, Budgets, WorkerPC, LazyPC

LEMMA ChunksFinite ==
  ASSUME NEW S \in SUBSET Chunks
  PROVE  IsFiniteSet(S) /\ Cardinality(S) \in Nat
<1>1. IsFiniteSet(Chunks)
  BY FS_Interval, SizesAssumption DEF Chunks
<1> QED BY <1>1, FS_Subset, FS_CardinalityType

LEMMA LiveType == TablesTyped => Live \subseteq Chunks
BY DEF TablesTyped, Live

LEMMA InProgressStarted ==
  ASSUME MigTyped
  PROVE  InProgress \subseteq Started
BY DEF InProgress, MigTyped, NotStarted

LEMMA TypedInit == Init => Typed
<1> SUFFICES ASSUME Init PROVE Typed
  OBVIOUS
<1>1. Notes \subseteq Chunks /\ Corpus + 1 \in 1 .. MaxChunks + 1
  BY SizesAssumption DEF Notes, Chunks
<1>2. TablesTyped
  BY <1>1, ProvidersAssumption DEF Init, TablesTyped, Notes
<1>3. MigTyped
  BY SizesAssumption DEF Init, MigTyped, Migrations, NotStarted, Started, Ids
<1>4. ProcessesTyped
  BY SizesAssumption DEF Init, ProcessesTyped, TaskTyped, WriterTyped, Tasks, WriterType, IdleWorker, IdleLazy,
     IdleWriter, WorkerPC, LazyPC
<1>5. CommandsTyped
  BY DEF Init, CommandsTyped, StarterType, IdleStarter, IdleUndoer, IdlePruner
<1> QED BY <1>2, <1>3, <1>4, <1>5, SizesAssumption DEF Init, Typed, Budgets

LEMMA FaultType ==
  ASSUME budget \in Budgets, Fault
  PROVE  budget' \in Budgets
BY DEF Fault, Budgets

(* A batch keeps the types of what it writes.                              *)
LEMMA RecordedTyped ==
  ASSUME TablesTyped, MigTyped, NEW m \in Started, NEW batch \in SUBSET Chunks,
         NEW counter \in {"backfill", "lazy"}, Recorded(m, batch, counter),
         UNCHANGED <<reg, active, chunk, fresh, latest, late, dropped>>
  PROVE  TablesTyped' /\ MigTyped'
<1>1. m \in Ids /\ mig[m].to \in Providers
  BY SizesAssumption DEF MigTyped, Started, Ids
<1> DEFINE inserted == batch \ rows[mig[m].to]
           k == Cardinality(inserted)
<1>2. inserted \in SUBSET Chunks /\ k \in Nat
  BY ChunksFinite
<1>3. CASE UNCHANGED <<rows, mig, moved>>
  BY <1>3 DEF TablesTyped, MigTyped, Started
<1>4. CASE /\ rows' = [rows EXCEPT ![mig[m].to] = @ \cup inserted]
           /\ mig' = [mig EXCEPT ![m][counter] = @ + k]
           /\ moved' = [moved EXCEPT ![m] = @ \cup inserted]
  <2>1. TablesTyped'
    BY <1>1, <1>2, <1>4 DEF TablesTyped
  <2>2. mig' \in [Ids -> Migrations]
    BY <1>1, <1>2, <1>4 DEF MigTyped, Migrations
  <2>3. \A i \in Ids : /\ mig'[i].status = mig[i].status
                       /\ mig'[i].from = mig[i].from /\ mig'[i].to = mig[i].to
                       /\ i # m => mig'[i] = mig[i] /\ moved'[i] = moved[i]
    BY <1>1, <1>2, <1>4 DEF MigTyped, Migrations
  <2>4. Started \subseteq Ids
    BY SizesAssumption DEF MigTyped, Started, Ids
  <2>5. moved' \in [Ids -> SUBSET Chunks]
    BY <1>1, <1>2, <1>4 DEF MigTyped
  <2>6. Started' = Started
    BY DEF Started
  <2> QED BY <2>1, <2>2, <2>3, <2>4, <2>5, <2>6 DEF MigTyped
<1> QED BY <1>3, <1>4 DEF Recorded

(* So does a terminal status.                                              *)
LEMMA FinishedTyped ==
  ASSUME MigTyped, NEW m \in Started, NEW status \in {"complete", "rolled_back"},
         mig' = Finished(m, status), UNCHANGED <<latest, history>>
  PROVE  MigTyped'
<1>1. m \in Ids
  BY SizesAssumption DEF MigTyped, Started, Ids
<1> QED BY <1>1 DEF MigTyped, Finished, Migrations, Started, history

LEMMA StartedIds ==
  ASSUME MigTyped
  PROVE  Started \subseteq Ids /\ latest \in Nat
BY SizesAssumption DEF MigTyped, Started, Ids

-----------------------------------------------------------------------------
(* One lemma per process: what it changes keeps its type.                  *)

LEMMA TypedWorker ==
  ASSUME Typed, WorkerStep
  PROVE  Typed'
<1> USE DEF Typed
<1>a. Started \subseteq Ids /\ InProgress \subseteq Started /\ Live \subseteq Chunks
  BY StartedIds, InProgressStarted, LiveType
<1>b. worker \in Tasks(WorkerPC) /\ (worker.pc # "idle" => worker.m \in Started)
  BY DEF ProcessesTyped, TaskTyped
<1>c. TaskTyped(IdleWorker, WorkerPC)
  BY DEF TaskTyped, Tasks, WorkerPC, IdleWorker
<1>d. ASSUME NEW t, TaskTyped(t, WorkerPC), worker' = t, UNCHANGED <<lazy, writer, command, latest>>
      PROVE  ProcessesTyped' /\ CommandsTyped'
  <2>1. Started' = Started
    BY <1>d DEF Started
  <2>2. TaskTyped(worker, WorkerPC)'
    BY <1>d, <2>1 DEF TaskTyped
  <2> QED BY <1>d, <2>1, <2>2 DEF ProcessesTyped, CommandsTyped, TaskTyped, command
<1>e. ASSUME UNCHANGED <<db, history>>
      PROVE  TablesTyped' /\ MigTyped'
  BY <1>e DEF db, history, TablesTyped, MigTyped, Started
<1>1. CASE WorkerRead
  <2>1. PICK m \in InProgress : worker' = [pc |-> "scan", m |-> m, batch |-> {}]
    BY <1>1 DEF WorkerRead
  <2>2. TaskTyped([pc |-> "scan", m |-> m, batch |-> {}], WorkerPC)
    BY <1>a DEF TaskTyped, Tasks, WorkerPC
  <2> QED BY <1>1, <2>1, <2>2, <1>d, <1>e DEF WorkerRead, db
<1>2. CASE WorkerScan
  <2> DEFINE missing == Missing(mig[worker.m].to)
  <2>1. \A b \in Batches(missing) : b \in SUBSET Chunks
    BY <1>a DEF Batches, Missing
  <2>2. worker.m \in Started
    BY <1>2, <1>b DEF WorkerScan
  <2>3. TaskTyped([worker EXCEPT !.pc = "flip"], WorkerPC)
    BY <1>b, <2>2 DEF TaskTyped, Tasks, WorkerPC
  <2>4. \A b \in Batches(missing) :
          TaskTyped([worker EXCEPT !.pc = "embed", !.batch = b], WorkerPC)
    BY <1>b, <2>1, <2>2 DEF TaskTyped, Tasks, WorkerPC
  <2>5. \/ worker' = IdleWorker
        \/ worker' = [worker EXCEPT !.pc = "flip"]
        \/ \E b \in Batches(missing) : worker' = [worker EXCEPT !.pc = "embed", !.batch = b]
    BY <1>2 DEF WorkerScan
  <2>6. UNCHANGED <<lazy, writer, command, latest>> /\ UNCHANGED <<db, history>>
        /\ UNCHANGED <<up, budget>>
    BY <1>2 DEF WorkerScan, db
  <2> HIDE DEF missing
  <2>7. ProcessesTyped' /\ CommandsTyped'
    <3>1. CASE worker' = IdleWorker
      BY <3>1, <1>c, <1>d, <2>6
    <3>2. CASE worker' = [worker EXCEPT !.pc = "flip"]
      BY <3>2, <1>d, <2>3, <2>6
    <3>3. CASE \E b \in Batches(missing) : worker' = [worker EXCEPT !.pc = "embed", !.batch = b]
      BY <3>3, <1>d, <2>4, <2>6
    <3> QED BY <2>5, <3>1, <3>2, <3>3
  <2> QED BY <2>6, <2>7, <1>e
<1>3. CASE WorkerRecord
  <2>1. worker.m \in Started /\ worker.batch \in SUBSET Chunks
    BY <1>3, <1>b DEF WorkerRecord, Tasks
  <2>2. TablesTyped' /\ MigTyped'
    BY <1>3, <2>1, RecordedTyped DEF WorkerRecord
  <2> QED BY <1>3, <2>2, <1>c, <1>d DEF WorkerRecord
<1>4. CASE WorkerFlip
  <2>1. PICK t : worker' = t /\ TaskTyped(t, WorkerPC)
    <3>1. CASE worker' = IdleWorker
      BY <3>1, <1>c
    <3>2. CASE worker' = [worker EXCEPT !.pc = "finish"]
      <4>1. TaskTyped([worker EXCEPT !.pc = "finish"], WorkerPC)
        BY <1>4, <1>b DEF WorkerFlip, TaskTyped, Tasks, WorkerPC
      <4> QED BY <3>2, <4>1
    <3> QED BY <1>4, <3>1, <3>2 DEF WorkerFlip
  <2>2. TablesTyped' /\ MigTyped'
    BY <1>4 DEF WorkerFlip, Activated, TablesTyped, MigTyped, Started, history
  <2> QED BY <1>4, <2>1, <2>2, <1>d DEF WorkerFlip
<1>5. CASE WorkerFinish
  <2>1. MigTyped'
    BY <1>5, <1>b, FinishedTyped DEF WorkerFinish
  <2> QED BY <1>5, <2>1, <1>c, <1>d DEF WorkerFinish, TablesTyped
<1>6. CASE WorkerFail
  BY <1>6, <1>c, <1>d, <1>e, FaultType DEF WorkerFail, db
<1> QED BY <1>1, <1>2, <1>3, <1>4, <1>5, <1>6 DEF WorkerStep

LEMMA TypedLazy ==
  ASSUME Typed, NEW l \in Lazies, LazyStep(l)
  PROVE  Typed'
<1> USE DEF Typed
<1>a. Started \subseteq Ids /\ InProgress \subseteq Started /\ Live \subseteq Chunks
  BY StartedIds, InProgressStarted, LiveType
<1>b. lazy \in [Lazies -> Tasks(LazyPC)] /\ lazy[l] \in Tasks(LazyPC)
      /\ (lazy[l].pc # "idle" => lazy[l].m \in Started)
  BY DEF ProcessesTyped, TaskTyped
<1>c. TaskTyped(IdleLazy, LazyPC)
  BY DEF TaskTyped, Tasks, LazyPC, IdleLazy
<1>d. ASSUME NEW t, TaskTyped(t, LazyPC), lazy' = [lazy EXCEPT ![l] = t],
             UNCHANGED <<worker, writer, command, latest>>
      PROVE  ProcessesTyped' /\ CommandsTyped'
  <2>1. Started' = Started
    BY <1>d DEF Started
  <2>2. lazy' \in [Lazies -> Tasks(LazyPC)]'
    BY <1>b, <1>d, <2>1 DEF TaskTyped, Tasks
  <2>3. \A k \in Lazies : TaskTyped(lazy[k], LazyPC)'
    BY <1>b, <1>d, <2>1 DEF ProcessesTyped, TaskTyped
  <2> QED BY <1>d, <2>1, <2>2, <2>3 DEF ProcessesTyped, CommandsTyped, TaskTyped, command
<1>e. ASSUME UNCHANGED <<db, history>>
      PROVE  TablesTyped' /\ MigTyped'
  BY <1>e DEF db, history, TablesTyped, MigTyped, Started
<1>1. CASE LazyRead(l)
  <2>1. PICK m \in InProgress, served \in SUBSET Live \ {{}} :
           lazy' = [lazy EXCEPT ![l] = [pc |-> "pick", m |-> m, batch |-> served]]
    BY <1>1 DEF LazyRead
  <2>2. TaskTyped([pc |-> "pick", m |-> m, batch |-> served], LazyPC)
    BY <1>a DEF TaskTyped, Tasks, LazyPC
  <2> QED BY <1>1, <2>1, <2>2, <1>d, <1>e DEF LazyRead, db
<1>2. CASE LazyPick(l)
  <2> DEFINE missing == lazy[l].batch \cap Missing(mig[lazy[l].m].to)
             t == IF mig[lazy[l].m].to \notin reg \/ missing = {} THEN IdleLazy
                  ELSE [lazy[l] EXCEPT !.pc = "embed", !.batch = missing]
  <2>1. missing \in SUBSET Chunks
    BY <1>a DEF Missing
  <2>2. TaskTyped(t, LazyPC)
    BY <1>2, <1>b, <1>c, <2>1 DEF LazyPick, TaskTyped, Tasks, LazyPC
  <2>3. lazy' = [lazy EXCEPT ![l] = t]
    BY <1>2, <1>b DEF LazyPick
  <2> QED BY <1>2, <2>2, <2>3, <1>d, <1>e DEF LazyPick, db
<1>3. CASE LazyRecord(l)
  <2>1. lazy[l].m \in Started /\ lazy[l].batch \in SUBSET Chunks
    BY <1>3, <1>b DEF LazyRecord, Tasks
  <2>2. TablesTyped' /\ MigTyped'
    BY <1>3, <2>1, RecordedTyped DEF LazyRecord
  <2> QED BY <1>3, <2>2, <1>c, <1>d DEF LazyRecord
<1>4. CASE LazyFail(l)
  BY <1>4, <1>c, <1>d, <1>e, FaultType DEF LazyFail, db
<1> QED BY <1>1, <1>2, <1>3, <1>4 DEF LazyStep

LEMMA TypedWriter ==
  ASSUME Typed, NEW w \in Writers, WriterStep(w)
  PROVE  Typed'
<1> USE DEF Typed
<1>a. Started \subseteq Ids /\ InProgress \subseteq Started
  BY StartedIds, InProgressStarted
<1>b. writer \in [Writers -> WriterType] /\ WriterTyped(writer[w])
  BY DEF ProcessesTyped
<1>c. WriterTyped(IdleWriter)
  BY SizesAssumption DEF WriterTyped, WriterType, IdleWriter
<1>d. ASSUME NEW s, WriterTyped(s), writer' = [writer EXCEPT ![w] = s],
             UNCHANGED <<worker, lazy, command, latest>>
      PROVE  ProcessesTyped' /\ CommandsTyped'
  <2>1. Started' = Started
    BY <1>d DEF Started
  <2>2. writer' \in [Writers -> WriterType] /\ \A v \in Writers : WriterTyped(writer[v])'
    BY <1>b, <1>d DEF ProcessesTyped, WriterTyped
  <2> QED BY <1>d, <2>1, <2>2 DEF ProcessesTyped, CommandsTyped, TaskTyped, command
<1>e. ASSUME UNCHANGED <<db, history>>
      PROVE  TablesTyped' /\ MigTyped'
  BY <1>e DEF db, history, TablesTyped, MigTyped, Started
<1>1. CASE \E n \in Notes : WriterActive(w, n)
  <2>1. PICK n \in Notes : WriterActive(w, n)
    BY <1>1
  <2>2. PICK a \in active :
           writer' = [writer EXCEPT ![w] = [pc |-> "migration", note |-> n, new |-> fresh,
                                            targets |-> {a}, since |-> Epoch, torn |-> FALSE]]
    BY <2>1 DEF WriterActive
  <2>3. fresh \in Chunks /\ fresh + 1 \in 1 .. MaxChunks + 1
    BY <2>1, SizesAssumption DEF WriterActive, TablesTyped, Chunks
  <2>4. WriterTyped([pc |-> "migration", note |-> n, new |-> fresh,
                     targets |-> {a}, since |-> Epoch, torn |-> FALSE])
    BY <2>3 DEF WriterTyped, WriterType, Epoch, TablesTyped, MigTyped
  <2>5. TablesTyped' /\ MigTyped'
    BY <2>1, <2>3 DEF WriterActive, TablesTyped, MigTyped, Started, history
  <2> QED BY <2>1, <2>2, <2>4, <2>5, <1>d DEF WriterActive
<1>2. CASE WriterMigration(w)
  <2> DEFINE s == [writer[w] EXCEPT !.pc = "commit",
                                    !.targets = @ \cup {mig[m].to : m \in InProgress}]
  <2>1. {mig[m].to : m \in InProgress} \subseteq Providers
    BY <1>a DEF MigTyped
  <2>2. WriterTyped(s)
    BY <1>2, <1>b, <2>1 DEF WriterMigration, WriterTyped, WriterType
  <2>3. writer' = [writer EXCEPT ![w] = s]
    BY <1>2, <1>b DEF WriterMigration
  <2> QED BY <1>2, <2>2, <2>3, <1>d, <1>e DEF WriterMigration, db
<1>3. CASE WriterMigrationFails(w)
  <2> DEFINE s == [writer[w] EXCEPT !.pc = "commit", !.torn = TRUE]
  <2>1. WriterTyped(s)
    BY <1>3, <1>b DEF WriterMigrationFails, WriterTyped, WriterType
  <2>2. writer' = [writer EXCEPT ![w] = s]
    BY <1>3, <1>b DEF WriterMigrationFails
  <2> QED BY <1>3, <2>1, <2>2, <1>d, <1>e, FaultType DEF WriterMigrationFails, db
<1>4. CASE WriterCommit(w)
  <2>1. writer[w].note \in Notes /\ writer[w].new \in Chunks
    BY <1>4, <1>b DEF WriterCommit, WriterTyped
  <2>2. TablesTyped'
    BY <1>4, <2>1 DEF WriterCommit, Cascaded, TablesTyped
  <2>3. MigTyped'
    BY <1>4, <2>1 DEF WriterCommit, MigTyped, Started
  <2> QED BY <1>4, <2>2, <2>3, <1>c, <1>d DEF WriterCommit
<1>5. CASE WriterFail(w)
  BY <1>5, <1>c, <1>d, <1>e, FaultType DEF WriterFail, db
<1> QED BY <1>1, <1>2, <1>3, <1>4, <1>5 DEF WriterStep

LEMMA TypedDelete ==
  ASSUME Typed, NEW n \in Notes, DeleteNote(n)
  PROVE  Typed'
<1>1. TablesTyped'
  BY DEF DeleteNote, Typed, TablesTyped, Cascaded
<1>2. MigTyped' /\ ProcessesTyped' /\ CommandsTyped'
  BY DEF DeleteNote, Typed, MigTyped, ProcessesTyped, CommandsTyped, Started, TaskTyped, history, command
<1> QED BY <1>1, <1>2 DEF DeleteNote, Typed

LEMMA TypedCommand ==
  ASSUME Typed, CommandStep
  PROVE  Typed'
<1> USE DEF Typed
<1>a. Started \subseteq Ids /\ InProgress \subseteq Started /\ latest \in Nat
  BY StartedIds, InProgressStarted
<1>b. ASSUME UNCHANGED <<worker, lazy, writer, latest>>
      PROVE  ProcessesTyped' /\ Started' = Started
  BY <1>b DEF ProcessesTyped, TaskTyped, Started
<1>c. ASSUME UNCHANGED <<db, history>>
      PROVE  TablesTyped' /\ MigTyped'
  BY <1>c DEF db, history, TablesTyped, MigTyped, Started
<1>1. CASE \E from, to \in Providers : StartCheck(from, to)
  <2>1. CommandsTyped'
    BY <1>1, <1>a DEF StartCheck, CommandsTyped, StarterType, Started, db
  <2> QED BY <1>1, <2>1, <1>b, <1>c DEF StartCheck, db
<1>2. CASE StartCount
  <2>1. Cardinality(Live) \in Nat
    BY LiveType, ChunksFinite
  <2>2. CommandsTyped'
    BY <1>2, <2>1 DEF StartCount, CommandsTyped, StarterType, Started, db
  <2> QED BY <1>2, <2>2, <1>b, <1>c DEF StartCount, db
<1>3. CASE StartEnsure
  <2>1. TablesTyped' /\ MigTyped'
    BY <1>3 DEF StartEnsure, TablesTyped, MigTyped, CommandsTyped, Started, history
  <2>2. CommandsTyped'
    BY <1>3 DEF StartEnsure, CommandsTyped, StarterType, Started
  <2> QED BY <1>3, <2>1, <2>2, <1>b DEF StartEnsure
<1>4. CASE StartInsert
  <2>1. /\ starter \in StarterType /\ starter.from \in Providers /\ starter.to \in Providers
        /\ latest < MaxMigrations
    BY <1>4 DEF StartInsert, CommandsTyped
  <2> DEFINE r == [from |-> starter.from, to |-> starter.to, status |-> "in_progress",
                   paused |-> FALSE, total |-> starter.total, backfill |-> 0, lazy |-> 0]
  <2>2. r \in Migrations /\ r.status = "in_progress" /\ r.from \in Providers /\ r.to \in Providers
    BY <2>1 DEF Migrations, StarterType
  <2>3. /\ latest + 1 \in Ids /\ latest + 1 \in 0 .. MaxMigrations
        /\ Started' = Started \cup {latest + 1}
    BY <1>4, <2>1, <1>a, SizesAssumption DEF StartInsert, Ids, Started
  <2>4. mig' = [mig EXCEPT ![latest + 1] = r] /\ UNCHANGED <<moved, late, dropped>>
        /\ latest' = latest + 1
    BY <1>4 DEF StartInsert, history
  <2> HIDE DEF r
  <2>5. MigTyped'
    <3>1. mig' \in [Ids -> Migrations] /\ mig'[latest + 1] = r
          /\ \A m \in Ids \ {latest + 1} : mig'[m] = mig[m]
      BY <2>2, <2>3, <2>4 DEF MigTyped
    <3> QED BY <3>1, <2>2, <2>3, <2>4, <1>a DEF MigTyped
  <2>6. TablesTyped'
    BY <1>4 DEF StartInsert, TablesTyped
  <2>7. ProcessesTyped'
    BY <1>4, <2>3 DEF StartInsert, ProcessesTyped, TaskTyped
  <2>8. CommandsTyped'
    BY <1>4, <2>3 DEF StartInsert, CommandsTyped, StarterType, IdleStarter
  <2> QED BY <1>4, <2>5, <2>6, <2>7, <2>8 DEF StartInsert
<1>5. CASE StartBrokenOff
  <2>1. CommandsTyped'
    BY <1>5 DEF StartBrokenOff, CommandsTyped, StarterType, IdleStarter, Started, db
  <2> QED BY <1>5, <2>1, <1>b, <1>c, FaultType DEF StartBrokenOff, db
<1>6. CASE SetPaused
  <2>1. MigTyped'
    <3>1. PICK m \in InProgress : mig' = [mig EXCEPT ![m].paused = ~@]
      BY <1>6 DEF SetPaused
    <3>2. m \in Started /\ m \in Ids /\ mig[m] \in Migrations
      BY <1>a DEF MigTyped
    <3>3. [mig[m] EXCEPT !.paused = ~@] \in Migrations
      BY <3>2 DEF Migrations
    <3>4. mig' = [mig EXCEPT ![m] = [mig[m] EXCEPT !.paused = ~@]]
      BY <3>1
    <3>5. Started' = Started /\ UNCHANGED <<latest, moved, late, dropped>>
      BY <1>6 DEF SetPaused, Started, history
    <3> QED BY <3>2, <3>3, <3>4, <3>5 DEF MigTyped, Migrations
  <2>2. TablesTyped' /\ CommandsTyped'
    BY <1>6 DEF SetPaused, TablesTyped, CommandsTyped, Started, command
  <2> QED BY <1>6, <2>1, <2>2, <1>b DEF SetPaused
<1>7. CASE RollbackRead
  <2>1. undoer' \in [pc : {"idle", "mark", "flip"}, m : Ids \cup {0}] /\ undoer'.m \in Started
    <3>1. CASE \E m \in InProgress : undoer' = [pc |-> "mark", m |-> m]
      BY <3>1, <1>a
    <3>2. CASE latest # 0 /\ undoer' = [pc |-> "flip", m |-> latest]
      <4>1. latest \in Started
        BY <3>2, <1>a DEF Started
      <4> QED BY <3>2, <4>1, <1>a
    <3> QED BY <1>7, <3>1, <3>2 DEF RollbackRead
  <2>2. CommandsTyped'
    BY <1>7, <2>1 DEF RollbackRead, CommandsTyped, Started, db
  <2> QED BY <1>7, <2>2, <1>b, <1>c DEF RollbackRead, db
<1>8. CASE RollbackMark
  <2>1. undoer.m \in Started
    BY <1>8 DEF RollbackMark, CommandsTyped
  <2>2. MigTyped'
    BY <1>8, <2>1, FinishedTyped DEF RollbackMark
  <2>3. TablesTyped' /\ CommandsTyped'
    BY <1>8 DEF RollbackMark, TablesTyped, CommandsTyped, IdleUndoer, Started
  <2> QED BY <1>8, <2>2, <2>3, <1>b DEF RollbackMark
<1>9. CASE RollbackFlip
  <2>1. TablesTyped' /\ MigTyped'
    BY <1>9 DEF RollbackFlip, Activated, TablesTyped, MigTyped, Started, history
  <2>2. CommandsTyped'
    BY <1>9 DEF RollbackFlip, CommandsTyped, IdleUndoer, Started
  <2> QED BY <1>9, <2>1, <2>2, <1>b DEF RollbackFlip
<1>10. CASE \E p \in Providers : PruneActive(p)
  <2>1. budget' \in Budgets
    BY <1>10, FaultType DEF PruneActive
  <2>2. CommandsTyped'
    BY <1>10 DEF PruneActive, CommandsTyped, Started, db
  <2> QED BY <1>10, <2>1, <2>2, <1>b, <1>c DEF PruneActive, db
<1>11. CASE PruneMigration
  <2>1. budget' \in Budgets
    BY <1>11, FaultType DEF PruneMigration
  <2>2. CommandsTyped'
    BY <1>11 DEF PruneMigration, CommandsTyped, IdlePruner, Started, db
  <2> QED BY <1>11, <2>1, <2>2, <1>b, <1>c DEF PruneMigration, db
<1>12. CASE PruneDrop
  <2>1. pruner.p \in Providers
    BY <1>12 DEF PruneDrop, CommandsTyped
  <2>2. TablesTyped'
    BY <1>12, <2>1 DEF PruneDrop, TablesTyped
  <2>3. MigTyped'
    BY <1>12, <1>a DEF PruneDrop, MigTyped, Started
  <2>4. CommandsTyped'
    BY <1>12 DEF PruneDrop, CommandsTyped, IdlePruner, Started
  <2> QED BY <1>12, <2>2, <2>3, <2>4, <1>b DEF PruneDrop
<1> QED BY <1>1, <1>2, <1>3, <1>4, <1>5, <1>6, <1>7, <1>8, <1>9, <1>10, <1>11, <1>12 DEF CommandStep

LEMMA TypedCrash ==
  ASSUME Typed, Crash
  PROVE  Typed'
<1>1. TaskTyped(IdleWorker, WorkerPC) /\ TaskTyped(IdleLazy, LazyPC) /\ WriterTyped(IdleWriter)
  BY SizesAssumption DEF TaskTyped, WriterTyped, Tasks, WriterType, IdleWorker, IdleLazy, IdleWriter,
     WorkerPC, LazyPC
<1>2. Started' = Started
  BY DEF Crash, db, Started
<1>3. ProcessesTyped'
  BY <1>1, <1>2 DEF Crash, ProcessesTyped, TaskTyped, WriterTyped
<1>4. TablesTyped' /\ MigTyped' /\ CommandsTyped'
  BY <1>2 DEF Crash, Typed, TablesTyped, MigTyped, CommandsTyped, db, command, history
<1>5. up' \in BOOLEAN /\ budget' \in Budgets
  <2>1. budget \in Budgets /\ budget.crashes > 0 /\ budget' = [budget EXCEPT !.crashes = @ - 1] /\ up' = FALSE
    BY DEF Crash, Typed
  <2>2. budget.crashes - 1 \in Nat
    BY <2>1 DEF Budgets
  <2> QED BY <2>1, <2>2 DEF Budgets
<1> QED BY <1>3, <1>4, <1>5 DEF Typed

LEMMA TypedBoot ==
  ASSUME Typed, NEW p \in Configured, Boot(p)
  PROVE  Typed'
<1>1. p \in Providers /\ Missing(p) \subseteq Chunks
  BY ProvidersAssumption, LiveType DEF Missing, Typed
<1>2. TablesTyped'
  BY <1>1 DEF Boot, Typed, TablesTyped
<1>3. MigTyped'
  BY <1>1 DEF Boot, Typed, MigTyped, Started
<1>4. ProcessesTyped' /\ CommandsTyped'
  BY DEF Boot, Typed, ProcessesTyped, CommandsTyped, Started, TaskTyped, command
<1> QED BY <1>2, <1>3, <1>4 DEF Boot, Typed

LEMMA TypedStep == Typed /\ [Next]_vars => Typed'
<1> SUFFICES ASSUME Typed, [Next]_vars PROVE Typed'
  OBVIOUS
<1>1. CASE UNCHANGED vars
  BY <1>1 DEF vars, db, command, history, Typed, TablesTyped, MigTyped, ProcessesTyped, CommandsTyped,
     TaskTyped, WriterTyped, Started
<1>2. CASE Next
  BY <1>2, TypedWorker, TypedLazy, TypedWriter, TypedDelete, TypedCommand, TypedCrash, TypedBoot DEF Next
<1> QED BY <1>1, <1>2

LEMMA AlwaysTyped == Spec => []Typed
BY TypedInit, TypedStep, PTL DEF Spec

(* Every state has its type: in particular the active providers are        *)
(* registered, whatever is started, rolled back, pruned and booted when.   *)
THEOREM TypeCorrect == Spec => []TypeOK
BY AlwaysTyped, TypedTypeOK, PTL

-----------------------------------------------------------------------------
(* What is over stays over.                                                *)

(* Only in StartInsert and Finished does a status change: the row a start  *)
(* writes was not started, and Finished looks at the status.               *)
LEMMA StatusKept ==
  ASSUME Typed, Next, NEW m \in Ids, mig[m].status \in {"complete", "rolled_back"}
  PROVE  mig'[m].status = mig[m].status
<1>a. Started \subseteq Ids /\ InProgress \subseteq Started /\ latest \in Nat
  BY StartedIds, InProgressStarted DEF Typed
<1>b. mig \in [Ids -> Migrations] /\ \A i \in Ids \ Started : mig[i].status = "none"
  BY DEF Typed, MigTyped, NotStarted
<1>c. ASSUME NEW i \in Ids, NEW batch, NEW counter \in {"backfill", "lazy"}, Recorded(i, batch, counter)
      PROVE  mig'[m].status = mig[m].status
  BY <1>b, <1>c DEF Recorded, Migrations
<1>d. ASSUME NEW i \in Ids, NEW status, mig' = Finished(i, status)
      PROVE  mig'[m].status = mig[m].status
  BY <1>b, <1>d DEF Finished, Migrations
<1>1. CASE WorkerRecord \/ WorkerFinish
  <2>1. worker.m \in Ids
    BY <1>1, <1>a DEF Typed, ProcessesTyped, TaskTyped, WorkerRecord, WorkerFinish
  <2> QED BY <1>1, <2>1, <1>c, <1>d DEF WorkerRecord, WorkerFinish
<1>2. CASE \E l \in Lazies : LazyRecord(l)
  <2>1. PICK l \in Lazies : LazyRecord(l)
    BY <1>2
  <2>2. lazy[l].m \in Ids
    BY <2>1, <1>a DEF Typed, ProcessesTyped, TaskTyped, LazyRecord
  <2> QED BY <2>1, <2>2, <1>c DEF LazyRecord
<1>3. CASE StartInsert
  <2>1. latest + 1 \notin Started
    BY <1>a DEF Started
  <2>2. m # latest + 1
    BY <1>b, <2>1
  <2> QED BY <1>3, <1>b, <2>2 DEF StartInsert
<1>4. CASE SetPaused
  BY <1>4, <1>a, <1>b DEF SetPaused, Migrations
<1>5. CASE RollbackMark
  <2>1. undoer.m \in Ids
    BY <1>5, <1>a DEF Typed, CommandsTyped, RollbackMark
  <2> QED BY <1>5, <2>1, <1>d DEF RollbackMark
<1>6. CASE UNCHANGED mig
  BY <1>6
<1> QED
  <2>1. CASE WorkerStep
    BY <2>1, <1>1, <1>6 DEF WorkerStep, WorkerRead, WorkerScan, WorkerFlip, WorkerFail, db
  <2>2. CASE \E l \in Lazies : LazyStep(l)
    BY <2>2, <1>2, <1>6 DEF LazyStep, LazyRead, LazyPick, LazyFail, db
  <2>3. CASE \E w \in Writers : WriterStep(w)
    BY <2>3, <1>6 DEF WriterStep, WriterActive, WriterMigration, WriterMigrationFails, WriterCommit,
       WriterFail, db
  <2>4. CASE (\E n \in Notes : DeleteNote(n)) \/ Crash \/ \E p \in Configured : Boot(p)
    BY <2>4, <1>6 DEF DeleteNote, Crash, Boot, db
  <2>5. CASE CommandStep
    BY <2>5, <1>3, <1>4, <1>5, <1>6 DEF CommandStep, StartCheck, StartCount, StartEnsure, StartBrokenOff,
       RollbackRead, RollbackFlip, PruneActive, PruneMigration, PruneDrop, db
  <2> QED BY <2>1, <2>2, <2>3, <2>4, <2>5 DEF Next

(* A migration that has ended keeps its status, for however many processes *)
(* and whatever they have read before.                                     *)
THEOREM EndedStays == Spec => EndedForGood
<1> DEFINE Kept == \A m \in Ids : mig[m].status \in {"complete", "rolled_back"} => mig'[m].status = mig[m].status
<1>1. Typed /\ [Next]_vars => [Kept]_vars
  BY StatusKept
<1> QED BY AlwaysTyped, <1>1, PTL DEF Spec, EndedForGood

-----------------------------------------------------------------------------
(* Every chunk is credited once.  CreditedOnce is not inductive: a batch   *)
(* credits the chunks that had no row, so what a migration has embedded    *)
(* must still have its row for as long as the chunk lives (Landed).  That  *)
(* in turn needs that a chunk belongs to one note, or replacing one note   *)
(* would take another's row (ChunkIds), and that the chunk a write in      *)
(* flight holds is known to no table yet (WriterIds).                      *)

ChunkIds ==
  /\ \A n \in Notes : chunk[n] # None => chunk[n] < fresh
  /\ \A m \in Ids : \A c \in moved[m] : c < fresh
  /\ \A n, k \in Notes : chunk[n] # None /\ chunk[n] = chunk[k] => n = k

WriterIds ==
  \A w \in Writers : writer[w].pc # "idle" =>
    /\ writer[w].new < fresh
    /\ writer[w].new \notin Live
    /\ \A m \in Ids : writer[w].new \notin moved[m]
    /\ \A v \in Writers \ {w} : writer[v].pc # "idle" => writer[v].new # writer[w].new

Landed == \A m \in Ids \ dropped : moved[m] \cap Live \subseteq rows[mig[m].to]

Credit == ChunkIds /\ WriterIds /\ Landed /\ CreditedOnce

LEMMA CreditInit == Init => Credit
<1> SUFFICES ASSUME Init PROVE Credit
  OBVIOUS
<1>1. ChunkIds
  BY SizesAssumption DEF Init, ChunkIds, Notes
<1>2. WriterIds
  BY DEF Init, WriterIds, IdleWriter
<1>3. Landed
  BY DEF Init, Landed
<1>4. CreditedOnce
  BY FS_EmptySet DEF Init, CreditedOnce, NotStarted
<1> QED BY <1>1, <1>2, <1>3, <1>4 DEF Credit

(* A step that writes no row and moves no counter; a writer may go on or   *)
(* end.                                                                    *)
LEMMA CreditQuiet ==
  ASSUME Credit, UNCHANGED <<rows, chunk, fresh, moved, dropped>>,
         \A m \in Ids : /\ mig'[m].to = mig[m].to
                        /\ mig'[m].backfill = mig[m].backfill /\ mig'[m].lazy = mig[m].lazy,
         \A v \in Writers : writer'[v].pc # "idle" =>
                             writer[v].pc # "idle" /\ writer'[v].new = writer[v].new
  PROVE  Credit'
<1>1. Live' = Live
  BY DEF Live
<1>2. ChunkIds'
  BY DEF Credit, ChunkIds
<1>3. WriterIds'
  BY <1>1 DEF Credit, WriterIds
<1>4. Landed'
  BY <1>1 DEF Credit, Landed
<1>5. CreditedOnce'
  BY DEF Credit, CreditedOnce
<1> QED BY <1>2, <1>3, <1>4, <1>5 DEF Credit

LEMMA CreditRecorded ==
  ASSUME Typed, Credit, NEW m \in Ids, NEW batch \in SUBSET Chunks,
         NEW counter \in {"backfill", "lazy"}, Recorded(m, batch, counter),
         UNCHANGED <<chunk, fresh, dropped, writer>>
  PROVE  Credit'
<1> DEFINE to       == mig[m].to
           inserted == batch \ rows[mig[m].to]
<1>1. CASE UNCHANGED <<rows, mig, moved>>
  BY <1>1, CreditQuiet
<1>2. CASE to \in reg /\ batch \subseteq Live
  <2>1. /\ rows' = [rows EXCEPT ![to] = @ \cup inserted]
        /\ mig' = [mig EXCEPT ![m][counter] = @ + Cardinality(inserted)]
        /\ moved' = [moved EXCEPT ![m] = @ \cup inserted]
    BY <1>2 DEF Recorded
  <2>2. /\ mig \in [Ids -> Migrations] /\ moved \in [Ids -> SUBSET Chunks]
        /\ rows \in [Providers -> SUBSET Chunks] /\ to \in Providers
    BY <1>2 DEF Typed, MigTyped, TablesTyped
  <2>3. inserted \subseteq Live /\ inserted \in SUBSET Chunks /\ inserted \cap rows[to] = {}
    BY <1>2
  <2>4. Live' = Live
    BY DEF Live
  <2>5. /\ moved'[m] = moved[m] \cup inserted
        /\ \A i \in Ids \ {m} : moved'[i] = moved[i] /\ mig'[i] = mig[i]
        /\ \A i \in Ids : mig'[i].to = mig[i].to
    BY <2>1, <2>2 DEF Migrations
  <2>6. rows'[to] = rows[to] \cup inserted /\ \A p \in Providers : rows[p] \subseteq rows'[p]
    BY <2>1, <2>2
  <2> HIDE DEF inserted, to
  <2>7. ChunkIds'
    <3>1. \A c \in inserted : c < fresh
      BY <2>3 DEF Live, Credit, ChunkIds
    <3> QED BY <2>5, <3>1 DEF Credit, ChunkIds
  <2>8. WriterIds'
    BY <2>3, <2>4, <2>5 DEF Credit, WriterIds
  <2>9. Landed'
    <3> SUFFICES ASSUME NEW i \in Ids \ dropped, NEW c \in moved'[i] \cap Live
                 PROVE  c \in rows'[mig[i].to]
      BY <2>4, <2>5 DEF Landed
    <3>1. CASE c \in moved[i]
      <4>1. mig[i].to \in Providers
        <5>1. i \in Started
          BY <3>1 DEF Typed, MigTyped
        <5> QED BY <5>1 DEF Typed, MigTyped
      <4> QED BY <3>1, <4>1, <2>6 DEF Credit, Landed
    <3>2. CASE c \notin moved[i]
      <4>1. i = m /\ c \in inserted
        BY <3>2, <2>5
      <4> QED BY <4>1, <2>6 DEF to
    <3> QED BY <3>1, <3>2
  <2>10. CreditedOnce'
    <3> SUFFICES ASSUME NEW i \in Ids \ dropped
                 PROVE  mig'[i].backfill + mig'[i].lazy = Cardinality(moved'[i])
      BY DEF CreditedOnce
    <3>1. CASE i # m
      BY <3>1, <2>5 DEF Credit, CreditedOnce
    <3>2. CASE i = m
      <4>1. moved[m] \cap inserted = {}
        BY <2>3, <3>2 DEF Credit, Landed, to
      <4>2. /\ IsFiniteSet(moved[m]) /\ Cardinality(moved[m]) \in Nat
            /\ IsFiniteSet(inserted) /\ Cardinality(inserted) \in Nat
        BY <2>2, <2>3, ChunksFinite
      <4>3. Cardinality(moved'[m]) = Cardinality(moved[m]) + Cardinality(inserted)
        <5>1. Cardinality(moved[m] \cup inserted) =
                Cardinality(moved[m]) + Cardinality(inserted) - Cardinality(moved[m] \cap inserted)
          BY <4>2, FS_Union
        <5>2. Cardinality(moved[m] \cap inserted) = 0
          BY <4>1, FS_EmptySet
        <5> QED BY <5>1, <5>2, <4>2, <2>5
      <4>4. mig'[m].backfill + mig'[m].lazy = mig[m].backfill + mig[m].lazy + Cardinality(inserted)
        BY <2>1, <2>2, <4>2 DEF Migrations
      <4>5. mig[m].backfill + mig[m].lazy = Cardinality(moved[m])
        BY <3>2 DEF Credit, CreditedOnce
      <4> QED BY <3>2, <4>3, <4>4, <4>5
    <3> QED BY <3>1, <3>2
  <2> QED BY <2>7, <2>8, <2>9, <2>10 DEF Credit
<1> QED BY <1>1, <1>2 DEF Recorded

LEMMA CreditFinished ==
  ASSUME Typed, Credit, NEW m \in Ids, NEW status, mig' = Finished(m, status),
         UNCHANGED <<rows, chunk, fresh, moved, dropped, writer>>
  PROVE  Credit'
<1>1. mig \in [Ids -> Migrations]
  BY DEF Typed, MigTyped
<1>2. \A i \in Ids : /\ mig'[i].to = mig[i].to
                     /\ mig'[i].backfill = mig[i].backfill /\ mig'[i].lazy = mig[i].lazy
  BY <1>1 DEF Finished, Migrations
<1> QED BY <1>2, CreditQuiet

LEMMA CreditWriterActive ==
  ASSUME Typed, Credit, NEW w \in Writers, NEW n \in Notes, WriterActive(w, n)
  PROVE  Credit'
<1>1. /\ writer \in [Writers -> WriterType] /\ chunk \in [Notes -> Chunks \cup {None}]
      /\ moved \in [Ids -> SUBSET Chunks] /\ fresh \in Nat
  BY SizesAssumption DEF Typed, ProcessesTyped, MigTyped, TablesTyped
<1>2. /\ \A v \in Writers \ {w} : writer'[v] = writer[v]
      /\ writer'[w].new = fresh /\ fresh' = fresh + 1
      /\ UNCHANGED <<rows, chunk, mig, moved, dropped>>
  BY <1>1 DEF WriterActive, history
<1>3. Live' = Live /\ Live \subseteq Chunks
  BY <1>2, LiveType DEF Live, Typed
<1>4. \A c \in Live : c < fresh
  BY DEF Live, Credit, ChunkIds
<1>5. ChunkIds'
  BY <1>1, <1>2 DEF Credit, ChunkIds, Chunks
<1>6. WriterIds'
  <2>1. \A v \in Writers \ {w} : writer[v].new \in Nat /\ (writer[v].pc # "idle" => writer[v].new < fresh)
    BY <1>1 DEF Credit, WriterIds, WriterType, Chunks
  <2>2. fresh \notin Live /\ \A m \in Ids : fresh \notin moved[m]
    BY <1>1, <1>4 DEF Credit, ChunkIds
  <2> QED BY <1>1, <1>2, <1>3, <2>1, <2>2 DEF Credit, WriterIds
<1>7. Landed' /\ CreditedOnce'
  BY <1>2, <1>3 DEF Credit, Landed, CreditedOnce
<1> QED BY <1>5, <1>6, <1>7 DEF Credit

LEMMA CreditWriterCommit ==
  ASSUME Typed, Credit, NEW w \in Writers, WriterCommit(w)
  PROVE  Credit'
<1> DEFINE n == writer[w].note
           c == writer[w].new
<1>1. /\ writer \in [Writers -> WriterType] /\ chunk \in [Notes -> Chunks \cup {None}]
      /\ rows \in [Providers -> SUBSET Chunks] /\ n \in Notes /\ c \in Chunks
      /\ writer[w].pc # "idle" /\ c # None
  BY ProvidersAssumption DEF WriterCommit, Typed, ProcessesTyped, WriterTyped, TablesTyped, Chunks
<1>2. /\ \A v \in Writers \ {w} : writer'[v] = writer[v]
      /\ writer'[w].pc = "idle"
      /\ UNCHANGED <<fresh, mig, moved, dropped>>
  BY <1>1 DEF WriterCommit, IdleWriter
<1>3. CASE UNCHANGED <<chunk, rows>>
  BY <1>1, <1>2, <1>3, CreditQuiet
<1>4. CASE /\ chunk' = [chunk EXCEPT ![n] = c]
           /\ rows' = [p \in Providers |-> IF p \in writer[w].targets THEN Cascaded(n)[p] \cup {c}
                                            ELSE Cascaded(n)[p]]
  <2>1. chunk'[n] = c /\ \A k \in Notes \ {n} : chunk'[k] = chunk[k]
    BY <1>1, <1>4
  <2>2. \A p \in Providers : rows[p] \ {chunk[n]} \subseteq rows'[p]
    BY <1>4 DEF Cascaded
  <2>3. /\ c < fresh /\ c \notin Live /\ \A m \in Ids : c \notin moved[m]
        /\ \A v \in Writers \ {w} : writer[v].pc # "idle" => writer[v].new # c
    BY <1>1 DEF Credit, WriterIds
  <2> HIDE DEF n, c
  <2>4. \A x \in Live' : x = c \/ (x \in Live /\ x # chunk[n])
    <3> SUFFICES ASSUME NEW k \in Notes, chunk'[k] # None, chunk'[k] # c
                 PROVE  chunk'[k] \in Live /\ chunk'[k] # chunk[n]
      BY DEF Live
    <3>1. k # n /\ chunk'[k] = chunk[k]
      BY <2>1
    <3> QED BY <1>1, <3>1 DEF Live, Credit, ChunkIds
  <2>5. ChunkIds'
    <3>1. \A k \in Notes : chunk[k] # None => chunk[k] # c
      BY <2>3 DEF Live
    <3> QED BY <1>1, <1>2, <2>1, <2>3, <3>1 DEF Credit, ChunkIds
  <2>6. WriterIds'
    BY <1>2, <2>3, <2>4 DEF Credit, WriterIds
  <2>7. Landed'
    <3> SUFFICES ASSUME NEW m \in Ids \ dropped, NEW x \in moved[m] \cap Live'
                 PROVE  x \in rows'[mig[m].to]
      BY <1>2 DEF Landed
    <3>1. x \in Live /\ x # chunk[n]
      BY <2>3, <2>4
    <3>2. mig[m].to \in Providers
      BY DEF Typed, MigTyped
    <3>3. x \in rows[mig[m].to]
      BY <3>1 DEF Credit, Landed
    <3> QED BY <3>1, <3>2, <3>3, <2>2
  <2>8. CreditedOnce'
    BY <1>2 DEF Credit, CreditedOnce
  <2> QED BY <2>5, <2>6, <2>7, <2>8 DEF Credit
<1> QED BY <1>3, <1>4 DEF WriterCommit

LEMMA CreditDelete ==
  ASSUME Typed, Credit, NEW n \in Notes, DeleteNote(n)
  PROVE  Credit'
<1>1. /\ chunk \in [Notes -> Chunks \cup {None}] /\ rows \in [Providers -> SUBSET Chunks]
      /\ UNCHANGED <<fresh, mig, moved, dropped, writer>>
  BY DEF DeleteNote, Typed, TablesTyped, history
<1>2. chunk'[n] = None /\ \A k \in Notes \ {n} : chunk'[k] = chunk[k]
  BY <1>1 DEF DeleteNote
<1>3. \A p \in Providers : rows'[p] = rows[p] \ {chunk[n]}
  BY DEF DeleteNote, Cascaded
<1>4. \A x \in Live' : x \in Live /\ x # chunk[n]
  <2> SUFFICES ASSUME NEW k \in Notes, chunk'[k] # None
               PROVE  chunk'[k] \in Live /\ chunk'[k] # chunk[n]
    BY DEF Live
  <2>1. k # n /\ chunk'[k] = chunk[k]
    BY <1>2
  <2> QED BY <1>1, <2>1 DEF Live, Credit, ChunkIds
<1>5. ChunkIds'
  BY <1>1, <1>2 DEF Credit, ChunkIds
<1>6. WriterIds'
  BY <1>1, <1>4 DEF Credit, WriterIds
<1>7. Landed'
  <2> SUFFICES ASSUME NEW m \in Ids \ dropped, NEW x \in moved[m] \cap Live'
               PROVE  x \in rows'[mig[m].to]
    BY <1>1 DEF Landed
  <2>1. mig[m].to \in Providers /\ x \in rows[mig[m].to]
    BY <1>4 DEF Typed, MigTyped, Credit, Landed
  <2> QED BY <2>1, <1>3, <1>4
<1>8. CreditedOnce'
  BY <1>1 DEF Credit, CreditedOnce
<1> QED BY <1>5, <1>6, <1>7, <1>8 DEF Credit

LEMMA CreditInsert ==
  ASSUME Typed, Credit, StartInsert
  PROVE  Credit'
<1> DEFINE k == latest + 1
<1>1. k \in Ids /\ k \notin Started
  <2>1. latest \in Nat /\ latest < MaxMigrations
    BY StartedIds DEF StartInsert, Typed, CommandsTyped
  <2> QED BY <2>1, SizesAssumption DEF Ids, Started
<1>2. moved[k] = {} /\ mig \in [Ids -> Migrations]
  BY <1>1 DEF Typed, MigTyped
<1> HIDE DEF k
<1>3. /\ \A m \in Ids \ {k} : mig'[m] = mig[m]
      /\ mig'[k].backfill = 0 /\ mig'[k].lazy = 0
      /\ UNCHANGED <<rows, chunk, fresh, moved, dropped, writer>>
  BY <1>1, <1>2 DEF StartInsert, history, k
<1>4. Live' = Live
  BY <1>3 DEF Live
<1>5. ChunkIds' /\ WriterIds'
  BY <1>3, <1>4 DEF Credit, ChunkIds, WriterIds
<1>6. Landed'
  BY <1>2, <1>3, <1>4 DEF Credit, Landed
<1>7. CreditedOnce'
  BY <1>2, <1>3, FS_EmptySet DEF Credit, CreditedOnce
<1> QED BY <1>5, <1>6, <1>7 DEF Credit

LEMMA CreditDrop ==
  ASSUME Typed, Credit, PruneDrop
  PROVE  Credit'
<1>1. UNCHANGED <<chunk, fresh, mig, moved, writer>>
  BY DEF PruneDrop
<1>2. /\ rows \in [Providers -> SUBSET Chunks]
      /\ \A p \in Providers \ {pruner.p} : rows'[p] = rows[p]
      /\ \A m \in Ids \ dropped' : m \notin dropped /\ (m \in Started => mig[m].to # pruner.p)
  BY DEF PruneDrop, Typed, TablesTyped, Started
<1>3. Live' = Live
  BY <1>1 DEF Live
<1>4. ChunkIds' /\ WriterIds'
  BY <1>1, <1>3 DEF Credit, ChunkIds, WriterIds
<1>5. Landed'
  <2> SUFFICES ASSUME NEW m \in Ids \ dropped', NEW c \in moved[m] \cap Live
               PROVE  c \in rows'[mig[m].to]
    BY <1>1, <1>3 DEF Landed
  <2>1. m \in Started
    BY DEF Typed, MigTyped
  <2>2. mig[m].to \in Providers \ {pruner.p}
    BY <2>1, <1>2 DEF Typed, MigTyped
  <2> QED BY <2>2, <1>2 DEF Credit, Landed
<1>6. CreditedOnce'
  BY <1>1, <1>2 DEF Credit, CreditedOnce
<1> QED BY <1>4, <1>5, <1>6 DEF Credit

LEMMA CreditStep == Typed /\ Credit /\ [Next]_vars => Credit'
<1> SUFFICES ASSUME Typed, Credit, [Next]_vars PROVE Credit'
  OBVIOUS
<1>a. Started \subseteq Ids
  BY StartedIds DEF Typed
<1>b. ASSUME UNCHANGED <<rows, chunk, fresh, mig, moved, dropped, writer>>
      PROVE  Credit'
  BY <1>b, CreditQuiet
<1>1. CASE UNCHANGED vars
  BY <1>1, <1>b DEF vars, db, history
<1>2. CASE WorkerStep
  <2>1. CASE WorkerRecord
    <3>1. worker.m \in Ids /\ worker.batch \in SUBSET Chunks
      BY <2>1, <1>a DEF WorkerRecord, Typed, ProcessesTyped, TaskTyped, Tasks
    <3> QED BY <2>1, <3>1, CreditRecorded DEF WorkerRecord
  <2>2. CASE WorkerFinish
    <3>1. worker.m \in Ids
      BY <2>2, <1>a DEF WorkerFinish, Typed, ProcessesTyped, TaskTyped
    <3> QED BY <2>2, <3>1, CreditFinished DEF WorkerFinish, history
  <2> QED BY <1>2, <2>1, <2>2, <1>b DEF WorkerStep, WorkerRead, WorkerScan, WorkerFlip, WorkerFail, db, history
<1>3. CASE \E l \in Lazies : LazyStep(l)
  <2>1. PICK l \in Lazies : LazyStep(l)
    BY <1>3
  <2>2. CASE LazyRecord(l)
    <3>1. lazy[l].m \in Ids /\ lazy[l].batch \in SUBSET Chunks
      BY <2>2, <1>a DEF LazyRecord, Typed, ProcessesTyped, TaskTyped, Tasks
    <3> QED BY <2>2, <3>1, CreditRecorded DEF LazyRecord
  <2> QED BY <2>1, <2>2, <1>b DEF LazyStep, LazyRead, LazyPick, LazyFail, db, history
<1>4. CASE \E w \in Writers : WriterStep(w)
  <2>1. PICK w \in Writers : WriterStep(w)
    BY <1>4
  <2>2. writer \in [Writers -> WriterType]
    BY DEF Typed, ProcessesTyped
  <2>3. CASE WriterMigration(w) \/ WriterMigrationFails(w) \/ WriterFail(w)
    <3>1. \A v \in Writers : writer'[v].pc # "idle" => writer[v].pc # "idle" /\ writer'[v].new = writer[v].new
      BY <2>2, <2>3 DEF WriterMigration, WriterMigrationFails, WriterFail, WriterType, IdleWriter
    <3>2. UNCHANGED <<rows, chunk, fresh, mig, moved, dropped>>
      BY <2>3 DEF WriterMigration, WriterMigrationFails, WriterFail, db, history
    <3> QED BY <3>1, <3>2, CreditQuiet
  <2> QED BY <2>1, <2>3, CreditWriterActive, CreditWriterCommit DEF WriterStep
<1>5. CASE CommandStep
  <2>1. CASE SetPaused
    <3>1. \A i \in Ids : /\ mig'[i].to = mig[i].to
                         /\ mig'[i].backfill = mig[i].backfill /\ mig'[i].lazy = mig[i].lazy
      BY <2>1 DEF SetPaused, Typed, MigTyped, Migrations, InProgress
    <3> QED BY <2>1, <3>1, CreditQuiet DEF SetPaused, history
  <2>2. CASE RollbackMark
    <3>1. undoer.m \in Ids
      BY <2>2, <1>a DEF RollbackMark, Typed, CommandsTyped
    <3> QED BY <2>2, <3>1, CreditFinished DEF RollbackMark, history
  <2> QED BY <1>5, <2>1, <2>2, <1>b, CreditInsert, CreditDrop
          DEF CommandStep, StartCheck, StartCount, StartEnsure, StartBrokenOff, RollbackRead, RollbackFlip,
              PruneActive, PruneMigration, db, history
<1>6. CASE Crash
  <2>1. \A v \in Writers : writer'[v].pc = "idle"
    BY <1>6 DEF Crash, IdleWriter
  <2> QED BY <1>6, <2>1, CreditQuiet DEF Crash, db, history
<1>7. CASE \E p \in Configured : Boot(p)
  BY <1>7, <1>b DEF Boot
<1> QED BY <1>1, <1>2, <1>3, <1>4, <1>5, <1>6, <1>7, CreditDelete DEF Next

(* The counters of every migration whose table was not dropped count each  *)
(* chunk it has embedded once, whichever of the worker and the lazy tasks  *)
(* came first.                                                             *)
THEOREM EachChunkCreditedOnce == Spec => []CreditedOnce
<1>1. Credit => CreditedOnce
  BY DEF Credit
<1>2. Spec => []Credit
  BY AlwaysTyped, CreditInit, CreditStep, PTL DEF Spec
<1> QED BY <1>1, <1>2, PTL

-----------------------------------------------------------------------------
(* The active provider covers the corpus, for an operator who only starts, *)
(* pauses and resumes.  The flip makes Covered as good as what the worker  *)
(* knows when it flips: that the target has every chunk, although writers  *)
(* have committed since its scan (WorkerKnows).  A writer cannot leave the *)
(* target out then unless its choice of tables is of an earlier time, for  *)
(* a migration that was started before the choice is among its targets     *)
(* (WriterKnows).                                                          *)

Full(p) == \A c \in Live : c \in rows[p] \/ c \in late

WorkerKnows(t) ==
  t.pc # "idle" => /\ up
                   /\ t.m \in InProgress
                   /\ t.pc = "flip" => Full(mig[t.m].to)

WriterKnows(s) ==
  s.pc # "idle" =>
    /\ up
    /\ s.since.latest <= latest
    /\ s.since.active \subseteq s.targets
    /\ s.pc = "commit" /\ ~s.torn /\ s.since.latest = latest =>
         \A m \in InProgress : mig[m].to \in s.targets

OnlyStarts == undoer.pc = "idle" /\ pruner.pc = "idle"

Cover ==
  /\ OnlyStarts
  /\ \A p, q \in active : p = q
  /\ WorkerKnows(worker)
  /\ \A w \in Writers : WriterKnows(writer[w])
  /\ \A p \in active : Full(p)

LEMMA CoverInit == Init => Cover
<1> SUFFICES ASSUME Init PROVE Cover
  OBVIOUS
<1>1. Live \subseteq Notes
  BY DEF Init, Live
<1>2. Full(Original)
  BY <1>1, ProvidersAssumption DEF Init, Full
<1> QED BY <1>2 DEF Init, Cover, OnlyStarts, WorkerKnows, WriterKnows, IdleWorker, IdleWriter, IdleUndoer, IdlePruner

(* A step of the worker, a lazy task or a writer that takes no row away,   *)
(* moves no provider and starts or ends no migration.                      *)
LEMMA CoverQuiet ==
  ASSUME Typed, Cover, UNCHANGED <<active, chunk, latest, late, undoer, pruner, up>>,
         \A p \in Providers : rows[p] \subseteq rows'[p],
         \A m \in Ids : mig'[m].to = mig[m].to /\ mig'[m].status = mig[m].status,
         WorkerKnows(worker'), \A v \in Writers : WriterKnows(writer'[v])
  PROVE  Cover'
<1>1. Live' = Live /\ InProgress' = InProgress /\ InProgress \subseteq Ids
  BY DEF Live, InProgress
<1>2. active \subseteq Providers /\ \A m \in InProgress : mig[m].to \in Providers
  BY InProgressStarted DEF Typed, TablesTyped, MigTyped
<1>3. \A p \in Providers : Full(p) => Full(p)'
  BY <1>1 DEF Full
<1>4. OnlyStarts' /\ (\A p, q \in active : p = q)'
  BY DEF Cover, OnlyStarts
<1>5. WorkerKnows(worker)'
  BY <1>1, <1>2, <1>3 DEF WorkerKnows
<1>6. \A v \in Writers : WriterKnows(writer[v])'
  BY <1>1 DEF WriterKnows
<1>7. \A p \in active : Full(p)'
  BY <1>2, <1>3 DEF Cover
<1> QED BY <1>4, <1>5, <1>6, <1>7 DEF Cover

LEMMA CoverWorker ==
  ASSUME Typed, Cover, WorkerStep
  PROVE  Cover'
<1>a. /\ mig \in [Ids -> Migrations] /\ rows \in [Providers -> SUBSET Chunks]
      /\ Started \subseteq Ids /\ InProgress \subseteq Started /\ active \subseteq reg
      /\ \A m \in Started : mig[m].to \in Providers
  BY StartedIds, InProgressStarted DEF Typed, MigTyped, TablesTyped
<1>b. ASSUME UNCHANGED <<db, writer, command, up, history>>, WorkerKnows(worker')
      PROVE  Cover'
  BY <1>b, CoverQuiet DEF Cover, db, command, history
<1>c. WorkerKnows(IdleWorker) /\ worker.m \in Nat /\ (worker.pc # "idle" => worker.m \in Ids)
  BY <1>a, SizesAssumption DEF WorkerKnows, IdleWorker, Typed, ProcessesTyped, TaskTyped, Tasks, Ids
<1>1. CASE WorkerRead
  <2>1. WorkerKnows(worker')
    BY <1>1 DEF WorkerRead, WorkerKnows
  <2> QED BY <1>1, <2>1, <1>b DEF WorkerRead
<1>2. CASE WorkerScan
  <2> DEFINE missing == Missing(mig[worker.m].to)
  <2>1. worker \in Tasks(WorkerPC) /\ up /\ worker.m \in InProgress
    BY <1>2 DEF WorkerScan, Typed, ProcessesTyped, TaskTyped, Cover, WorkerKnows
  <2>2. missing = {} => Full(mig[worker.m].to)
    BY DEF Full, Missing
  <2>3. WorkerKnows(worker')
    <3>1. CASE worker' = IdleWorker
      BY <3>1, <1>c
    <3>2. CASE missing = {} /\ worker' = [worker EXCEPT !.pc = "flip"]
      <4>1. worker'.pc = "flip" /\ worker'.m = worker.m
        BY <2>1, <3>2 DEF Tasks
      <4> QED BY <2>1, <2>2, <3>2, <4>1 DEF WorkerKnows
    <3>3. CASE \E b \in Batches(missing) : worker' = [worker EXCEPT !.pc = "embed", !.batch = b]
      <4>1. worker'.pc = "embed" /\ worker'.m = worker.m
        <5> HIDE DEF missing
        <5> QED BY <2>1, <3>3 DEF Tasks
      <4> QED BY <2>1, <4>1 DEF WorkerKnows
    <3> QED BY <1>2, <3>1, <3>2, <3>3 DEF WorkerScan
  <2> QED BY <1>2, <2>3, <1>b DEF WorkerScan
<1>3. CASE WorkerRecord
  <2>1. worker.m \in Ids
    BY <1>3, <1>c DEF WorkerRecord
  <2>2. /\ \A p \in Providers : rows[p] \subseteq rows'[p]
        /\ \A m \in Ids : mig'[m].to = mig[m].to /\ mig'[m].status = mig[m].status
    BY <1>3, <2>1, <1>a DEF WorkerRecord, Recorded, Migrations
  <2> QED BY <1>3, <2>2, <1>c, CoverQuiet DEF WorkerRecord, Cover, command
<1>4. CASE WorkerFlip
  <2>1. CASE reg = {}
    BY <1>4, <2>1, <1>c, <1>b DEF WorkerFlip, db
  <2>2. CASE reg # {}
    <3> DEFINE to == mig[worker.m].to
    <3>1. worker \in Tasks(WorkerPC) /\ up /\ worker.m \in InProgress /\ Full(to)
      BY <1>4 DEF WorkerFlip, Typed, ProcessesTyped, TaskTyped, Cover, WorkerKnows
    <3>2. /\ active' = reg \cap {to} /\ worker' = [worker EXCEPT !.pc = "finish"]
          /\ UNCHANGED <<rows, chunk, mig, latest, writer, undoer, pruner, up, late>>
      BY <1>4, <2>2 DEF WorkerFlip, Activated, command, history
    <3>3. worker'.pc = "finish" /\ worker'.m = worker.m
      BY <3>1, <3>2 DEF Tasks
    <3>4. Live' = Live /\ InProgress' = InProgress /\ \A p : Full(p)' = Full(p)
      BY <3>2 DEF Live, InProgress, Full
    <3>5. WorkerKnows(worker)'
      BY <3>1, <3>2, <3>3, <3>4 DEF WorkerKnows
    <3>6. \A v \in Writers : WriterKnows(writer[v])'
      BY <3>2, <3>4 DEF Cover, WriterKnows
    <3>7. \A p \in active' : Full(p)'
      BY <3>1, <3>2, <3>4
    <3> QED BY <3>2, <3>5, <3>6, <3>7 DEF Cover, OnlyStarts
  <2> QED BY <2>1, <2>2
<1>5. CASE WorkerFinish
  <2>1. /\ worker' = IdleWorker
        /\ UNCHANGED <<active, rows, chunk, latest, writer, undoer, pruner, up, late>>
        /\ \A m \in Ids : mig'[m].to = mig[m].to
        /\ InProgress' \subseteq InProgress
    BY <1>5, <1>a, <1>c DEF WorkerFinish, Finished, Migrations, InProgress, command, history
  <2>2. Live' = Live /\ (\A p : Full(p)' = Full(p)) /\ InProgress \subseteq Ids
    BY <2>1, <1>a DEF Live, Full
  <2>3. WorkerKnows(worker)'
    BY <2>1 DEF WorkerKnows, IdleWorker
  <2>4. \A v \in Writers : WriterKnows(writer[v])'
    BY <2>1, <2>2 DEF Cover, WriterKnows
  <2> QED BY <2>1, <2>2, <2>3, <2>4 DEF Cover, OnlyStarts
<1>6. CASE WorkerFail
  BY <1>6, <1>c, <1>b DEF WorkerFail
<1> QED BY <1>1, <1>2, <1>3, <1>4, <1>5, <1>6 DEF WorkerStep

LEMMA CoverLazy ==
  ASSUME Typed, Cover, NEW l \in Lazies, LazyStep(l)
  PROVE  Cover'
<1>1. CASE LazyRecord(l)
  <2>1. lazy[l].m \in Ids
    BY <1>1, StartedIds DEF LazyRecord, Typed, ProcessesTyped, TaskTyped
  <2>. DEFINE i        == lazy[l].m
              inserted == lazy[l].batch \ rows[mig[i].to]
              credit   == mig[i].lazy + Cardinality(inserted)
  <2>a. \/ UNCHANGED <<rows, mig>>
        \/ /\ rows' = [rows EXCEPT ![mig[i].to] = @ \cup inserted]
           /\ mig' = [mig EXCEPT ![i] = [mig[i] EXCEPT !.lazy = credit]]
    BY <1>1 DEF LazyRecord, Recorded
  <2>b. rows \in [Providers -> SUBSET Chunks] /\ mig \in [Ids -> Migrations]
    BY DEF Typed, TablesTyped, MigTyped
  <2>. HIDE DEF i, inserted, credit
  <2>2. \A p \in Providers : rows[p] \subseteq rows'[p]
    BY <2>a, <2>b
  <2>3. \A m \in Ids : mig'[m].to = mig[m].to /\ mig'[m].status = mig[m].status
    BY <2>a, <2>b DEF Migrations
  <2> QED BY <1>1, <2>2, <2>3, CoverQuiet DEF LazyRecord, Cover, command
<1>2. CASE UNCHANGED <<db, worker, writer, command, up, history>>
  BY <1>2, CoverQuiet DEF Cover, db, command, history
<1> QED BY <1>1, <1>2 DEF LazyStep, LazyRead, LazyPick, LazyFail

LEMMA CoverWriter ==
  ASSUME Typed, Cover, Credit, NEW w \in Writers, WriterStep(w)
  PROVE  Cover'
<1>a. /\ writer \in [Writers -> WriterType] /\ WriterTyped(writer[w]) /\ latest \in Nat
      /\ WriterKnows(writer[w]) /\ \A v \in Writers : WriterKnows(writer[v])
  BY StartedIds DEF Typed, ProcessesTyped, Cover
<1>b. ASSUME UNCHANGED <<reg, active, rows, chunk, mig, latest, worker, command, up, history>>,
             NEW s, WriterKnows(s), writer' = [writer EXCEPT ![w] = s]
      PROVE  Cover'
  <2>1. \A v \in Writers : writer'[v] = IF v = w THEN s ELSE writer[v]
    BY <1>a, <1>b
  <2>2. \A v \in Writers : WriterKnows(writer'[v])
    BY <1>a, <1>b, <2>1
  <2> QED BY <1>b, <2>2, CoverQuiet DEF Cover, command, history
<1>c. WriterKnows(IdleWriter)
  BY DEF WriterKnows, IdleWriter
<1>1. CASE \E n \in Notes : WriterActive(w, n)
  <2>1. PICK n \in Notes, a \in active :
          /\ WriterActive(w, n)
          /\ writer' = [writer EXCEPT ![w] = [pc |-> "migration", note |-> n, new |-> fresh,
                                               targets |-> {a}, since |-> Epoch, torn |-> FALSE]]
    BY <1>1 DEF WriterActive
  <2>2. WriterKnows([pc |-> "migration", note |-> n, new |-> fresh,
                     targets |-> {a}, since |-> Epoch, torn |-> FALSE])
    BY <2>1, <1>a DEF WriterActive, WriterKnows, Epoch, Cover
  <2> QED BY <2>1, <2>2, <1>b DEF WriterActive
<1>2. CASE WriterMigration(w)
  <2> DEFINE s == [writer[w] EXCEPT !.pc = "commit",
                                    !.targets = @ \cup {mig[m].to : m \in InProgress}]
  <2>1. WriterKnows(s)
    BY <1>2, <1>a DEF WriterMigration, WriterKnows, WriterTyped, WriterType
  <2>2. writer' = [writer EXCEPT ![w] = s]
    BY <1>2, <1>a DEF WriterMigration
  <2> HIDE DEF s
  <2> QED BY <1>2, <2>1, <2>2, <1>b DEF WriterMigration, db
<1>3. CASE WriterMigrationFails(w)
  <2> DEFINE s == [writer[w] EXCEPT !.pc = "commit", !.torn = TRUE]
  <2>1. WriterKnows(s)
    BY <1>3, <1>a DEF WriterMigrationFails, WriterKnows, WriterTyped, WriterType
  <2>2. writer' = [writer EXCEPT ![w] = s]
    BY <1>3, <1>a DEF WriterMigrationFails
  <2> HIDE DEF s
  <2> QED BY <1>3, <2>1, <2>2, <1>b DEF WriterMigrationFails, db
<1>4. CASE WriterFail(w)
  BY <1>4, <1>b, <1>c DEF WriterFail, db
<1>5. CASE WriterCommit(w) /\ UNCHANGED <<chunk, rows, late>>
  BY <1>5, <1>b, <1>c DEF WriterCommit, history
<1>6. CASE WriterCommit(w) /\ writer[w].targets \subseteq reg
  <2> DEFINE n       == writer[w].note
             c       == writer[w].new
             targets == writer[w].targets
  <2>1. /\ writer[w].pc = "commit" /\ n \in Notes /\ c \in Chunks
        /\ chunk' = [chunk EXCEPT ![n] = c]
        /\ rows' = [p \in Providers |-> IF p \in targets THEN Cascaded(n)[p] \cup {c}
                                         ELSE Cascaded(n)[p]]
        /\ late' = IF TooEarly(w) /\ BehindTheScan(targets) THEN late \cup {c} ELSE late
        /\ writer' = [writer EXCEPT ![w] = IdleWriter]
        /\ UNCHANGED <<reg, active, mig, latest, worker, undoer, pruner, up>>
    BY <1>6, <1>a DEF WriterCommit, WriterTyped, command
  <2>2. /\ \A p \in Providers : rows[p] \ {chunk[n]} \subseteq rows'[p]
        /\ \A p \in Providers : p \in targets => c \in rows'[p]
    BY <2>1 DEF Cascaded
  <2>3. \A x \in Live' : x = c \/ (x \in Live /\ x # chunk[n])
    <3> SUFFICES ASSUME NEW k \in Notes, chunk'[k] # None, chunk'[k] # c
                 PROVE  chunk'[k] \in Live /\ chunk'[k] # chunk[n]
      BY DEF Live
    <3>1. k # n /\ chunk'[k] = chunk[k]
      BY <2>1 DEF Typed, TablesTyped
    <3> QED BY <2>1, <3>1 DEF Live, Credit, ChunkIds
  <2>4. late \subseteq late' /\ (TooEarly(w) /\ BehindTheScan(targets) => c \in late')
    BY <2>1
  <2>5. ASSUME NEW p \in Providers, Full(p),
               p \in targets \/ (TooEarly(w) /\ BehindTheScan(targets))
        PROVE  Full(p)'
    BY <2>2, <2>3, <2>4, <2>5 DEF Full
  <2>6. InProgress' = InProgress /\ InProgress \subseteq Ids
    BY <2>1 DEF InProgress
  <2>7. ~TooEarly(w) => active \subseteq targets /\ \A m \in InProgress : mig[m].to \in targets
    BY <2>1, <1>a DEF TooEarly, Epoch, WriterKnows, WriterTyped, WriterType
  <2>8. \A p \in active' : Full(p)'
    <3> SUFFICES ASSUME NEW p \in active PROVE Full(p)'
      BY <2>1
    <3>1. p \in Providers /\ Full(p) /\ \A q \in active : q = p
      BY DEF Typed, TablesTyped, Cover
    <3>2. p \notin targets => TooEarly(w) /\ BehindTheScan(targets)
      BY <2>7 DEF BehindTheScan
    <3> QED BY <2>5, <3>1, <3>2
  <2>9. WorkerKnows(worker)'
    <3>1. ASSUME worker.pc = "flip"
          PROVE  Full(mig[worker.m].to)'
      <4>1. worker.m \in InProgress /\ Full(mig[worker.m].to) /\ mig[worker.m].to \in Providers
        BY <3>1, InProgressStarted DEF Cover, WorkerKnows, Typed, MigTyped
      <4>2. BehindTheScan(targets)
        BY <3>1 DEF BehindTheScan
      <4>3. mig' = mig /\ worker' = worker
        BY <2>1
      <4> DEFINE to == mig[worker.m].to
      <4>4. to \in targets \/ (TooEarly(w) /\ BehindTheScan(targets))
        BY <2>7, <4>1, <4>2
      <4> HIDE DEF to
      <4>5. Full(to)'
        <5>1. to \in Providers /\ Full(to) /\ to' = to
          BY <4>1, <4>3 DEF to
        <5> QED BY <5>1, <4>4, <2>5 DEF Full
      <4> QED BY <4>5 DEF to
    <3> QED BY <3>1, <2>1, <2>6 DEF Cover, WorkerKnows
  <2>10. \A v \in Writers : WriterKnows(writer[v])'
    <3>1. \A v \in Writers : writer'[v] = IF v = w THEN IdleWriter ELSE writer[v]
      BY <2>1, <1>a
    <3> QED BY <1>a, <1>c, <2>1, <2>6, <3>1 DEF WriterKnows, IdleWriter
  <2> QED BY <2>1, <2>8, <2>9, <2>10 DEF Cover, OnlyStarts
<1> QED BY <1>1, <1>2, <1>3, <1>4, <1>5, <1>6 DEF WriterStep, WriterCommit

LEMMA CoverDelete ==
  ASSUME Typed, Cover, Credit, NEW n \in Notes, DeleteNote(n)
  PROVE  Cover'
<1>1. /\ UNCHANGED <<active, mig, latest, worker, writer, undoer, pruner, up, late>>
      /\ chunk' = [chunk EXCEPT ![n] = None] /\ rows' = Cascaded(n)
      /\ chunk \in [Notes -> Chunks \cup {None}]
  BY DEF DeleteNote, Typed, TablesTyped, command, history
<1>2. \A x \in Live' : x \in Live /\ x # chunk[n]
  <2> SUFFICES ASSUME NEW k \in Notes, chunk'[k] # None
               PROVE  chunk'[k] \in Live /\ chunk'[k] # chunk[n]
    BY DEF Live
  <2>1. k # n /\ chunk'[k] = chunk[k]
    BY <1>1
  <2> QED BY <1>1, <2>1 DEF Live, Credit, ChunkIds
<1>3. \A p \in Providers : Full(p) => Full(p)'
  BY <1>1, <1>2 DEF Full, Cascaded
<1>4. /\ InProgress' = InProgress /\ active \subseteq Providers
      /\ \A m \in InProgress : mig[m].to \in Providers
  BY <1>1, InProgressStarted DEF InProgress, Typed, TablesTyped, MigTyped
<1>5. WorkerKnows(worker)'
  BY <1>1, <1>3, <1>4 DEF Cover, WorkerKnows
<1>6. \A v \in Writers : WriterKnows(writer[v])'
  BY <1>1, <1>4 DEF Cover, WriterKnows
<1>7. \A p \in active' : Full(p)'
  BY <1>1, <1>3, <1>4 DEF Cover
<1> QED BY <1>1, <1>5, <1>6, <1>7 DEF Cover, OnlyStarts

LEMMA CoverInsert ==
  ASSUME Typed, Cover, StartInsert
  PROVE  Cover'
<1>1. /\ InProgress = {} /\ latest' = latest + 1 /\ latest \in Nat
      /\ UNCHANGED <<active, rows, chunk, worker, writer, undoer, pruner, up, late>>
  BY StartedIds DEF StartInsert, Typed, history
<1>2. Live' = Live /\ \A p : Full(p)' = Full(p)
  BY <1>1 DEF Live, Full
<1>3. worker.pc = "idle"
  BY <1>1 DEF Cover, WorkerKnows
<1>4. \A v \in Writers : writer[v].since.latest \in Nat
  BY SizesAssumption DEF Typed, ProcessesTyped, WriterType
<1>5. \A v \in Writers : WriterKnows(writer[v])'
  BY <1>1, <1>4 DEF Cover, WriterKnows
<1> QED BY <1>1, <1>2, <1>3, <1>5 DEF Cover, OnlyStarts, WorkerKnows

LEMMA CoverCommand ==
  ASSUME Typed, Cover, Commands \subseteq {"start", "pause"}, CommandStep
  PROVE  Cover'
<1>1. CASE SetPaused
  <2>1. \A m \in Ids : mig'[m].to = mig[m].to /\ mig'[m].status = mig[m].status
    BY <1>1 DEF SetPaused, Typed, MigTyped, Migrations, InProgress
  <2> QED BY <1>1, <2>1, CoverQuiet DEF SetPaused, Cover, command, history
<1>2. CASE UNCHANGED <<active, rows, chunk, mig, latest, worker, writer, undoer, pruner, up, history>>
  BY <1>2, CoverQuiet DEF Cover, history
<1>3. "rollback" \notin Commands /\ "prune" \notin Commands /\ undoer.pc = "idle" /\ pruner.pc = "idle"
  BY DEF Cover, OnlyStarts
<1> QED BY <1>1, <1>2, <1>3, CoverInsert
        DEF CommandStep, StartCheck, StartCount, StartEnsure, StartBrokenOff, RollbackRead, RollbackMark,
            RollbackFlip, PruneActive, PruneMigration, PruneDrop, db

LEMMA CoverCrash ==
  ASSUME Cover, Crash
  PROVE  Cover'
<1>1. UNCHANGED <<active, rows, chunk, undoer, pruner, late>> /\ worker'.pc = "idle"
      /\ \A v \in Writers : writer'[v].pc = "idle"
  BY DEF Crash, db, command, history, IdleWorker, IdleWriter
<1>2. \A p : Full(p)' = Full(p)
  BY <1>1 DEF Full, Live
<1> QED BY <1>1, <1>2 DEF Cover, OnlyStarts, WorkerKnows, WriterKnows

LEMMA CoverBoot ==
  ASSUME Cover, NEW p \in Configured, Boot(p)
  PROVE  Cover'
<1>1. /\ UNCHANGED <<rows, chunk, worker, writer, undoer, pruner>> /\ active' = {p}
      /\ late' = late \cup Missing(p)
      /\ worker.pc = "idle" /\ \A v \in Writers : writer[v].pc = "idle"
  BY DEF Boot, command, Cover, WorkerKnows, WriterKnows
<1>2. Full(p)'
  BY <1>1 DEF Full, Missing, Live
<1> QED BY <1>1, <1>2 DEF Cover, OnlyStarts, WorkerKnows, WriterKnows

LEMMA CoverStep ==
  ASSUME Commands \subseteq {"start", "pause"}, Typed, Credit, Cover, [Next]_vars
  PROVE  Cover'
<1>1. CASE UNCHANGED vars
  BY <1>1, CoverQuiet DEF vars, db, command, history, Cover
<1>2. CASE Next
  BY <1>2, CoverWorker, CoverLazy, CoverWriter, CoverDelete, CoverCommand, CoverCrash, CoverBoot DEF Next
<1> QED BY <1>1, <1>2

(* With starts, pauses and resumes only, every chunk has a vector of the   *)
(* active provider at all times, but for those that late names.            *)
THEOREM ActiveCovered ==
  ASSUME Commands \subseteq {"start", "pause"}
  PROVE  Spec => []Covered
<1>1. Cover => Covered
  BY DEF Cover, Full, Covered
<1>2. Typed /\ Credit /\ Cover /\ [Next]_vars => Cover'
  BY CoverStep
<1>3. Spec => [](Typed /\ Credit /\ Cover)
  BY AlwaysTyped, CreditInit, CreditStep, CoverInit, <1>2, PTL DEF Spec
<1> QED BY <1>1, <1>3, PTL
=============================================================================
