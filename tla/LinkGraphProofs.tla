-------------------------- MODULE LinkGraphProofs --------------------------
(***************************************************************************)
(* Theorems about LinkGraph for every set of paths, notes, calls and every *)
(* bound.                                                                  *)
(***************************************************************************)
EXTENDS LinkGraph, WellFoundedInduction, FiniteSetTheorems, TLAPS

-----------------------------------------------------------------------------
(* The first in path order.                                                *)

Below == {ss \in Nat \X Nat : ss[1] < ss[2]}

LEMMA MinFirst ==
  ASSUME NEW T \in SUBSET Paths, T # {}
  PROVE  Min(T) \in T
<1>1. T \subseteq Nat
  BY NotesAssumption
<1>2. IsWellFoundedOn(Below, Nat)
  BY NatLessThanWellFounded DEF OpToRel, Below
<1>3. PICK x \in T : \A y \in T : <<y, x>> \notin Below
  BY <1>1, <1>2, WFMin
<1>4. \A y \in T : x <= y
  <2>1. \A y \in T : y \in Nat /\ x \in Nat /\ ~(y < x)
    BY <1>1, <1>3 DEF Below
  <2>. QED  BY <2>1
<1>. QED  BY <1>4 DEF Min

-----------------------------------------------------------------------------
(* The notes table and the edges.                                          *)

Rows == [Paths -> Notes \cup {None}]

LEMMA IndexedAt ==
  ASSUME NEW rows \in Rows
  PROVE  \A p \in Paths : IF p \in Indexed(rows) THEN rows[p] \in Notes /\ rows[p] # None
                                                 ELSE rows[p] = None
BY DEF Rows, Indexed

LEMMA IdsTyped ==
  ASSUME NEW rows \in Rows
  PROVE  IdsOf(rows) \subseteq Ids
BY IndexedAt DEF IdsOf, Ids, Indexed

LEMMA TargetsTyped ==
  ASSUME NEW rows \in Rows, NEW n
  PROVE  Targets(rows, n) \subseteq IdsOf(rows)
<1>1. ASSUME NEW r, Matches(rows, r) # {} PROVE Resolved(rows, r) \in IdsOf(rows)
  <2>1. Matches(rows, r) \subseteq Indexed(rows) /\ Indexed(rows) \subseteq Paths
    BY DEF Matches, Indexed
  <2>2. Min(Matches(rows, r)) \in Matches(rows, r)
    BY <1>1, <2>1, MinFirst
  <2>. QED  BY <2>1, <2>2 DEF Resolved, IdsOf
<1>. QED  BY <1>1 DEF Targets

LEMMA UpsertedTyped ==
  ASSUME NEW rows \in Rows, NEW p \in Paths, NEW n \in Notes
  PROVE  /\ Upserted(rows, p, n) \in Rows
         /\ Upserted(rows, p, n)[p] = n
         /\ n.id \in IdsOf(Upserted(rows, p, n))
         /\ \A q \in Paths \ {p} : Upserted(rows, p, n)[q] \in {rows[q], None}
         /\ \A q \in Paths \ {p} :
              Upserted(rows, p, n)[q] # None => Upserted(rows, p, n)[q].id # n.id
<1>. DEFINE u == Upserted(rows, p, n)
<1>1. u \in Rows /\ u[p] = n
  BY DEF Rows, Upserted, Moved
<1>2. \A q \in Paths \ {p} : u[q] = IF rows[q] # None /\ rows[q].id = n.id THEN None ELSE rows[q]
  BY DEF Rows, Upserted, Moved
<1>3. p \in Indexed(u)
  BY <1>1, NotesAssumption DEF Indexed
<1>. HIDE DEF u
<1>4. n.id \in IdsOf(u)
  BY <1>1, <1>3 DEF IdsOf
<1>. QED  BY <1>1, <1>2, <1>4 DEF u

LEMMA RemovedTyped ==
  ASSUME NEW rows \in Rows, NEW p \in Paths
  PROVE  /\ [rows EXCEPT ![p] = None] \in Rows
         /\ \A q \in Paths : [rows EXCEPT ![p] = None][q] = IF q = p THEN None ELSE rows[q]
BY DEF Rows

LEMMA CascadedTyped ==
  ASSUME NEW links, NEW rows, links \subseteq Ids \X Ids
  PROVE  Cascaded(links, rows) \subseteq IdsOf(rows) \X IdsOf(rows)
BY DEF Cascaded

(* A path has one note, and a note one path.                               *)
LEMMA UpsertedOnce ==
  ASSUME NEW rows \in Rows, OneFileEach(rows), NEW p \in Paths, NEW n \in Notes
  PROVE  OneFileEach(Upserted(rows, p, n))
<1>. DEFINE u == Upserted(rows, p, n)
<1>1. /\ u \in Rows /\ u[p] = n
      /\ \A q \in Paths \ {p} : u[q] \in {rows[q], None}
      /\ \A q \in Paths \ {p} : u[q] # None => u[q].id # n.id
  BY UpsertedTyped
<1>. HIDE DEF u
<1>2. ASSUME NEW q \in Indexed(u), NEW r \in Indexed(u), u[q].id = u[r].id, q # r
      PROVE  FALSE
  <2>1. CASE q = p \/ r = p
    BY <1>1, <1>2, <2>1 DEF Indexed
  <2>2. CASE q # p /\ r # p
    <3>1. u[q] = rows[q] /\ u[r] = rows[r] /\ rows[q] # None /\ rows[r] # None
      BY <1>1, <1>2, <2>2 DEF Indexed
    <3>. QED  BY <1>2, <3>1 DEF OneFileEach, Indexed
  <2>. QED  BY <2>1, <2>2
<1>. QED  BY <1>2 DEF OneFileEach, u

LEMMA RemovedOnce ==
  ASSUME NEW rows \in Rows, OneFileEach(rows), NEW p \in Paths
  PROVE  OneFileEach([rows EXCEPT ![p] = None])
BY RemovedTyped DEF OneFileEach, Indexed

-----------------------------------------------------------------------------
(* Jobs.                                                                   *)

(* A job that indexes or relinks has a file to do it with, one that        *)
(* repairs a referrer, one that removes a path.                            *)
Working(j) ==
  /\ j \in JobState
  /\ j.todo \subseteq Indexed(j.batch) /\ j.done \subseteq Indexed(j.batch)
  /\ j.pc \in {"index", "commit", "relink", "set"} => j.todo # {}
  /\ j.pc \in {"repair", "reset"} => Indexed(j.refs) # {}
  /\ j.pc = "gone" => j.gone # {}

LEMMA IdleWorks == Working(Idle) /\ Nothing \in Rows /\ Indexed(Nothing) = {}
<1>1. Nothing \in Rows /\ Indexed(Nothing) = {}
  BY DEF Nothing, Rows, Indexed
<1>2. Idle \in JobState
  BY <1>1 DEF Idle, JobState, Rows, PC
<1>. QED  BY <1>1, <1>2 DEF Working, Idle

LEMMA StartedWorks ==
  ASSUME NEW batch \in Rows, NEW gone \in SUBSET Paths, Indexed(batch) # {} \/ gone # {}
  PROVE  Working(Started(batch, gone))
<1>. DEFINE pc == IF Indexed(batch) = {} THEN "gone" ELSE "index"
<1>. DEFINE s == [pc |-> pc, batch |-> batch, todo |-> Indexed(batch), done |-> {}, dsts |-> {},
                   refs |-> Nothing, gone |-> gone]
<1>. HIDE DEF pc
<1>1. Started(batch, gone) = s
  <2>1. Started(batch, gone)
          = [Idle EXCEPT !.pc = pc, !.batch = batch, !.todo = Indexed(batch), !.gone = gone]
    BY DEF Started, pc
  <2>. QED  BY <2>1 DEF Idle
<1>2. Indexed(batch) \subseteq Paths /\ pc \in PC
  BY DEF Indexed, PC, pc
<1>3. s \in JobState
  BY <1>2, IdleWorks DEF JobState, Rows
<1>. QED  BY <1>1, <1>3 DEF Working, pc

LEMMA FinishedWorks ==
  ASSUME NEW j \in JobState
  PROVE  Working(Finished(j))
<1>1. CASE j.gone = {}
  BY <1>1, IdleWorks DEF Finished
<1>2. CASE j.gone # {}
  <2>. DEFINE k == [Idle EXCEPT !.pc = "gone", !.gone = j.gone]
  <2>1. k \in JobState /\ k.pc = "gone" /\ k.gone = j.gone /\ k.todo = {} /\ k.done = {}
    BY IdleWorks DEF Idle, JobState, PC, Rows
  <2>2. Finished(j) = k
    BY <1>2 DEF Finished
  <2>. HIDE DEF k
  <2>. QED  BY <1>2, <2>1, <2>2 DEF Working
<1>. QED  BY <1>1, <1>2

(* A file of the batch is done with, or failed.                            *)
Ready(j) == /\ j \in JobState
            /\ j.todo \subseteq Indexed(j.batch) /\ j.done \subseteq Indexed(j.batch)

LEMMA AfterBatchWorks ==
  ASSUME NEW w, NEW j, Ready(j)
  PROVE  Working(AfterBatch(w, j))
<1>1. CASE j.todo # {}
  <2>1. AfterBatch(w, j) = [j EXCEPT !.pc = "index"]
    BY <1>1 DEF AfterBatch
  <2>. QED  BY <1>1, <2>1 DEF Ready, Working, JobState, PC
<1>2. CASE j.todo = {} /\ (w = Compile \/ j.done = {})
  BY <1>2, FinishedWorks DEF AfterBatch, Ready
<1>3. CASE j.todo = {} /\ ~(w = Compile \/ j.done = {}) /\ Cardinality(j.done) > 1
  <2>1. AfterBatch(w, j) = [j EXCEPT !.pc = "relink", !.todo = j.done]
    BY <1>3 DEF AfterBatch
  <2>. QED  BY <1>3, <2>1 DEF Ready, Working, JobState, PC
<1>4. CASE j.todo = {} /\ ~(w = Compile \/ j.done = {}) /\ ~(Cardinality(j.done) > 1)
  <2>1. AfterBatch(w, j) = [j EXCEPT !.pc = "refer", !.todo = {}]
    BY <1>4 DEF AfterBatch
  <2>. QED  BY <1>4, <2>1 DEF Ready, Working, JobState, PC
<1>. QED  BY <1>1, <1>2, <1>3, <1>4

LEMMA AfterLinkWorks ==
  ASSUME NEW j, Ready(j)
  PROVE  Working(AfterLink(j))
BY DEF AfterLink, Ready, Working, JobState, PC

LEMMA AfterRepairWorks ==
  ASSUME NEW j, Ready(j)
  PROVE  Working(AfterRepair(j))
<1>1. CASE Indexed(j.refs) = {}
  BY <1>1, FinishedWorks DEF AfterRepair, Ready
<1>2. CASE Indexed(j.refs) # {}
  <2>1. AfterRepair(j) = [j EXCEPT !.pc = "repair"]
    BY <1>2 DEF AfterRepair
  <2>. QED  BY <1>2, <2>1 DEF Ready, Working, JobState, PC
<1>. QED  BY <1>1, <1>2

-----------------------------------------------------------------------------
(* Types.                                                                  *)

Standing == /\ TypeOK /\ OneFileEach(row)
            /\ \A w \in Workers : Working(job[w])

LEMMA RowTyped == TypeOK <=>
  /\ row \in Rows /\ link \subseteq IdsOf(row) \X IdsOf(row)
  /\ job \in [Workers -> JobState] /\ excused \subseteq Ids /\ budget \in Bounds
BY DEF TypeOK, Rows

LEMMA BecomesTyped ==
  ASSUME Standing, NEW w \in Workers, NEW j, Working(j), Becomes(w, j)
  PROVE  /\ job' \in [Workers -> JobState] /\ \A v \in Workers : Working(job'[v])
         /\ job'[w] = j /\ \A v \in Workers \ {w} : job'[v] = job[v]
BY DEF Standing, TypeOK, Becomes, Working

LEMMA SpendTyped == TypeOK /\ Fault => budget' \in Bounds
BY DEF TypeOK, Bounds, Fault

LEMMA WrongTyped ==
  ASSUME NEW rows \in Rows, NEW links
  PROVE  Wrong(rows, links) \subseteq IdsOf(rows) /\ Wrong(rows, links) \subseteq Ids
<1>1. Wrong(rows, links) \subseteq IdsOf(rows)
  BY DEF Wrong, IdsOf
<1>. QED  BY <1>1, IdsTyped

(* A worker that is about to index a file, or has just computed its edges. *)
LEMMA HeadTyped ==
  ASSUME Standing, NEW w \in Workers, job[w].pc \in {"index", "commit", "relink", "set"}
  PROVE  /\ Head(w) \in job[w].todo /\ Head(w) \in Paths
         /\ job[w].batch \in Rows
         /\ job[w].batch[Head(w)] \in Notes /\ job[w].batch[Head(w)] # None
         /\ job[w].batch[Head(w)].id \in Ids
         /\ Ready(Skipped(w))
<1>1. /\ Working(job[w]) /\ job[w].todo # {} /\ job[w].batch \in Rows
      /\ job[w].todo \subseteq Indexed(job[w].batch) /\ job[w].todo \subseteq Paths
  BY DEF Standing, Working, JobState, Rows
<1>2. Head(w) \in job[w].todo
  BY <1>1, MinFirst DEF Head
<1>3. job[w].batch[Head(w)] \in Notes /\ job[w].batch[Head(w)] # None
  BY <1>1, <1>2, IndexedAt
<1>4. Ready(Skipped(w))
  BY <1>1 DEF Ready, Skipped, Working, JobState
<1>. QED  BY <1>1, <1>2, <1>3, <1>4 DEF Ids

LEMMA ReferrerTyped ==
  ASSUME Standing, NEW w \in Workers, job[w].pc \in {"repair", "reset"}
  PROVE  /\ job[w].refs \in Rows /\ Min(Indexed(job[w].refs)) \in Indexed(job[w].refs)
         /\ Referrer(w) \in Notes /\ Referrer(w).id \in Ids
<1>1. job[w].refs \in Rows /\ Indexed(job[w].refs) # {} /\ Indexed(job[w].refs) \subseteq Paths
  BY DEF Standing, Working, JobState, Rows, Indexed
<1>2. Min(Indexed(job[w].refs)) \in Indexed(job[w].refs)
  BY <1>1, MinFirst
<1>3. Referrer(w) \in Notes
  BY <1>1, <1>2, IndexedAt DEF Referrer
<1>. QED  BY <1>1, <1>2, <1>3 DEF Ids

LEMMA StoredTyped ==
  ASSUME NEW S, NEW links \in SUBSET (S \X S), NEW id, NEW dsts, dsts = {} \/ {id} \cup dsts \subseteq S
  PROVE  Stored(links, id, dsts) \subseteq S \X S
BY DEF Stored

LEMMA JudgedTyped ==
  ASSUME NEW e \in SUBSET Ids, NEW id \in Ids, NEW rows, NEW links
  PROVE  Judged(e, id, rows, links) \in SUBSET Ids
BY DEF Judged

LEMMA FileTyped ==
  ASSUME NEW x \in Files
  PROVE  /\ File(x.path, x.note) \in Rows /\ Indexed(File(x.path, x.note)) = {x.path}
         /\ x.path \in Paths /\ x.note \in Notes /\ x.note # None
<1>1. x.path \in Paths /\ x.note \in Notes /\ x.note # None
  BY NotesAssumption DEF Notes
<1>2. File(x.path, x.note) \in Rows
  BY <1>1, IdleWorks DEF File, Rows
<1>3. \A p \in Paths : File(x.path, x.note)[p] = IF p = x.path THEN x.note ELSE None
  BY <1>1 DEF File, Nothing
<1>. QED  BY <1>1, <1>2, <1>3 DEF Indexed

LEMMA BudgetTyped ==
  ASSUME TypeOK
  PROVE  /\ budget.writes > 0 => [budget EXCEPT !.writes = @ - 1] \in Bounds
         /\ budget.events > 0 => [budget EXCEPT !.events = @ - 1] \in Bounds
         /\ budget.faults > 0 => [budget EXCEPT !.faults = @ - 1] \in Bounds
BY DEF TypeOK, Bounds

-----------------------------------------------------------------------------
(* Every step keeps the types, one file for each note, and jobs at work.   *)

LEMMA StandingInit == Init => Standing
<1>. SUFFICES ASSUME Init PROVE Standing
  OBVIOUS
<1>1. row \in Rows /\ OneFileEach(row)
  BY StartsAssumption DEF Init, Rows, OneFileEach, Indexed
<1>2. link \subseteq IdsOf(row) \X IdsOf(row)
  <2>1. ASSUME NEW e \in link PROVE e \in IdsOf(row) \X IdsOf(row)
    <3>1. e \in Ids \X Ids /\ \E p \in Indexed(row) : e[1] = row[p].id /\ e[2] \in Targets(row, row[p])
      BY <2>1 DEF Init
    <3>2. PICK p \in Indexed(row) : e[1] = row[p].id /\ e[2] \in Targets(row, row[p])
      BY <3>1
    <3>3. Targets(row, row[p]) \subseteq IdsOf(row)
      BY <1>1, TargetsTyped
    <3>4. e = <<e[1], e[2]>> /\ e[1] \in IdsOf(row) /\ e[2] \in IdsOf(row)
      BY <3>1, <3>2, <3>3 DEF IdsOf
    <3>. QED  BY <3>4
  <2>. QED  BY <2>1
<1>3. job \in [Workers -> JobState] /\ \A w \in Workers : Working(job[w])
  <2>1. Idle \in JobState
    BY IdleWorks DEF Working
  <2>. QED  BY <2>1, IdleWorks DEF Init
<1>4. excused \subseteq Ids /\ budget \in Bounds
  BY BoundsAssumption DEF Init
<1>. QED  BY <1>1, <1>2, <1>3, <1>4, RowTyped DEF Standing

(* The index stays as it is.                                               *)
LEMMA StandingRests ==
  ASSUME Standing, row' = row, link' = link, excused' \subseteq Ids, budget' \in Bounds,
         NEW w \in Workers, NEW j, Working(j), Becomes(w, j)
  PROVE  Standing'
BY BecomesTyped DEF Standing, TypeOK

LEMMA StandingBegins ==
  ASSUME Standing,
         (\E c \in Calls : BeginCall(c)) \/ BeginCompile \/ BeginEvent \/ BeginSweep
  PROVE  Standing'
<1>. DEFINE Begins(w) == /\ w \in Workers
                         /\ \E batch \in Rows, gone \in SUBSET Paths :
                              /\ Indexed(batch) # {} \/ gone # {}
                              /\ job' = [job EXCEPT ![w] = Started(batch, gone)]
                         /\ budget' \in Bounds /\ UNCHANGED <<row, link, excused>>
<1>1. ASSUME NEW w, Begins(w) PROVE Standing'
  <2>1. PICK batch \in Rows, gone \in SUBSET Paths :
               /\ Indexed(batch) # {} \/ gone # {}
               /\ job' = [job EXCEPT ![w] = Started(batch, gone)]
    BY <1>1
  <2>2. Working(Started(batch, gone)) /\ Becomes(w, Started(batch, gone))
    BY <2>1, StartedWorks DEF Becomes
  <2>. QED  BY <1>1, <2>2, StandingRests DEF Standing, TypeOK
<1>2. ASSUME NEW x \in Files
      PROVE  File(x.path, x.note) \in Rows /\ Indexed(File(x.path, x.note)) # {}
  BY FileTyped
<1>3. ASSUME NEW c \in Calls, BeginCall(c) PROVE Begins(c)
  BY <1>2, <1>3, BudgetTyped DEF BeginCall, Standing, Workers
<1>4. ASSUME BeginCompile PROVE Begins(Compile)
  BY <1>2, <1>4, BudgetTyped DEF BeginCompile, Standing, Workers
<1>5. ASSUME BeginEvent PROVE Begins(Watch)
  BY <1>2, <1>5, BudgetTyped, IdleWorks DEF BeginEvent, Standing, Workers, Indexed
<1>6. ASSUME BeginSweep PROVE Begins(Watch)
  <2>. DEFINE At(found, p)  == {x \in found : x.path = p}
              Batch(found) == [p \in Paths |-> IF At(found, p) = {} THEN None
                                               ELSE (CHOOSE x \in At(found, p) : TRUE).note]
  <2>1. PICK found \in SUBSET Files, gone \in SUBSET Indexed(row) :
               /\ Cardinality(found) + Cardinality(gone) > 1
               /\ job' = [job EXCEPT ![Watch] = Started(Batch(found), gone)]
    BY <1>6 DEF BeginSweep
  <2>2. \A p \in Paths : At(found, p) # {} => Batch(found)[p] \in Notes /\ Batch(found)[p] # None
    <3>1. ASSUME NEW p \in Paths, At(found, p) # {}
          PROVE  (CHOOSE x \in At(found, p) : TRUE) \in Files
      BY <3>1
    <3>. QED  BY <3>1, FileTyped
  <2>3. Batch(found) \in Rows
    BY <2>2 DEF Rows
  <2>4. Indexed(Batch(found)) # {} \/ gone # {}
    <3>1. CASE found = {} /\ gone = {}
      BY <2>1, <3>1, FS_EmptySet
    <3>2. CASE found # {}
      <4>1. PICK x \in found : TRUE
        BY <3>2
      <4>2. x.path \in Paths /\ At(found, x.path) # {}
        BY <4>1, FileTyped
      <4>. QED  BY <2>2, <4>2 DEF Indexed
    <3>. QED  BY <3>1, <3>2
  <2>5. gone \in SUBSET Paths
    BY DEF Indexed
  <2>6. UNCHANGED <<row, link, excused>> /\ budget' \in Bounds
    BY <1>6, BudgetTyped DEF BeginSweep, Standing
  <2>. HIDE DEF Batch
  <2>. QED  BY <2>1, <2>3, <2>4, <2>5, <2>6 DEF Workers
<1>. HIDE DEF Begins
<1>. QED  BY <1>1, <1>3, <1>4, <1>5, <1>6

LEMMA StandingResolves ==
  ASSUME Standing, NEW w \in Workers, ResolveNote(w) \/ ResolveReferrer(w)
  PROVE  Standing'
<1>1. Working(job[w]) /\ row \in Rows
  BY RowTyped DEF Standing
<1>2. \A n : Targets(row, n) \subseteq Ids
  BY <1>1, TargetsTyped, IdsTyped
<1>3. CASE ResolveNote(w)
  <2>. DEFINE pc == IF job[w].pc = "index" THEN "commit" ELSE "set"
              j  == [job[w] EXCEPT !.pc = pc, !.dsts = Targets(row, job[w].batch[Head(w)])]
  <2>1. Becomes(w, j) /\ UNCHANGED <<row, link, excused, budget>> /\ job[w].pc \in {"index", "relink"}
    BY <1>3 DEF ResolveNote
  <2>2. pc \in PC /\ (job[w].pc = "index" => pc = "commit") /\ (job[w].pc # "index" => pc = "set")
    BY DEF PC
  <2>. HIDE DEF pc
  <2>3. Working(j)
    BY <1>1, <1>2, <2>1, <2>2 DEF Working, JobState
  <2>. HIDE DEF j
  <2>. QED  BY <2>1, <2>3, StandingRests DEF Standing, TypeOK
<1>4. CASE ResolveReferrer(w)
  <2>. DEFINE j == [job[w] EXCEPT !.pc = "reset", !.dsts = Targets(row, Referrer(w))]
  <2>1. Becomes(w, j) /\ UNCHANGED <<row, link, excused, budget>> /\ job[w].pc = "repair"
    BY <1>4 DEF ResolveReferrer
  <2>2. Working(j)
    BY <1>1, <1>2, <2>1 DEF Working, JobState, PC
  <2>. HIDE DEF j
  <2>. QED  BY <2>1, <2>2, StandingRests DEF Standing, TypeOK
<1>. QED  BY <1>3, <1>4

LEMMA StandingIndexes ==
  ASSUME Standing, NEW w \in Workers, IndexNote(w)
  PROVE  Standing'
<1>. DEFINE p     == Head(w)
            n     == job[w].batch[p]
            rows  == Upserted(row, p, n)
            links == Stored(Kept(row, link, p, n), n.id, job[w].dsts)
            owed  == IF w = Compile THEN {} ELSE NamedBy(rows, Base[p])
            e     == Judged(excused \cup (NewlyWrong(rows, links) \ owed), n.id, rows, links)
            done  == [Skipped(w) EXCEPT !.done = @ \cup {p}]
<1>1. /\ row \in Rows /\ OneFileEach(row) /\ link \subseteq IdsOf(row) \X IdsOf(row)
      /\ excused \subseteq Ids /\ budget' \in Bounds /\ Working(job[w])
      /\ job[w].pc = "commit"
  BY RowTyped DEF Standing, IndexNote
<1>2. /\ p \in job[w].todo /\ p \in Paths /\ n \in Notes /\ n # None /\ n.id \in Ids
      /\ Ready(Skipped(w))
  BY <1>1, HeadTyped
<1>3. Ready(done)
  <2>. DEFINE j == Skipped(w)
  <2>1. j \in JobState /\ j.todo \subseteq Indexed(j.batch) /\ j.done \subseteq Indexed(j.batch)
    BY <1>2 DEF Ready
  <2>2. j.batch = job[w].batch
    BY DEF Skipped
  <2>3. p \in Indexed(j.batch)
    BY <1>1, <1>2, <2>2 DEF Working
  <2>. HIDE DEF j, p
  <2>4. /\ [j EXCEPT !.done = @ \cup {p}] \in JobState
        /\ [j EXCEPT !.done = @ \cup {p}].todo = j.todo
        /\ [j EXCEPT !.done = @ \cup {p}].batch = j.batch
        /\ [j EXCEPT !.done = @ \cup {p}].done = j.done \cup {p}
    BY <1>2, <2>1 DEF JobState
  <2>5. Ready([j EXCEPT !.done = @ \cup {p}])
    BY <2>1, <2>3, <2>4 DEF Ready
  <2>. QED  BY <2>5 DEF j, p
<1>. HIDE DEF p, n, done
<1>4. /\ rows \in Rows /\ n.id \in IdsOf(rows) /\ OneFileEach(rows)
  BY <1>1, <1>2, UpsertedTyped, UpsertedOnce
<1>5. ASSUME job[w].dsts \subseteq IdsOf(rows)
      PROVE  links \in SUBSET (IdsOf(rows) \X IdsOf(rows))
  <2>1. Kept(row, link, p, n) \subseteq IdsOf(rows) \X IdsOf(rows)
    BY <1>1 DEF Kept, Cascaded
  <2>. QED  BY <1>4, <1>5, <2>1 DEF Stored
<1>6. e \in SUBSET Ids
  <2>1. Wrong(rows, links) \subseteq Ids
    BY <1>4, WrongTyped
  <2>. QED  BY <1>1, <1>2, <2>1, JudgedTyped DEF NewlyWrong
<1>7. CASE job[w].dsts \subseteq IdsOf(rows)
  <2>1. Became(rows, links, e) /\ Becomes(w, AfterBatch(w, done))
    BY <1>7 DEF IndexNote, p, n, done
  <2>. HIDE DEF rows, links, e
  <2>2. row' = rows /\ link' = links /\ excused' = e
    BY <2>1 DEF Became
  <2>3. job' \in [Workers -> JobState] /\ \A v \in Workers : Working(job'[v])
    BY <1>3, <2>1, AfterBatchWorks, BecomesTyped
  <2>. QED  BY <1>1, <1>4, <1>5, <1>6, <1>7, <2>2, <2>3 DEF Standing, TypeOK, Rows
<1>8. CASE ~(job[w].dsts \subseteq IdsOf(rows))
  <2>1. Becomes(w, AfterBatch(w, Skipped(w))) /\ UNCHANGED <<row, link, excused>>
    BY <1>8 DEF IndexNote, p, n
  <2>. QED  BY <1>1, <1>2, <2>1, AfterBatchWorks, StandingRests
<1>. QED  BY <1>7, <1>8

LEMMA StandingFails ==
  ASSUME Standing, NEW w \in Workers, FailIndex(w) \/ FailRepair(w)
  PROVE  Standing'
<1>1. TypeOK /\ row \in Rows /\ excused \subseteq Ids
  BY RowTyped DEF Standing
<1>2. CASE FailIndex(w)
  <2>1. Ready(Skipped(w))
    BY <1>2, HeadTyped DEF FailIndex
  <2>2. Becomes(w, AfterBatch(w, Skipped(w))) /\ UNCHANGED <<row, link, excused>> /\ Fault
    BY <1>2 DEF FailIndex
  <2>. QED  BY <1>1, <2>1, <2>2, AfterBatchWorks, SpendTyped, StandingRests
<1>3. CASE FailRepair(w)
  <2>1. /\ Becomes(w, Finished(job[w])) /\ UNCHANGED <<row, link>> /\ Fault
        /\ excused' = excused \cup GaveUp(w)
    BY <1>3 DEF FailRepair, Became
  <2>2. GaveUp(w) \subseteq Ids
    BY <1>1, WrongTyped DEF GaveUp
  <2>3. Working(Finished(job[w]))
    BY FinishedWorks DEF Standing, Working
  <2>. QED  BY <1>1, <2>1, <2>2, <2>3, SpendTyped, StandingRests
<1>. QED  BY <1>2, <1>3

LEMMA StandingRelinks ==
  ASSUME Standing, NEW w \in Workers, Relink(w)
  PROVE  Standing'
<1>. DEFINE id    == job[w].batch[Head(w)].id
            links == IF Accepted(id, job[w].dsts) THEN Stored(link, id, job[w].dsts) ELSE link
            e     == Judged(excused, id, row, links)
<1>1. TypeOK /\ row \in Rows /\ link \in SUBSET (IdsOf(row) \X IdsOf(row)) /\ excused \in SUBSET Ids
  BY RowTyped DEF Standing
<1>2. job[w].pc = "set" /\ Ready(Skipped(w)) /\ id \in Ids
  BY HeadTyped DEF Relink
<1>3. links \subseteq IdsOf(row) \X IdsOf(row)
  BY <1>1, StoredTyped DEF Accepted
<1>4. e \in SUBSET Ids
  BY <1>1, <1>2, JudgedTyped
<1>5. /\ row' = row /\ link' = links /\ excused' = e /\ budget' = budget
      /\ Becomes(w, AfterLink(Skipped(w)))
  BY DEF Relink, Became
<1>6. job' \in [Workers -> JobState] /\ \A v \in Workers : Working(job'[v])
  BY <1>2, <1>5, AfterLinkWorks, BecomesTyped
<1>. HIDE DEF links, e
<1>. QED  BY <1>1, <1>3, <1>4, <1>5, <1>6 DEF Standing, TypeOK

LEMMA StandingReads ==
  ASSUME Standing, NEW w \in Workers, ReadReferrers(w)
  PROVE  Standing'
<1>. DEFINE names == {Base[p] : p \in job[w].done}
            found == [p \in Paths |->
                        IF p \in Indexed(row) \ job[w].done /\ Mentions(row[p], names)
                        THEN row[p] ELSE None]
            j     == [job[w] EXCEPT !.refs = found]
<1>1. TypeOK /\ row \in Rows /\ excused \in SUBSET Ids /\ Working(job[w])
  BY RowTyped DEF Standing
<1>2. found \in Rows
  BY <1>1 DEF Rows
<1>. HIDE DEF found
<1>3. Ready(j)
  BY <1>1, <1>2 DEF Ready, Working, JobState, Rows
<1>4. /\ Becomes(w, AfterRepair(j)) /\ UNCHANGED <<row, link, budget>>
      /\ excused' = excused \cup (Wrong(row, link) \cap TakenOver(w))
  BY DEF ReadReferrers, Became, found
<1>5. excused' \subseteq Ids
  BY <1>1, <1>4, WrongTyped
<1>. HIDE DEF j
<1>. QED  BY <1>1, <1>3, <1>4, <1>5, AfterRepairWorks, StandingRests DEF TypeOK

LEMMA StandingRepairs ==
  ASSUME Standing, NEW w \in Workers, RepairReferrer(w)
  PROVE  Standing'
<1>. DEFINE id    == Referrer(w).id
            links == Stored(link, id, job[w].dsts)
            e     == Judged(excused, id, row, links)
            j     == [job[w] EXCEPT !.refs = RestOf(@), !.dsts = {}]
<1>1. /\ TypeOK /\ row \in Rows /\ link \in SUBSET (IdsOf(row) \X IdsOf(row))
      /\ excused \in SUBSET Ids /\ Working(job[w]) /\ job[w].pc = "reset"
  BY RowTyped DEF Standing, RepairReferrer
<1>2. job[w].refs \in Rows /\ Min(Indexed(job[w].refs)) \in Indexed(job[w].refs) /\ id \in Ids
  BY <1>1, ReferrerTyped
<1>3. RestOf(job[w].refs) \in Rows
  BY <1>2 DEF RestOf, Rows
<1>4. Ready(j)
  BY <1>1, <1>3 DEF Ready, Working, JobState, Rows
<1>5. CASE Accepted(id, job[w].dsts)
  <2>1. links \subseteq IdsOf(row) \X IdsOf(row)
    BY <1>1, <1>5, StoredTyped DEF Accepted
  <2>2. e \in SUBSET Ids
    BY <1>1, <1>2, JudgedTyped
  <2>3. /\ row' = row /\ link' = links /\ excused' = e /\ budget' = budget
        /\ Becomes(w, AfterRepair(j))
    BY <1>5 DEF RepairReferrer, Became
  <2>. HIDE DEF links, e, j
  <2>4. job' \in [Workers -> JobState] /\ \A v \in Workers : Working(job'[v])
    BY <1>4, <2>3, AfterRepairWorks, BecomesTyped
  <2>. QED  BY <1>1, <2>1, <2>2, <2>3, <2>4 DEF Standing, TypeOK
<1>6. CASE ~Accepted(id, job[w].dsts)
  <2>1. /\ Becomes(w, Finished(job[w])) /\ UNCHANGED <<row, link, budget>>
        /\ excused' = excused \cup GaveUp(w)
    BY <1>6 DEF RepairReferrer, Became
  <2>2. GaveUp(w) \subseteq Ids
    BY <1>1, WrongTyped DEF GaveUp
  <2>3. Working(Finished(job[w]))
    BY <1>1, FinishedWorks DEF Working
  <2>. QED  BY <1>1, <2>1, <2>2, <2>3, StandingRests DEF TypeOK
<1>. QED  BY <1>5, <1>6

LEMMA StandingRemoves ==
  ASSUME Standing, NEW w \in Workers, Remove(w)
  PROVE  Standing'
<1>. DEFINE p     == Min(job[w].gone)
            rows  == [row EXCEPT ![p] = None]
            links == Cascaded(link, rows)
            j     == [job[w] EXCEPT !.gone = @ \ {p}]
<1>1. /\ TypeOK /\ row \in Rows /\ link \in SUBSET (IdsOf(row) \X IdsOf(row))
      /\ excused \in SUBSET Ids /\ Working(job[w]) /\ job[w].pc = "gone" /\ OneFileEach(row)
  BY RowTyped DEF Standing, Remove
<1>2. p \in Paths
  BY <1>1, MinFirst DEF Working, JobState
<1>3. rows \in Rows /\ OneFileEach(rows)
  BY <1>1, <1>2, RemovedTyped, RemovedOnce
<1>4. links \subseteq IdsOf(rows) \X IdsOf(rows)
  BY <1>1, CascadedTyped, IdsTyped
<1>5. Wrong(rows, links) \subseteq Ids
  BY <1>3, WrongTyped
<1>6. j \in JobState
  BY <1>1 DEF Working, JobState
<1>7. /\ row' = rows /\ link' = links /\ budget' = budget /\ Becomes(w, Finished(j))
      /\ excused' = excused \cup NewlyWrong(rows, links)
  BY DEF Remove, Became
<1>. HIDE DEF rows, links, j
<1>8. job' \in [Workers -> JobState] /\ \A v \in Workers : Working(job'[v])
  BY <1>6, <1>7, FinishedWorks, BecomesTyped
<1>. QED  BY <1>1, <1>3, <1>4, <1>5, <1>7, <1>8 DEF Standing, TypeOK, Rows, NewlyWrong

LEMMA StandingCrashes ==
  ASSUME Standing, Crash
  PROVE  Standing'
<1>1. row \in Rows /\ row' = row /\ link' = link /\ excused' = excused \cup Wrong(row, link)
      /\ job' = [w \in Workers |-> Idle] /\ Fault /\ TypeOK
  BY RowTyped DEF Standing, Crash, Became
<1>2. job' \in [Workers -> JobState] /\ \A w \in Workers : Working(job'[w])
  <2>1. Idle \in JobState /\ Working(Idle)
    BY IdleWorks DEF Working
  <2>. QED  BY <1>1, <2>1
<1>3. Wrong(row, link) \subseteq Ids /\ budget' \in Bounds
  BY <1>1, WrongTyped, SpendTyped
<1>. QED  BY <1>1, <1>2, <1>3 DEF Standing, TypeOK

LEMMA StandingStep ==
  Standing /\ [Next]_vars => Standing'
<1>. SUFFICES ASSUME Standing, [Next]_vars PROVE Standing'
  OBVIOUS
<1>1. CASE UNCHANGED vars
  BY <1>1 DEF Standing, TypeOK, vars
<1>2. ASSUME NEW w \in Workers, Step(w) PROVE Standing'
  BY <1>2, StandingResolves, StandingIndexes, StandingFails, StandingRelinks, StandingReads,
     StandingRepairs, StandingRemoves DEF Step
<1>. QED  BY <1>1, <1>2, StandingBegins, StandingCrashes DEF Next

(* Every indexer keeps the index and its own job in shape: one row for a   *)
(* file, edges between indexed notes only, and never a step without the    *)
(* work it is for (write/indexer.go).                                      *)
THEOREM Stands == Spec => []Standing
BY StandingInit, StandingStep, PTL DEF Spec

(* The types of LinkGraph's state, for every set of files and every bound: *)
(* in particular no edge ever outlives the note at either of its ends.     *)
THEOREM TypeCorrect == Spec => []TypeOK
<1>1. Standing => TypeOK
  BY DEF Standing
<1>. QED  BY <1>1, Stands, PTL

-----------------------------------------------------------------------------
(* Edges once stored.                                                      *)

(* What a note loses when its edges are stored is not what it refers to,   *)
(* or it is excused.                                                       *)
LEMMA StoredSays ==
  ASSUME NEW rows, NEW links, NEW id, NEW dsts, NEW x, NEW ids,
         links \subseteq ids \X ids,
         NEW e \in links, e \notin Stored(links, id, dsts), e[1] \in IdsOf(rows)
  PROVE  \/ e[1] \in Judged(x, id, rows, Stored(links, id, dsts))
         \/ \E p \in Indexed(rows) : rows[p].id = e[1] /\ e[2] \notin Targets(rows, rows[p])
<1>. DEFINE l == Stored(links, id, dsts)
<1>1. e[1] = id /\ e[2] \notin dsts
  BY DEF Stored
<1>2. Edges(l, id) \subseteq dsts
  BY DEF Edges, Stored
<1>. HIDE DEF l
<1>3. CASE id \in Wrong(rows, l)
  BY <1>1, <1>3 DEF Judged, l
<1>4. CASE id \notin Wrong(rows, l)
  <2>1. PICK p \in Indexed(rows) : rows[p].id = id
    BY <1>1 DEF IdsOf
  <2>2. Edges(l, id) = Targets(rows, rows[p])
    BY <1>4, <2>1 DEF Wrong
  <2>. QED  BY <1>1, <1>2, <2>1, <2>2
<1>. QED  BY <1>3, <1>4

(* An edge that a step takes away, both of whose ends are left.            *)
Accounted(e) ==
  {e[1], e[2]} \subseteq IdsOf(row') =>
    \/ e[1] \in excused'
    \/ \E p \in Indexed(row') : row'[p].id = e[1] /\ e[2] \notin Targets(row', row'[p])

LEMMA IndexAccounts ==
  ASSUME Standing, NEW w \in Workers, IndexNote(w), NEW e \in link \ link'
  PROVE  Accounted(e)
<1>. DEFINE p     == Head(w)
            n     == job[w].batch[p]
            rows  == Upserted(row, p, n)
            kept  == Kept(row, link, p, n)
            links == Stored(kept, n.id, job[w].dsts)
            owed  == IF w = Compile THEN {} ELSE NamedBy(rows, Base[p])
            x     == excused \cup (NewlyWrong(rows, links) \ owed)
<1>1. Became(rows, links, Judged(x, n.id, rows, links))
  BY DEF IndexNote
<1>2. kept = Cascaded(link, rows) /\ link \subseteq Ids \X Ids
  <2>1. row \in Rows /\ link \subseteq IdsOf(row) \X IdsOf(row)
    BY RowTyped DEF Standing
  <2>. QED  BY <2>1, IdsTyped DEF Kept
<1>. HIDE DEF rows, kept, x, p, n
<1>3. row' = rows /\ link' = links /\ excused' = Judged(x, n.id, rows, links)
  BY <1>1 DEF Became
<1>4. SUFFICES ASSUME e[1] \in IdsOf(rows), e[2] \in IdsOf(rows)
               PROVE  \/ e[1] \in Judged(x, n.id, rows, links)
                      \/ \E q \in Indexed(rows) : rows[q].id = e[1] /\ e[2] \notin Targets(rows, rows[q])
  BY <1>3 DEF Accounted
<1>5. e \in kept /\ e \notin links /\ kept \subseteq Ids \X Ids
  BY <1>2, <1>3, <1>4 DEF Cascaded
<1>. QED  BY <1>4, <1>5, StoredSays

LEMMA SetAccounts ==
  ASSUME Standing, NEW id, NEW dsts, NEW e \in link,
         Became(row, Stored(link, id, dsts), Judged(excused, id, row, Stored(link, id, dsts))),
         e \notin link'
  PROVE  Accounted(e)
<1>1. link \subseteq IdsOf(row) \X IdsOf(row)
  BY RowTyped DEF Standing
<1>. DEFINE links == Stored(link, id, dsts)
<1>2. row' = row /\ link' = links /\ excused' = Judged(excused, id, row, links)
  BY DEF Became
<1>3. e[1] \in IdsOf(row) /\ e \notin links
  BY <1>1, <1>2
<1>4. \/ e[1] \in Judged(excused, id, row, links)
      \/ \E q \in Indexed(row) : row[q].id = e[1] /\ e[2] \notin Targets(row, row[q])
  BY <1>1, <1>3, StoredSays
<1>. QED  BY <1>2, <1>4 DEF Accounted

LEMMA StepAccounts ==
  ASSUME Standing, [Next]_vars, NEW e \in link \ link'
  PROVE  Accounted(e)
<1>1. link' # link
  OBVIOUS
<1>2. ~(\E c \in Calls : BeginCall(c)) /\ ~BeginCompile /\ ~BeginEvent /\ ~BeginSweep /\ ~Crash
  BY <1>1 DEF BeginCall, BeginCompile, BeginEvent, BeginSweep, Crash, Became
<1>3. PICK w \in Workers : Step(w)
  BY <1>1, <1>2 DEF Next, vars
<1>4. ~ResolveNote(w) /\ ~FailIndex(w) /\ ~ReadReferrers(w) /\ ~ResolveReferrer(w) /\ ~FailRepair(w)
  BY <1>1 DEF ResolveNote, FailIndex, ReadReferrers, ResolveReferrer, FailRepair, Became
<1>5. CASE IndexNote(w)
  BY <1>5, IndexAccounts
<1>6. CASE Relink(w)
  <2>. DEFINE id == job[w].batch[Head(w)].id
  <2>1. Accepted(id, job[w].dsts)
    BY <1>1, <1>6 DEF Relink, Became
  <2>2. Became(row, Stored(link, id, job[w].dsts),
               Judged(excused, id, row, Stored(link, id, job[w].dsts)))
    BY <1>6, <2>1 DEF Relink
  <2>. HIDE DEF id
  <2>. QED  BY <2>2, SetAccounts
<1>7. CASE RepairReferrer(w)
  <2>. DEFINE id == Referrer(w).id
  <2>1. Accepted(id, job[w].dsts)
    BY <1>1, <1>7 DEF RepairReferrer, Became
  <2>2. Became(row, Stored(link, id, job[w].dsts),
               Judged(excused, id, row, Stored(link, id, job[w].dsts)))
    BY <1>7, <2>1 DEF RepairReferrer
  <2>. HIDE DEF id
  <2>. QED  BY <2>2, SetAccounts
<1>8. CASE Remove(w)
  <2>. DEFINE rows == [row EXCEPT ![Min(job[w].gone)] = None]
  <2>1. row' = rows /\ link' = Cascaded(link, rows)
    BY <1>8 DEF Remove, Became
  <2>. HIDE DEF rows
  <2>. QED  BY <2>1 DEF Accounted, Cascaded
<1>. QED  BY <1>3, <1>4, <1>5, <1>6, <1>7, <1>8 DEF Step

(* No write, event, sweep or repair costs a note an edge that leads to it, *)
(* whatever the order they come in and whoever else is indexing, unless    *)
(* what the edge comes from no longer refers to it (indexer.go, watch.go,  *)
(* the upsert that keeps a note's id).                                     *)
THEOREM InboundStays == Spec => InboundSurvives
<1>1. ASSUME Standing, [Next]_vars
      PROVE  [\A e \in link \ link' :
                {e[1], e[2]} \subseteq IdsOf(row') =>
                  \/ e[1] \in excused'
                  \/ \E p \in Indexed(row') :
                       row'[p].id = e[1] /\ e[2] \notin Targets(row', row'[p])]_vars
  BY <1>1, StepAccounts DEF Accounted
<1>. QED  BY <1>1, Stands, PTL DEF Spec, InboundSurvives

-----------------------------------------------------------------------------
(* What is owed.  Edges that are wrong and not excused have an indexer at  *)
(* work that will come to them: one that has indexed a name they mention,  *)
(* one that will compute the edges of its batch again, or one that has     *)
(* read the note to repair it.                                             *)

Names(done) == {Base[p] : p \in done}

Promises(j, q, n) ==
  /\ j.pc \in {"index", "commit", "relink", "set", "refer"}
  /\ Mentions(n, Names(j.done))
  /\ q \in j.done => n.id # j.batch[q].id

Relinks(j, q, n) ==
  /\ q \in j.done /\ n.id = j.batch[q].id
  /\ \/ j.pc \in {"index", "commit"} /\ Cardinality(j.done) > 1
     \/ j.pc \in {"relink", "set"} /\ q \in j.todo

Repairs(j, n) ==
  /\ j.pc \in {"repair", "reset"}
  /\ \E p \in Indexed(j.refs) : j.refs[p].id = n.id

Owes(w, j, q, n) == w # Compile /\ (Promises(j, q, n) \/ Relinks(j, q, n) \/ Repairs(j, n))

Astray(q) == Plain(row[q]) /\ row[q].id \in Wrong(row, link) /\ row[q].id \notin excused

Owing == \A q \in Indexed(row) : Astray(q) => \E w \in Workers : Owes(w, job[w], q, row[q])

LEMMA OwingInit == Init => Owing
<1>. SUFFICES ASSUME Init, NEW q \in Indexed(row) PROVE row[q].id \notin Wrong(row, link)
  BY DEF Owing, Astray
<1>1. row \in Rows /\ OneFileEach(row)
  BY StandingInit, RowTyped DEF Standing
<1>2. ASSUME NEW p \in Indexed(row) PROVE Edges(link, row[p].id) = Targets(row, row[p])
  <2>1. Targets(row, row[p]) \subseteq Ids /\ row[p].id \in Ids
    BY <1>1, TargetsTyped, IdsTyped DEF IdsOf
  <2>2. ASSUME NEW t \in Edges(link, row[p].id) PROVE t \in Targets(row, row[p])
    <3>1. PICK e \in link : e[1] = row[p].id /\ e[2] = t
      BY <2>2 DEF Edges
    <3>2. PICK r \in Indexed(row) : e[1] = row[r].id /\ e[2] \in Targets(row, row[r])
      BY <3>1 DEF Init
    <3>. QED  BY <1>1, <3>1, <3>2 DEF OneFileEach
  <2>3. ASSUME NEW t \in Targets(row, row[p]) PROVE t \in Edges(link, row[p].id)
    <3>1. <<row[p].id, t>> \in link
      BY <2>1, <2>3 DEF Init
    <3>. QED  BY <3>1 DEF Edges
  <2>. QED  BY <2>2, <2>3
<1>. QED  BY <1>2 DEF Wrong

(* A step of w that leaves the notes table alone.                          *)
LEMMA OwingRests ==
  ASSUME Owing, row' = row, NEW w \in Workers, NEW j, Standing, Becomes(w, j),
         \A q \in Indexed(row) : Astray(q)' => Astray(q),
         \A q \in Indexed(row) :
           Astray(q)' /\ Owes(w, job[w], q, row[q]) => Owes(w, j, q, row[q])
  PROVE  Owing'
<1>1. job'[w] = j /\ \A v \in Workers \ {w} : job'[v] = job[v]
  BY DEF Becomes, Standing, TypeOK
<1>2. ASSUME NEW q \in Indexed(row), Astray(q)'
      PROVE  \E v \in Workers : Owes(v, job'[v], q, row[q])
  <2>1. PICK v \in Workers : Owes(v, job[v], q, row[q])
    BY <1>2 DEF Owing
  <2>. QED  BY <1>1, <1>2, <2>1
<1>. QED  BY <1>2 DEF Owing

(* Wrong edges stay wrong, or are excused, when nothing but a job changes. *)
LEMMA AstrayRests ==
  ASSUME row' = row, link' = link, excused \subseteq excused', NEW q
  PROVE  Astray(q)' => Astray(q)
BY DEF Astray

(* SetLinks changes the edges of one note, and judges them.                *)
LEMMA AstraySets ==
  ASSUME NEW id, NEW dsts, NEW links, links \in {link, Stored(link, id, dsts)},
         Became(row, links, Judged(excused, id, row, links)), NEW q \in Indexed(row), Astray(q)'
  PROVE  Astray(q) /\ row[q].id # id
<1>1. row' = row /\ link' = links /\ excused' = Judged(excused, id, row, links)
  BY DEF Became
<1>2. row[q].id \in Wrong(row, links) /\ row[q].id \notin Judged(excused, id, row, links)
  BY <1>1 DEF Astray
<1>3. row[q].id # id /\ row[q].id \notin excused
  BY <1>2 DEF Judged
<1>4. \A i : i # id => Edges(links, i) = Edges(link, i)
  BY DEF Edges, Stored
<1>5. row[q].id \in Wrong(row, link)
  BY <1>2, <1>3, <1>4 DEF Wrong
<1>. QED  BY <1>1, <1>3, <1>5 DEF Astray

LEMMA OwingBegins ==
  ASSUME Owing, Standing,
         (\E c \in Calls : BeginCall(c)) \/ BeginCompile \/ BeginEvent \/ BeginSweep
  PROVE  Owing'
<1>1. UNCHANGED <<row, link, excused>>
  BY DEF BeginCall, BeginCompile, BeginEvent, BeginSweep
<1>2. PICK w \in Workers : job[w].pc = "idle" /\ \E j : Becomes(w, j)
  BY DEF BeginCall, BeginCompile, BeginEvent, BeginSweep, Becomes, Workers
<1>3. PICK j : Becomes(w, j)
  BY <1>2
<1>4. \A q : ~Owes(w, job[w], q, row[q])
  BY <1>2 DEF Owes, Promises, Relinks, Repairs
<1>5. \A q : Astray(q)' => Astray(q)
  BY <1>1, AstrayRests
<1>. QED  BY <1>1, <1>3, <1>4, <1>5, OwingRests

LEMMA OwingResolves ==
  ASSUME Owing, Standing, NEW w \in Workers, ResolveNote(w) \/ ResolveReferrer(w)
  PROVE  Owing'
<1>1. UNCHANGED <<row, link, excused>> /\ job[w] \in JobState
  BY DEF ResolveNote, ResolveReferrer, Standing, TypeOK
<1>2. PICK j : /\ Becomes(w, j)
               /\ \/ j = [job[w] EXCEPT !.pc = IF @ = "index" THEN "commit" ELSE "set",
                                        !.dsts = Targets(row, job[w].batch[Head(w)])]
                     /\ job[w].pc \in {"index", "relink"}
                  \/ j = [job[w] EXCEPT !.pc = "reset", !.dsts = Targets(row, Referrer(w))]
                     /\ job[w].pc = "repair"
  BY DEF ResolveNote, ResolveReferrer
<1>3. /\ j.batch = job[w].batch /\ j.todo = job[w].todo /\ j.done = job[w].done
      /\ j.refs = job[w].refs
      /\ \/ job[w].pc = "index" /\ j.pc = "commit"
         \/ job[w].pc = "relink" /\ j.pc = "set"
         \/ job[w].pc = "repair" /\ j.pc = "reset"
  BY <1>1, <1>2 DEF JobState
<1>4. \A q : Owes(w, job[w], q, row[q]) => Owes(w, j, q, row[q])
  BY <1>3 DEF Owes, Promises, Relinks, Repairs
<1>5. \A q : Astray(q)' => Astray(q)
  BY <1>1, AstrayRests
<1>. QED  BY <1>1, <1>2, <1>4, <1>5, OwingRests

LEMMA TwoOf ==
  ASSUME NEW T \in SUBSET Paths, NEW p \in T, NEW q \in T, p # q
  PROVE  Cardinality(T) > 1
<1>1. IsFiniteSet(T) /\ IsFiniteSet(T \ {p})
  BY NotesAssumption, FS_Subset
<1>2. Cardinality(T \ {p}) = Cardinality(T) - 1 /\ Cardinality(T) \in Nat
  BY <1>1, FS_RemoveElement, FS_CardinalityType
<1>3. Cardinality(T \ {p}) \in Nat /\ Cardinality(T \ {p}) # 0
  <2>. DEFINE U == T \ {p}
  <2>1. IsFiniteSet(U) /\ U # {}
    BY <1>1
  <2>. HIDE DEF U
  <2>2. Cardinality(U) \in Nat /\ Cardinality(U) # 0
    BY <2>1, FS_EmptySet, FS_CardinalityType
  <2>. QED  BY <2>2 DEF U
<1>. QED  BY <1>2, <1>3

(* What is owed in the middle of a batch is owed at its next file.         *)
LEMMA AfterBatchOwes ==
  ASSUME NEW w, w # Compile, NEW j, Ready(j), NEW q, NEW n
  PROVE  /\ Mentions(n, Names(j.done)) /\ (q \in j.done => n.id # j.batch[q].id)
              => Owes(w, AfterBatch(w, j), q, n)
         /\ q \in j.done /\ n.id = j.batch[q].id /\ Cardinality(j.done) > 1
              => Owes(w, AfterBatch(w, j), q, n)
<1>. DEFINE k == AfterBatch(w, j)
<1>1. ASSUME j.done # {}
      PROVE  /\ k.batch = j.batch /\ k.done = j.done
             /\ \/ k.pc = "index"
                \/ k.pc = "relink" /\ k.todo = j.done
                \/ k.pc = "refer" /\ ~(Cardinality(j.done) > 1)
  <2>1. CASE j.todo # {}
    BY <2>1 DEF AfterBatch, Ready, JobState
  <2>2. CASE j.todo = {} /\ Cardinality(j.done) > 1
    <3>1. k = [j EXCEPT !.pc = "relink", !.todo = j.done]
      BY <1>1, <2>2 DEF AfterBatch
    <3>. QED  BY <3>1 DEF Ready, JobState
  <2>3. CASE j.todo = {} /\ ~(Cardinality(j.done) > 1)
    <3>1. k = [j EXCEPT !.pc = "refer", !.todo = {}]
      BY <1>1, <2>3 DEF AfterBatch
    <3>. QED  BY <2>3, <3>1 DEF Ready, JobState
  <2>. QED  BY <2>1, <2>2, <2>3
<1>2. Mentions(n, Names(j.done)) => j.done # {}
  BY DEF Mentions, Names
<1>. HIDE DEF k
<1>3. ASSUME Mentions(n, Names(j.done)), q \in j.done => n.id # j.batch[q].id
      PROVE  Owes(w, k, q, n)
  BY <1>1, <1>2, <1>3 DEF Owes, Promises
<1>4. ASSUME q \in j.done, n.id = j.batch[q].id, Cardinality(j.done) > 1
      PROVE  Owes(w, k, q, n)
  BY <1>1, <1>4 DEF Owes, Relinks
<1>. QED  BY <1>3, <1>4 DEF k

LEMMA OwingSkips ==
  ASSUME Owing, Standing, NEW w \in Workers, job[w].pc = "commit",
         Becomes(w, AfterBatch(w, Skipped(w))), UNCHANGED <<row, link, excused>>
  PROVE  Owing'
<1>1. Ready(Skipped(w)) /\ job[w] \in JobState
  BY HeadTyped DEF Standing, TypeOK
<1>2. Skipped(w).batch = job[w].batch /\ Skipped(w).done = job[w].done
  BY <1>1 DEF Skipped, JobState
<1>3. ASSUME NEW q, Owes(w, job[w], q, row[q])
      PROVE  Owes(w, AfterBatch(w, Skipped(w)), q, row[q])
  <2>. DEFINE j == Skipped(w)
              n == row[q]
  <2>1. /\ w # Compile
        /\ \/ Mentions(n, Names(j.done)) /\ (q \in j.done => n.id # j.batch[q].id)
           \/ q \in j.done /\ n.id = j.batch[q].id /\ Cardinality(j.done) > 1
    BY <1>2, <1>3 DEF Owes, Promises, Relinks, Repairs
  <2>2. Ready(j)
    BY <1>1
  <2>. HIDE DEF j, n
  <2>3. Owes(w, AfterBatch(w, j), q, n)
    BY <2>1, <2>2, AfterBatchOwes
  <2>. QED  BY <2>3 DEF j, n
<1>4. \A q : Astray(q)' => Astray(q)
  BY AstrayRests
<1>. QED  BY <1>3, <1>4, OwingRests

(* A repair that is given up.                                              *)
LEMMA OwingGivesUp ==
  ASSUME Owing, Standing, NEW w \in Workers, job[w].pc \in {"repair", "reset"},
         Becomes(w, Finished(job[w])), Became(row, link, excused \cup GaveUp(w))
  PROVE  Owing'
<1>1. row' = row /\ link' = link /\ excused' = excused \cup GaveUp(w)
  BY DEF Became
<1>2. \A q : Astray(q)' => Astray(q)
  BY <1>1, AstrayRests
<1>3. ASSUME NEW q, Astray(q)' PROVE ~Owes(w, job[w], q, row[q])
  BY <1>1, <1>3 DEF Astray, Owes, Promises, Relinks, Repairs, GaveUp
<1>. QED  BY <1>1, <1>2, <1>3, OwingRests

LEMMA OwingFails ==
  ASSUME Owing, Standing, NEW w \in Workers, FailIndex(w) \/ FailRepair(w)
  PROVE  Owing'
BY OwingSkips, OwingGivesUp DEF FailIndex, FailRepair

LEMMA OwingRelinks ==
  ASSUME Owing, Standing, NEW w \in Workers, Relink(w)
  PROVE  Owing'
<1>. DEFINE id    == job[w].batch[Head(w)].id
            links == IF Accepted(id, job[w].dsts) THEN Stored(link, id, job[w].dsts) ELSE link
            j     == Skipped(w)
<1>1. /\ job[w].pc = "set" /\ Became(row, links, Judged(excused, id, row, links))
      /\ Becomes(w, AfterLink(j)) /\ job[w] \in JobState
  BY DEF Relink, Standing, TypeOK
<1>2. links \in {link, Stored(link, id, job[w].dsts)}
  OBVIOUS
<1>3. /\ j.batch = job[w].batch /\ j.done = job[w].done /\ j.todo = job[w].todo \ {Head(w)}
      /\ j \in JobState
  BY <1>1 DEF Skipped, JobState
<1>4. /\ AfterLink(j).batch = job[w].batch /\ AfterLink(j).done = job[w].done
      /\ AfterLink(j).todo = j.todo
      /\ AfterLink(j).pc = IF j.todo = {} THEN "refer" ELSE "relink"
  BY <1>3 DEF AfterLink, JobState
<1>. HIDE DEF links
<1>5. \A q \in Indexed(row) : Astray(q)' => Astray(q) /\ row[q].id # id
  BY <1>1, <1>2, AstraySets
<1>. HIDE DEF j
<1>6. ASSUME NEW q \in Indexed(row), Astray(q)', Owes(w, job[w], q, row[q])
      PROVE  Owes(w, AfterLink(j), q, row[q])
  <2>1. CASE Promises(job[w], q, row[q])
    BY <1>4, <1>6, <2>1 DEF Owes, Promises
  <2>2. CASE Relinks(job[w], q, row[q])
    <3>1. q # Head(w)
      BY <1>5, <1>6, <2>2 DEF Relinks
    <3>. QED  BY <1>1, <1>3, <1>4, <1>6, <2>2, <3>1 DEF Owes, Relinks
  <2>. QED  BY <1>1, <1>6, <2>1, <2>2 DEF Owes, Repairs
<1>7. row' = row
  BY <1>1 DEF Became
<1>. QED  BY <1>1, <1>5, <1>6, <1>7, OwingRests

LEMMA AfterRepairOwes ==
  ASSUME NEW w, w # Compile, NEW j \in JobState, NEW q, NEW n, NEW p \in Indexed(j.refs),
         j.refs[p].id = n.id
  PROVE  Owes(w, AfterRepair(j), q, n)
<1>1. AfterRepair(j) = [j EXCEPT !.pc = "repair"]
  BY DEF AfterRepair
<1>2. AfterRepair(j).pc = "repair" /\ AfterRepair(j).refs = j.refs
  BY <1>1 DEF JobState
<1>. QED  BY <1>2 DEF Owes, Repairs

LEMMA OwingReads ==
  ASSUME Owing, Standing, NEW w \in Workers, ReadReferrers(w)
  PROVE  Owing'
<1>. DEFINE found == [p \in Paths |->
                        IF p \in Indexed(row) \ job[w].done /\ Mentions(row[p], Names(job[w].done))
                        THEN row[p] ELSE None]
            j     == [job[w] EXCEPT !.refs = found]
<1>1. /\ job[w].pc = "refer" /\ Becomes(w, AfterRepair(j)) /\ row' = row /\ link' = link
      /\ excused' = excused \cup (Wrong(row, link) \cap TakenOver(w))
      /\ job[w] \in JobState
  BY DEF ReadReferrers, Became, Names, Standing, TypeOK
<1>2. \A q : Astray(q)' => Astray(q)
  BY <1>1, AstrayRests
<1>3. row \in Rows
  BY RowTyped DEF Standing
<1>4. found \in Rows
  BY <1>3 DEF Rows
<1>5. \A q \in Indexed(row) : q \notin job[w].done /\ Mentions(row[q], Names(job[w].done))
                                => q \in Indexed(found) /\ found[q] = row[q]
  BY DEF Indexed
<1>. HIDE DEF found
<1>6. j \in JobState /\ j.refs = found
  BY <1>1, <1>4 DEF JobState, Rows
<1>. HIDE DEF j
<1>7. ASSUME NEW q \in Indexed(row), Astray(q)', Owes(w, job[w], q, row[q])
      PROVE  Owes(w, AfterRepair(j), q, row[q])
  <2>1. Promises(job[w], q, row[q]) /\ w # Compile
    BY <1>1, <1>7 DEF Owes, Relinks, Repairs
  <2>2. q \notin job[w].done
    BY <1>1, <1>7, <2>1 DEF Promises, Astray, TakenOver
  <2>. QED  BY <1>5, <1>6, <2>1, <2>2, AfterRepairOwes DEF Promises
<1>. QED  BY <1>1, <1>2, <1>7, OwingRests

LEMMA OwingRepairs ==
  ASSUME Owing, Standing, NEW w \in Workers, RepairReferrer(w)
  PROVE  Owing'
<1>. DEFINE id    == Referrer(w).id
            links == Stored(link, id, job[w].dsts)
            j     == [job[w] EXCEPT !.refs = RestOf(@), !.dsts = {}]
<1>1. job[w].pc = "reset" /\ job[w] \in JobState
  BY DEF RepairReferrer, Standing, TypeOK
<1>2. CASE ~Accepted(id, job[w].dsts)
  BY <1>1, <1>2, OwingGivesUp DEF RepairReferrer
<1>3. CASE Accepted(id, job[w].dsts)
  <2>1. Becomes(w, AfterRepair(j)) /\ Became(row, links, Judged(excused, id, row, links))
    BY <1>3 DEF RepairReferrer
  <2>2. row' = row
    BY <2>1 DEF Became
  <2>3. job[w].refs \in Rows /\ Min(Indexed(job[w].refs)) \in Indexed(job[w].refs)
    BY <1>1, ReferrerTyped
  <2>4. \A p \in Indexed(job[w].refs) \ {Min(Indexed(job[w].refs))} :
          p \in Indexed(RestOf(job[w].refs)) /\ RestOf(job[w].refs)[p] = job[w].refs[p]
    BY <2>3 DEF RestOf, Rows, Indexed
  <2>5. RestOf(job[w].refs) \in Rows
    BY <2>3 DEF RestOf, Rows
  <2>6. j \in JobState /\ j.refs = RestOf(job[w].refs)
    BY <1>1, <2>5 DEF JobState, Rows
  <2>. HIDE DEF links, j
  <2>7. \A q \in Indexed(row) : Astray(q)' => Astray(q) /\ row[q].id # id
    BY <2>1, AstraySets DEF links
  <2>8. ASSUME NEW q \in Indexed(row), Astray(q)', Owes(w, job[w], q, row[q])
        PROVE  Owes(w, AfterRepair(j), q, row[q])
    <3>1. w # Compile /\ \E p \in Indexed(job[w].refs) : job[w].refs[p].id = row[q].id
      BY <1>1, <2>8 DEF Owes, Promises, Relinks, Repairs
    <3>2. PICK p \in Indexed(job[w].refs) : job[w].refs[p].id = row[q].id
      BY <3>1
    <3>3. p # Min(Indexed(job[w].refs))
      BY <2>7, <2>8, <3>2 DEF Referrer
    <3>. QED  BY <2>4, <2>6, <3>1, <3>2, <3>3, AfterRepairOwes
  <2>. QED  BY <2>1, <2>2, <2>7, <2>8, OwingRests
<1>. QED  BY <1>2, <1>3

(* A note just indexed is judged, the others are owed what they were, and  *)
(* those its name or its place has put wrong are owed by who indexed it.   *)
LEMMA OwingIndexed ==
  ASSUME Owing, Standing, NEW w \in Workers, IndexNote(w),
         job[w].dsts \subseteq IdsOf(Upserted(row, Head(w), job[w].batch[Head(w)]))
  PROVE  Owing'
<1>. DEFINE p     == Head(w)
            m     == job[w].batch[p]
            rows  == Upserted(row, p, m)
            links == Stored(Kept(row, link, p, m), m.id, job[w].dsts)
            owed  == IF w = Compile THEN {} ELSE NamedBy(rows, Base[p])
            j     == [Skipped(w) EXCEPT !.done = @ \cup {p}]
<1>1. /\ row' = rows /\ link' = links
      /\ excused' = Judged(excused \cup (NewlyWrong(rows, links) \ owed), m.id, rows, links)
      /\ Becomes(w, AfterBatch(w, j)) /\ job[w].pc = "commit"
  BY DEF IndexNote, Became
<1>2. row \in Rows /\ OneFileEach(row) /\ Working(job[w])
  BY RowTyped DEF Standing
<1>3. p \in job[w].todo /\ p \in Paths /\ m \in Notes /\ Ready(Skipped(w))
  BY <1>1, HeadTyped
<1>4. /\ Ready(j) /\ j.batch = job[w].batch /\ j.done = job[w].done \cup {p} /\ j.done \subseteq Paths
  BY <1>2, <1>3 DEF Ready, Working, JobState, Skipped
<1>5. /\ rows[p] = m /\ rows \in Rows /\ OneFileEach(rows)
      /\ \A q \in Paths \ {p} : rows[q] \in {row[q], None}
      /\ \A q \in Paths \ {p} : rows[q] # None => rows[q].id # m.id
  BY <1>2, <1>3, UpsertedTyped, UpsertedOnce
<1>6. job'[w] = AfterBatch(w, j) /\ \A v \in Workers \ {w} : job'[v] = job[v]
  BY <1>1 DEF Becomes, Standing, TypeOK
<1>. HIDE DEF p, m, rows, links, owed, j
<1>7. ASSUME NEW q \in Indexed(rows), Plain(rows[q]), rows[q].id \in Wrong(rows, links),
             rows[q].id \notin excused'
      PROVE  \E v \in Workers : Owes(v, job'[v], q, rows[q])
  <2>1. rows[q].id # m.id
    BY <1>1, <1>7 DEF Judged
  <2>2. q \in Paths \ {p} /\ q \in Indexed(row) /\ rows[q] = row[q]
    BY <1>5, <1>7, <2>1 DEF Indexed
  <2>3. rows[q].id \notin excused /\ rows[q].id \notin NewlyWrong(rows, links) \ owed
    BY <1>1, <1>7, <2>1 DEF Judged
  <2>. DEFINE n == rows[q]
  <2>4. CASE n.id \in Wrong(row, link)
    <3>1. Astray(q)
      BY <1>7, <2>2, <2>3, <2>4 DEF Astray
    <3>2. PICK v \in Workers : Owes(v, job[v], q, n)
      BY <2>2, <3>1 DEF Owing
    <3>3. CASE v # w
      BY <1>6, <3>2, <3>3
    <3>4. CASE v = w
      <4>1. w # Compile /\ (Promises(job[w], q, n) \/ Relinks(job[w], q, n))
        BY <1>1, <3>2, <3>4 DEF Owes, Repairs
      <4>2. CASE Promises(job[w], q, n)
        <5>1. Mentions(n, Names(j.done)) /\ (q \in j.done => n.id # j.batch[q].id)
          BY <1>4, <2>2, <4>2 DEF Promises, Mentions, Names
        <5>. HIDE DEF n
        <5>2. Owes(w, AfterBatch(w, j), q, n)
          BY <1>4, <4>1, <5>1, AfterBatchOwes
        <5>. QED  BY <1>6, <5>2 DEF n
      <4>3. CASE Relinks(job[w], q, n)
        <5>1. q \in j.done /\ n.id = j.batch[q].id
          BY <1>4, <4>3 DEF Relinks
        <5>2. Cardinality(j.done) > 1
          BY <1>4, <2>2, <5>1, TwoOf
        <5>. HIDE DEF n
        <5>3. Owes(w, AfterBatch(w, j), q, n)
          BY <1>4, <4>1, <5>1, <5>2, AfterBatchOwes
        <5>. QED  BY <1>6, <5>3 DEF n
      <4>. QED  BY <4>1, <4>2, <4>3
    <3>. QED  BY <3>3, <3>4
  <2>5. CASE n.id \notin Wrong(row, link)
    <3>1. w # Compile /\ n.id \in NamedBy(rows, Base[p])
      BY <1>7, <2>3, <2>5 DEF NewlyWrong, owed
    <3>2. \E r \in n.refs : r.name = Base[p]
      BY <1>5, <1>7, <3>1 DEF NamedBy, OneFileEach
    <3>3. Mentions(n, Names(j.done))
      <4>1. Base[p] \in Names(j.done)
        BY <1>4 DEF Names
      <4>. QED  BY <1>7, <3>2, <4>1 DEF Mentions, Plain
    <3>. HIDE DEF n
    <3>4. Owes(w, AfterBatch(w, j), q, n)
      <4>1. CASE q \in j.done /\ n.id = j.batch[q].id
        <5>1. Cardinality(j.done) > 1
          BY <1>4, <2>2, <4>1, TwoOf
        <5>. QED  BY <1>4, <3>1, <4>1, <5>1, AfterBatchOwes
      <4>2. CASE ~(q \in j.done /\ n.id = j.batch[q].id)
        BY <1>4, <3>1, <3>3, <4>2, AfterBatchOwes
      <4>. QED  BY <4>1, <4>2
    <3>. QED  BY <1>6, <3>4 DEF n
  <2>. QED  BY <2>4, <2>5
<1>. QED  BY <1>1, <1>7 DEF Owing, Astray

LEMMA OwingIndexes ==
  ASSUME Owing, Standing, NEW w \in Workers, IndexNote(w)
  PROVE  Owing'
<1>1. CASE ~(job[w].dsts \subseteq IdsOf(Upserted(row, Head(w), job[w].batch[Head(w)])))
  BY <1>1, OwingSkips DEF IndexNote
<1>. QED  BY <1>1, OwingIndexed

(* A removal repairs nothing, and excuses what it has put wrong.           *)
LEMMA OwingRemoves ==
  ASSUME Owing, Standing, NEW w \in Workers, Remove(w)
  PROVE  Owing'
<1>. DEFINE p     == Min(job[w].gone)
            rows  == [row EXCEPT ![p] = None]
            links == Cascaded(link, rows)
            j     == Finished([job[w] EXCEPT !.gone = @ \ {p}])
<1>1. /\ job[w].pc = "gone" /\ row' = rows /\ link' = links /\ Becomes(w, j)
      /\ excused' = excused \cup NewlyWrong(rows, links)
  BY DEF Remove, Became
<1>2. row \in Rows /\ Working(job[w])
  BY RowTyped DEF Standing
<1>3. p \in Paths
  BY <1>1, <1>2, MinFirst DEF Working, JobState
<1>4. \A q \in Paths : rows[q] = IF q = p THEN None ELSE row[q]
  BY <1>2, <1>3, RemovedTyped
<1>5. job'[w] = j /\ \A v \in Workers \ {w} : job'[v] = job[v]
  BY <1>1 DEF Becomes, Standing, TypeOK
<1>. HIDE DEF rows, links, j
<1>6. ASSUME NEW q \in Indexed(rows), Plain(rows[q]), rows[q].id \in Wrong(rows, links),
             rows[q].id \notin excused'
      PROVE  \E v \in Workers : Owes(v, job'[v], q, rows[q])
  <2>1. q \in Indexed(row) /\ rows[q] = row[q]
    BY <1>4, <1>6 DEF Indexed
  <2>2. Astray(q)
    BY <1>1, <1>6, <2>1 DEF Astray, NewlyWrong
  <2>3. PICK v \in Workers : Owes(v, job[v], q, row[q])
    BY <2>1, <2>2 DEF Owing
  <2>4. v # w
    BY <1>1, <2>3 DEF Owes, Promises, Relinks, Repairs
  <2>. QED  BY <1>5, <2>1, <2>3, <2>4
<1>. QED  BY <1>1, <1>6 DEF Owing, Astray

LEMMA OwingStep ==
  Owing /\ Standing /\ [Next]_vars => Owing'
<1>. SUFFICES ASSUME Owing, Standing, [Next]_vars PROVE Owing'
  OBVIOUS
<1>1. CASE UNCHANGED vars
  BY <1>1 DEF Owing, Astray, vars
<1>2. ASSUME NEW w \in Workers, Step(w) PROVE Owing'
  BY <1>2, OwingResolves, OwingIndexes, OwingFails, OwingRelinks, OwingReads, OwingRepairs,
     OwingRemoves DEF Step
<1>3. CASE Crash
  BY <1>3 DEF Crash, Became, Owing, Astray
<1>. QED  BY <1>1, <1>2, <1>3, OwingBegins DEF Next

(* Whoever indexes, in whatever order, batches or alone: once nothing is   *)
(* being indexed, a note that refers to others in the plain form has the   *)
(* edges its content implies, or is one the code owes no repair.           *)
THEOREM GraphConverges == Spec => []GraphAsImplied
<1>1. Owing => GraphAsImplied
  <2>. SUFFICES ASSUME Owing, Quiet, NEW p \in Indexed(row), Plain(row[p]), row[p].id \notin excused,
                       row[p].id \in Wrong(row, link)
                PROVE  FALSE
    BY DEF GraphAsImplied
  <2>1. PICK w \in Workers : Owes(w, job[w], p, row[p])
    BY DEF Owing, Astray
  <2>. QED  BY <2>1 DEF Quiet, Owes, Promises, Relinks, Repairs
<1>2. Spec => []Owing
  BY OwingInit, OwingStep, Stands, PTL DEF Spec
<1>. QED  BY <1>1, <1>2, PTL

=============================================================================
