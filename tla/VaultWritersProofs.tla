------------------------- MODULE VaultWritersProofs -------------------------
(***************************************************************************)
(* Theorems about VaultWriters for every set of paths, notes and calls and *)
(* every bound.                                                            *)
(***************************************************************************)
EXTENDS VaultWriters, TLAPS

-----------------------------------------------------------------------------
(* Which state each group of actions leaves alone.                         *)

(* The watcher reads files and writes rows; it touches no file and no lock. *)
LEMMA WatcherFrame ==
  ASSUME WatStep
  PROVE  UNCHANGED <<disk, byHand, lock, suppressed, call, eng>>
<1>1. CASE TakeEvent \/ Settle \/ ReadFile
  BY <1>1 DEF TakeEvent, Settle, ReadFile
<1>2. CASE IndexEvent \/ DeleteEvent \/ FailEvent
  BY <1>2 DEF IndexEvent, DeleteEvent, FailEvent
<1>3. CASE ReadStates \/ WalkVault \/ FailWalk \/ EndReconcile
  BY <1>3 DEF ReadStates, WalkVault, FailWalk, EndReconcile
<1>4. CASE \E p \in Paths : IndexDrift(p) \/ FailDrift(p) \/ DeleteGone(p) \/ FailGone(p)
  BY <1>4 DEF IndexDrift, FailDrift, DeleteGone, FailGone
<1> QED BY <1>1, <1>2, <1>3, <1>4 DEF WatStep

(* A hand changes files and nothing of the daemon's own.                   *)
LEMMA HandFrame ==
  ASSUME Hand
  PROVE  UNCHANGED <<row, lock, suppressed, call, eng, wat, up>>
BY DEF Hand, HumanSave, HumanDelete, HumanRename, Edit

-----------------------------------------------------------------------------
(* Type correctness.                                                       *)

LEMMA EnqueueType ==
  ASSUME NEW q \in Seq(Event), NEW e \in Event
  PROVE  Enqueue(q, e) \in Seq(Event)
BY DEF Enqueue

LEMMA UpsertType ==
  ASSUME NEW rows \in [Paths -> File \cup {None}], NEW p, NEW f \in File \cup {None}
  PROVE  Upsert(rows, p, f) \in [Paths -> File \cup {None}]
BY DEF Upsert, EvictOther, MovePath

LEMMA FreshType ==
  ASSUME NEW p \in Paths
  PROVE  Fresh(p) \in File \cup {None}
BY PathsAssumption DEF Fresh, File, Tokens, Ids

LEMMA StampedType ==
  ASSUME TypeOK, NEW f \in File, NEW p \in Paths, disk[p] # None
  PROVE  Stamped(f, p) \in File
BY DEF Stamped, TypeOK, File

LEMMA FaultType ==
  ASSUME budget \in Bounds, Fault
  PROVE  budget' \in Bounds
BY DEF Fault, Bounds

LEMMA EditType ==
  ASSUME budget \in Bounds, Edit
  PROVE  budget' \in Bounds
BY DEF Edit, Bounds

(* What a process knows at each point of its program.                      *)
CallShape(s) ==
  /\ s \in CallState
  /\ s.pc \notin {"idle", "done"} => s.path \in Paths
  /\ s.pc \in {"ready", "written", "stated"} => s.new \in File

EngShape(e) ==
  /\ e \in EngState
  /\ e.todo \subseteq {p \in Active : e.walk[p] # None}
  /\ e.pc \notin {"idle", "next"} =>
       /\ e.src \in Active
       /\ e.dst \in {e.src, Archive[e.src]}
       /\ e.walk[e.src] # None
  /\ e.pc \in {"write", "written", "stated", "remove"} => e.new \in File

WatShape(w) ==
  /\ w \in WatState
  /\ w.pc \in {"settle", "delete", "read", "index"} => w.path \in Paths
  /\ w.pc = "index" => w.file \in File

Typed ==
  /\ TypeOK
  /\ \A c \in Calls : CallShape(call[c])
  /\ EngShape(eng)
  /\ WatShape(wat)

LEMMA CallUpdate ==
  ASSUME call \in [Calls -> CallState], \A c \in Calls : CallShape(call[c]),
         NEW c \in Calls, CallShape(call'[c]), call' = [call EXCEPT ![c] = call'[c]]
  PROVE  call' \in [Calls -> CallState] /\ \A d \in Calls : CallShape(call'[d])
BY DEF CallShape

LEMMA StatedShape ==
  ASSUME NEW u \in CallState, u.path \in Paths, NEW f \in File
  PROVE  CallShape([u EXCEPT !.pc = "stated", !.new = f])
BY DEF CallShape, CallState, CallPC

LEMMA TypedInit == Init => Typed
BY PathsAssumption, TokensAssumption, BoundsAssumption, FreshType
DEF Init, Typed, TypeOK, CallShape, EngShape, WatShape, Tokens, Ids, CallState, CallPC,
    FreshCall, EngState, EngPC, IdleEng, Nothing, WatState, WatPC, WatAt

LEMMA TypedComposed ==
  ASSUME Typed, NEW c \in Calls, call[c].pc = "locked", NEW new \in File,
         NEW mute \in SUBSET Paths, Composed(c, new, mute)
  PROVE  Typed'
<1> DEFINE s == [call[c] EXCEPT !.pc = "ready", !.seen = disk[call[c].path], !.new = new]
<1>1. CallShape(call[c]) /\ call[c].path \in Paths
  BY DEF Typed, CallShape
<1>2. CallShape(s)
  BY <1>1 DEF Typed, TypeOK, CallShape, CallState, CallPC
<1>3. call' = [call EXCEPT ![c] = s]
  BY DEF Composed
<1>4. call' \in [Calls -> CallState] /\ \A d \in Calls : CallShape(call'[d])
  <2>1. call'[c] = s
    BY <1>3 DEF Typed, TypeOK
  <2> QED BY <1>2, <1>3, <2>1, CallUpdate DEF Typed, TypeOK
<1> QED BY <1>4 DEF Composed, Typed, TypeOK

(* A handler changes its own state and, in some steps, one other variable. *)
LEMMA TypedCall ==
  ASSUME Typed, NEW c \in Calls,
         Acquire(c) \/ CallStep(c) \/ \E p \in Paths, op \in Ops : Begin(c, p, op)
  PROVE  Typed'
<1> DEFINE s == call'[c]
<1>a. c \in Ids /\ c \in Tokens /\ c # None /\ Ids \subseteq Tokens
  BY TokensAssumption DEF Ids, Tokens
<1>b. CallShape(call[c]) /\ call \in [Calls -> CallState] /\ call[c] \in CallState
  BY DEF Typed, TypeOK
<1>c. ASSUME   /\ call' = [call EXCEPT ![c] = s]
               /\ CallShape(s)
               /\ disk' \in [Paths -> File \cup {None}] /\ byHand' \in [Paths -> BOOLEAN]
               /\ row' \in [Paths -> File \cup {None}]
               /\ lock' \in [Paths -> Calls \cup {Compile, None}]
               /\ suppressed' \subseteq Paths /\ queue' \in Seq(Event)
               /\ UNCHANGED <<eng, wat, up>>
               /\ budget' \in Bounds
      PROVE Typed'
  <2>1. call' \in [Calls -> CallState] /\ \A d \in Calls : CallShape(call'[d])
    BY <1>b, <1>c, CallUpdate DEF Typed
  <2>2. TypeOK'
    BY <1>c, <2>1 DEF Typed, TypeOK, Bounds
  <2>3. EngShape(eng)' /\ WatShape(wat)'
    BY <1>c DEF Typed
  <2> QED BY <2>1, <2>2, <2>3 DEF Typed
<1>1. CASE \E p \in Paths, op \in Ops : Begin(c, p, op)
  <2>1. PICK p \in Paths, op \in Ops : Begin(c, p, op)
    BY <1>1
  <2>2. s = [call[c] EXCEPT !.pc = "waiting", !.op = op, !.path = p]
    BY <2>1, <1>b DEF Begin
  <2>3. CallShape(s)
    BY <2>2, <1>b, TokensAssumption DEF CallShape, CallState, CallPC, Ops
  <2> QED BY <1>c, <2>1, <2>2, <2>3, <1>b DEF Typed, TypeOK, Begin, Bounds
<1>2. CASE Acquire(c)
  BY <1>c, <1>2, <1>b, ZenonT(60) DEF Typed, TypeOK, Acquire, CallShape, CallState, CallPC, Bounds
<1>3. CASE ComposeWrite(c)
  <2> DEFINE p == call[c].path
  <2>1. p \in Paths /\ p \in {p}
    BY <1>3, <1>b DEF ComposeWrite, CallShape
  <2>2. PICK i \in Supplied \cup {NoteID(c, p)} :
             Composed(c, [id |-> i, body |-> {c}, ok |-> TRUE, stamp |-> c], {p})
    BY <1>3 DEF ComposeWrite
  <2>3. NoteID(c, p) \in Ids
    BY <2>1, <1>a, <1>b DEF Typed, TypeOK, NoteID, Readable, File
  <2> DEFINE new == [id |-> i, body |-> {c}, ok |-> TRUE, stamp |-> c]
  <2>4. new \in File
    BY <2>2, <2>3, <1>a, TokensAssumption DEF File
  <2> QED BY <1>3, <2>1, <2>2, <2>4, TypedComposed DEF ComposeWrite
<1>4. CASE ComposeEdit(c)
  <2> DEFINE p == call[c].path
             new == [id |-> disk[p].id, body |-> disk[p].body \cup {c}, ok |-> TRUE, stamp |-> c]
  <2>1. p \in Paths /\ disk[p] \in File
    BY <1>4, <1>b DEF ComposeEdit, CallShape, Typed, TypeOK
  <2>2. new \in File
    BY <2>1, <1>a DEF File
  <2> QED BY <1>4, <2>1, <2>2, TypedComposed DEF ComposeEdit
<1>5. CASE ComposeRestore(c)
  <2> DEFINE p == call[c].path
             new == [Fresh(p) EXCEPT !.stamp = c]
  <2>1. p \in Paths /\ Fresh(p) \in File
    BY <1>5, <1>b, FreshType DEF ComposeRestore, CallShape
  <2>2. new \in File
    BY <2>1, <1>a DEF File
  <2> QED BY <1>5, <2>1, <2>2, TypedComposed DEF ComposeRestore
<1>6. CASE Reject(c)
  BY <1>c, <1>6, <1>b DEF Typed, TypeOK, Reject, Leaving, CallShape, CallState, CallPC, Bounds
<1>7. CASE Put(c)
  <2>1. call[c].path \in Paths /\ call[c].new \in File
    BY <1>7, <1>b DEF Put, CallShape
  <2>2. queue' \in Seq(Event)
    BY <1>7, <2>1, EnqueueType DEF Typed, TypeOK, Put, WriteFile, Changed, Event
  <2>3. CallShape(s) /\ call' = [call EXCEPT ![c] = s]
    BY <1>7, <1>b DEF Put, Leaving, CallShape, CallState, CallPC
  <2> QED BY <1>c, <1>7, <2>1, <2>2, <2>3 DEF Typed, TypeOK, Put, WriteFile, Bounds
<1>8. CASE Stat(c)
  <2>1. call[c].path \in Paths /\ call[c].new \in File
    BY <1>8, <1>b DEF Stat, CallShape
  <2>2. disk[call[c].path] # None => Stamped(call[c].new, call[c].path) \in File
    BY <2>1, StampedType DEF Typed, TypeOK
  <2>3. CallShape(s) /\ call' = [call EXCEPT ![c] = s]
    <3>1. CASE disk[call[c].path] = None
      BY <1>8, <1>b, <3>1 DEF Stat, Leaving, CallShape, CallState, CallPC
    <3>2. CASE disk[call[c].path] # None
      <4> DEFINE t == [call[c] EXCEPT !.pc = "stated", !.new = Stamped(call[c].new, call[c].path)]
      <4>1. call' = [call EXCEPT ![c] = t]
        BY <1>8, <3>2 DEF Stat
      <4>2. CallShape(t)
        BY <1>b, <2>1, <2>2, <3>2, StatedShape
      <4> QED BY <1>b, <4>1, <4>2
    <3> QED BY <3>1, <3>2
  <2> QED BY <1>c, <1>8, <2>3 DEF Typed, TypeOK, Stat, Bounds
<1>9. CASE IndexCall(c)
  BY <1>c, <1>9, <1>b, UpsertType
  DEF Typed, TypeOK, IndexCall, Leaving, CallShape, CallState, CallPC, Bounds
<1>10. CASE FailCall(c)
  BY <1>c, <1>10, <1>b, FaultType
  DEF Typed, TypeOK, FailCall, Leaving, CallShape, CallState, CallPC, Bounds
<1>11. CASE Release(c)
  <2>1. CallShape(s) /\ call' = [call EXCEPT ![c] = s]
    BY <1>11, <1>b DEF Release, FreshCall, CallShape, CallState, CallPC
  <2> QED BY <1>c, <1>11, <2>1 DEF Typed, TypeOK, Release, Bounds
<1> QED BY <1>1, <1>2, <1>3, <1>4, <1>5, <1>6, <1>7, <1>8, <1>9, <1>10, <1>11 DEF CallStep


LEMMA RewrittenType ==
  ASSUME NEW f \in File
  PROVE  Rewritten(f) \in File
BY DEF Rewritten, File, Tokens

LEMMA TypedEng ==
  ASSUME Typed, StartRun \/ EngLock \/ EngStep
  PROVE  Typed'
<1>a. EngShape(eng) /\ eng \in EngState /\ budget \in Bounds
  BY DEF Typed, TypeOK, Bounds
<1>b. /\ Active \subseteq Paths
      /\ \A p \in Active : Archive[p] \in Paths /\ Archive[p] # p
  BY PathsAssumption
<1>c. ASSUME /\ EngShape(eng')
             /\ disk' \in [Paths -> File \cup {None}] /\ byHand' \in [Paths -> BOOLEAN]
             /\ row' \in [Paths -> File \cup {None}]
             /\ lock' \in [Paths -> Calls \cup {Compile, None}]
             /\ suppressed' \subseteq Paths /\ queue' \in Seq(Event)
             /\ UNCHANGED <<call, wat, up>>
             /\ budget' \in Bounds
      PROVE Typed'
  <2>1. TypeOK'
    BY <1>c DEF Typed, TypeOK, EngShape, Bounds
  <2>2. (\A c \in Calls : CallShape(call[c]))' /\ WatShape(wat)'
    BY <1>c DEF Typed
  <2> QED BY <1>c, <2>1, <2>2 DEF Typed
<1>1. CASE StartRun
  <2>1. eng' = [IdleEng EXCEPT !.pc = "next", !.walk = disk, !.todo = {p \in Active : disk[p] # None}]
    BY <1>1 DEF StartRun
  <2>2. EngShape(eng')
    BY <2>1, <1>b DEF Typed, TypeOK, EngShape, EngState, EngPC, IdleEng, Nothing
  <2>3. budget' \in Bounds
    BY <1>1, <1>a DEF StartRun, Bounds
  <2> QED BY <1>c, <1>1, <2>2, <2>3 DEF Typed, TypeOK, StartRun
<1>2. CASE \E p \in Active : PassOver(p) \/ DueRewrite(p) \/ DueMove(p)
  <2>1. EngShape(eng')
    <3>1. CASE \E p \in Active : PassOver(p)
      <4>1. eng' \in EngState /\ eng'.todo \subseteq eng.todo
            /\ eng'.pc = "next" /\ eng'.walk = eng.walk
        BY <3>1, <1>a, <1>b DEF PassOver, EngState
      <4> QED BY <4>1, <1>a DEF EngShape
    <3>2. CASE \E p \in Active : DueRewrite(p)
      <4>1. PICK p \in Active : DueRewrite(p)
        BY <3>2
      <4>2. PICK rest \in {eng.todo, eng.todo \ {p}} :
                 eng' = [eng EXCEPT !.pc = "lock", !.src = p, !.dst = p, !.todo = rest]
        BY <4>1 DEF DueRewrite
      <4>3. p \in Paths /\ p \in eng.todo
        BY <4>1, <1>b DEF DueRewrite
      <4>4. eng' \in EngState
        BY <4>2, <4>3, <1>a DEF EngState, EngPC
      <4> QED BY <4>2, <4>3, <4>4, <1>a DEF EngShape, EngState
    <3>3. CASE \E p \in Active : DueMove(p)
      <4>1. PICK p \in Active : DueMove(p)
        BY <3>3
      <4>2. p \in Paths /\ Archive[p] \in Paths /\ p \in eng.todo
        BY <4>1, <1>b DEF DueMove
      <4>3. eng' = [eng EXCEPT !.pc = "lock", !.src = p, !.dst = Archive[p],
                               !.todo = eng.todo \ {p}]
        BY <4>1 DEF DueMove
      <4>4. eng' \in EngState
        BY <4>2, <4>3, <1>a DEF EngState, EngPC
      <4> QED BY <4>2, <4>3, <4>4, <1>a DEF EngShape, EngState
    <3> QED BY <1>2, <3>1, <3>2, <3>3
  <2> QED BY <1>c, <1>2, <2>1 DEF Typed, TypeOK, PassOver, DueRewrite, DueMove, Bounds
<1>3. CASE EngLock
  <2>1. EngShape(eng')
    BY <1>3, <1>a DEF EngLock, LockFirst, LockSecond, EngShape, EngState, EngPC
  <2> QED BY <1>c, <1>3, <2>1 DEF Typed, TypeOK, EngLock, LockFirst, LockSecond, Bounds
<1>4. CASE Check
  <2>1. eng.pc = "check" /\ eng.src \in Paths /\ eng.dst \in Paths /\ eng.walk[eng.src] \in File
    BY <1>4, <1>a, <1>b DEF Check, EngShape, EngState
  <2>2. Rewritten(eng.walk[eng.src]) \in File
    BY <2>1, RewrittenType
  <2>3. EngShape(eng')
    <3>1. \/ eng' = [eng EXCEPT !.pc = "abort"]
          \/ eng' = [eng EXCEPT !.pc = "write", !.new = Rewritten(eng.walk[eng.src])]
          \/ eng' = [eng EXCEPT !.pc = "release", !.todo = eng.todo \ {eng.src}]
      BY <1>4 DEF Check
    <3> QED BY <1>a, <2>1, <2>2, <3>1, ZenonT(60) DEF EngShape, EngState, EngPC
  <2> QED BY <1>c, <1>4, <2>1, <2>3 DEF Typed, TypeOK, Check, Bounds
<1>5. CASE Rewrite
  <2>1. eng.src \in Paths /\ eng.dst \in Paths /\ eng.new \in File /\ eng.new # None
    BY <1>5, <1>a, <1>b, TokensAssumption DEF Rewrite, EngShape
  <2>2. queue' \in Seq(Event)
    BY <1>5, <2>1, EnqueueType DEF Typed, TypeOK, Rewrite, WriteFile, Changed, Event
  <2>3. EngShape(eng')
    BY <1>5, <1>a, <2>1 DEF Rewrite, EngShape, EngState, EngPC
  <2> QED BY <1>c, <1>5, <2>1, <2>2, <2>3 DEF Typed, TypeOK, Rewrite, WriteFile, Bounds
<1>6. CASE StatRewritten
  <2>1. eng.dst \in Paths /\ eng.new \in File
    BY <1>6, <1>a, <1>b DEF StatRewritten, EngShape
  <2>2. disk[eng.dst] # None => Stamped(eng.new, eng.dst) \in File
    BY <2>1, StampedType DEF Typed
  <2>3. EngShape(eng')
    BY <1>6, <1>a, <2>2 DEF StatRewritten, EngShape, EngState, EngPC
  <2> QED BY <1>c, <1>6, <2>3 DEF Typed, TypeOK, StatRewritten, Bounds
<1>7. CASE IndexRewritten
  <2>1. EngShape(eng')
    BY <1>7, <1>a DEF IndexRewritten, EngShape, EngState, EngPC
  <2>2. row' \in [Paths -> File \cup {None}]
    BY <1>7, <1>a, UpsertType DEF IndexRewritten, EngShape, Typed, TypeOK
  <2> QED BY <1>c, <1>7, <2>1, <2>2 DEF Typed, TypeOK, IndexRewritten, Bounds
<1>8. CASE RemoveSource
  <2>1. eng.src \in Paths
    BY <1>8, <1>a, <1>b DEF RemoveSource, EngShape
  <2>2. queue' \in Seq(Event)
    BY <1>8, <2>1, EnqueueType DEF Typed, TypeOK, RemoveSource, Gone, Event
  <2>3. EngShape(eng')
    BY <1>8, <1>a DEF RemoveSource, EngShape, EngState, EngPC
  <2> QED BY <1>c, <1>8, <2>1, <2>2, <2>3 DEF Typed, TypeOK, RemoveSource, Bounds
<1>9. CASE FailRun
  <2>1. EngShape(eng')
    BY <1>9, <1>a DEF FailRun, EngShape, EngState, EngPC
  <2> QED BY <1>c, <1>9, <1>a, <2>1, FaultType DEF Typed, TypeOK, FailRun
<1>10. CASE ReleaseNote
  <2>1. EngShape(eng')
    BY <1>10, <1>a
    DEF ReleaseNote, BetweenNotes, IdleEng, Nothing, EngShape, EngState, EngPC
  <2> QED BY <1>c, <1>10, <2>1 DEF Typed, TypeOK, ReleaseNote, Bounds
<1>11. CASE FinishRun
  <2>1. EngShape(eng')
    BY <1>11 DEF FinishRun, IdleEng, Nothing, EngShape, EngState, EngPC
  <2> QED BY <1>c, <1>11, <2>1 DEF Typed, TypeOK, FinishRun, Bounds
<1> QED BY <1>1, <1>2, <1>3, <1>4, <1>5, <1>6, <1>7, <1>8, <1>9, <1>10, <1>11 DEF EngStep


LEMMA WatAtShape ==
  ASSUME NEW pc \in {"boot", "loop", "walk", "drift"}, NEW force \in BOOLEAN
  PROVE  WatShape(WatAt(pc, force))
BY DEF WatShape, WatAt, WatState, WatPC, Nothing

LEMMA TypedWat ==
  ASSUME Typed, WatStep
  PROVE  Typed'
<1>a. WatShape(wat) /\ wat \in WatState /\ budget \in Bounds
      /\ row \in [Paths -> File \cup {None}] /\ disk \in [Paths -> File \cup {None}]
  BY DEF Typed, TypeOK, Bounds
<1>b. ASSUME /\ WatShape(wat')
             /\ row' \in [Paths -> File \cup {None}]
             /\ queue' \in Seq(Event)
             /\ up' \in BOOLEAN
             /\ budget' \in Bounds
      PROVE Typed'
  <2>1. UNCHANGED <<disk, byHand, lock, suppressed, call, eng>>
    BY WatcherFrame
  <2>2. TypeOK'
    BY <1>b, <2>1 DEF Typed, TypeOK, WatShape, Bounds
  <2>3. (\A c \in Calls : CallShape(call[c]))' /\ EngShape(eng)'
    BY <2>1 DEF Typed
  <2> QED BY <1>b, <2>2, <2>3 DEF Typed
<1>1. CASE TakeEvent
  <2>1. Head(queue) \in Event /\ queue' \in Seq(Event)
    BY <1>1 DEF TakeEvent, Typed, TypeOK
  <2>2. WatShape(wat')
    BY <1>1, <1>a, <2>1 DEF TakeEvent, WatShape, WatState, WatPC, Event
  <2> QED BY <1>b, <1>1, <2>1, <2>2 DEF TakeEvent, Typed, TypeOK, Bounds
<1>2. CASE Settle
  <2>1. WatShape(wat')
    BY <1>2, <1>a, WatAtShape, ZenonT(60) DEF Settle, WatShape, WatState, WatPC
  <2> QED BY <1>b, <1>2, <2>1 DEF Settle, Typed, TypeOK, Bounds
<1>3. CASE ReadFile
  <2>1. WatShape(wat')
    <3>1. CASE wat' = WatAt("loop", TRUE)
      BY <3>1, WatAtShape
    <3>2. CASE wat' # WatAt("loop", TRUE)
      <4>1. wat.path \in Paths /\ disk[wat.path] \in File
            /\ wat' = [wat EXCEPT !.pc = "index", !.file = disk[wat.path]]
        BY <1>3, <1>a, <3>2 DEF ReadFile, Readable, WatShape
      <4> QED BY <1>a, <4>1 DEF WatShape, WatState, WatPC
    <3> QED BY <3>1, <3>2
  <2> QED BY <1>b, <1>3, <2>1 DEF ReadFile, Typed, TypeOK, Bounds
<1>4. CASE IndexEvent
  <2>1. row' \in [Paths -> File \cup {None}]
    BY <1>4, <1>a, UpsertType DEF IndexEvent, WatShape
  <2>2. WatShape(wat')
    BY <1>4, WatAtShape DEF IndexEvent
  <2> QED BY <1>b, <1>4, <2>1, <2>2 DEF IndexEvent, Typed, TypeOK, Bounds
<1>5. CASE DeleteEvent
  <2>1. WatShape(wat')
    BY <1>5, WatAtShape DEF DeleteEvent
  <2> QED BY <1>b, <1>5, <2>1 DEF DeleteEvent, DropRow, Typed, TypeOK, Bounds
<1>6. CASE FailEvent
  <2>1. WatShape(wat')
    BY <1>6, WatAtShape DEF FailEvent
  <2> QED BY <1>b, <1>a, <1>6, <2>1, FaultType DEF FailEvent, Typed, TypeOK
<1>7. CASE ReadStates
  <2>1. wat' = [WatAt("walk", wat.pc = "loop") EXCEPT !.states = row]
    BY <1>7 DEF ReadStates
  <2>2. WatShape(wat')
    BY <1>a, <2>1 DEF WatAt, WatShape, WatState, WatPC, Nothing
  <2> QED BY <1>b, <1>7, <2>2 DEF ReadStates, Typed, TypeOK, Bounds
<1>8. CASE WalkVault
  <2> DEFINE drift == [p \in Paths |-> IF Drifted(p) THEN disk[p] ELSE None]
             gone == {p \in Paths : wat.states[p] # None /\ disk[p] = None}
  <2>1. wat' = [WatAt("drift", wat.force) EXCEPT !.drift = drift, !.gone = gone]
    BY <1>8 DEF WalkVault
  <2>2. drift \in [Paths -> File \cup {None}] /\ gone \subseteq Paths
    BY <1>a
  <2>3. WatShape(wat')
    <3> HIDE DEF drift, gone
    <3> QED BY <1>a, <2>1, <2>2 DEF WatAt, WatShape, WatState, WatPC, Nothing
  <2> QED BY <1>b, <1>8, <2>3 DEF WalkVault, Typed, TypeOK, Bounds
<1>9. CASE EndReconcile
  <2>1. WatShape(wat')
    BY <1>9, WatAtShape DEF EndReconcile
  <2> QED BY <1>b, <1>9, <2>1 DEF EndReconcile, Typed, TypeOK, Bounds
<1>10. CASE \E p \in Paths : IndexDrift(p)
  <2>1. PICK p \in Paths : IndexDrift(p)
    BY <1>10
  <2>2. wat.drift[p] \in File \cup {None}
    BY <1>a DEF WatState
  <2>3. row' \in [Paths -> File \cup {None}]
    BY <1>a, <2>1, <2>2, UpsertType DEF IndexDrift
  <2>4. WatShape(wat')
    BY <1>a, <2>1 DEF IndexDrift, WatShape, WatState, WatPC
  <2> QED BY <1>b, <2>1, <2>3, <2>4 DEF IndexDrift, Typed, TypeOK, Bounds
<1>11. CASE \E p \in Paths : FailDrift(p)
  <2>1. PICK p \in Paths : FailDrift(p)
    BY <1>11
  <2>2. WatShape(wat')
    BY <1>a, <2>1 DEF FailDrift, WatShape, WatState, WatPC
  <2> QED BY <1>a, <1>b, <2>1, <2>2, FaultType DEF FailDrift, Typed, TypeOK
<1>12. CASE \E p \in Paths : DeleteGone(p)
  <2>1. PICK p \in Paths : DeleteGone(p)
    BY <1>12
  <2>2. WatShape(wat')
    BY <1>a, <2>1 DEF DeleteGone, WatShape, WatState, WatPC
  <2> QED BY <1>b, <2>1, <2>2 DEF DeleteGone, DropRow, Typed, TypeOK, Bounds
<1>13. CASE FailWalk
  <2>1. WatShape(wat')
    BY <1>13, WatAtShape DEF FailWalk
  <2> QED BY <1>a, <1>b, <1>13, <2>1, FaultType DEF FailWalk, Typed, TypeOK
<1>14. CASE \E p \in Paths : FailGone(p)
  <2>1. PICK p \in Paths : FailGone(p)
    BY <1>14
  <2>2. WatShape(wat')
    BY <1>a, <2>1 DEF FailGone, WatShape, WatState, WatPC
  <2> QED BY <1>a, <1>b, <2>1, <2>2, FaultType DEF FailGone, Typed, TypeOK
<1> QED BY <1>1, <1>2, <1>3, <1>4, <1>5, <1>6, <1>7, <1>8, <1>9, <1>10, <1>11, <1>12, <1>13, <1>14
        DEF WatStep

LEMMA TypedHand ==
  ASSUME Typed, Hand
  PROVE  Typed'
<1>a. budget \in Bounds /\ Human \in Ids /\ Ids \subseteq Tokens
  BY DEF Typed, TypeOK, Bounds, Ids, Tokens
<1>b. ASSUME /\ disk' \in [Paths -> File \cup {None}]
             /\ byHand' \in [Paths -> BOOLEAN]
             /\ queue' \in Seq(Event)
             /\ budget' \in Bounds
      PROVE Typed'
  <2>1. UNCHANGED <<row, lock, suppressed, call, eng, wat, up>>
    BY HandFrame
  <2>2. TypeOK'
    BY <1>b, <2>1 DEF Typed, TypeOK, Bounds
  <2>3. (\A c \in Calls : CallShape(call[c]))' /\ EngShape(eng)' /\ WatShape(wat)'
    BY <2>1 DEF Typed
  <2> QED BY <2>2, <2>3 DEF Typed
<1>1. CASE \E p \in Paths : HumanSave(p)
  <2>1. PICK p \in Paths : HumanSave(p)
    BY <1>1
  <2>2. Changed(p) \in Event /\ Gone(p) \in Event
    BY DEF Changed, Gone, Event
  <2>3. PICK good \in BOOLEAN, rename \in BOOLEAN,
             stamp \in {Human} \cup (IF disk[p] = None THEN {} ELSE {disk[p].stamp}) :
               /\ disk' = [disk EXCEPT ![p] = [id |-> IF disk[p] = None THEN Human ELSE disk[p].id,
                                               body |-> {Human}, ok |-> good, stamp |-> stamp]]
               /\ queue' = IF rename /\ disk[p] # None
                           THEN Enqueue(Enqueue(queue, Gone(p)), Changed(p))
                           ELSE Enqueue(queue, Changed(p))
    BY <2>1 DEF HumanSave
  <2>4. queue' \in Seq(Event)
    BY <2>2, <2>3, EnqueueType DEF Typed, TypeOK
  <2>5. disk' \in [Paths -> File \cup {None}]
    BY <1>a, <2>3 DEF Typed, TypeOK, File
  <2> QED BY <1>a, <1>b, <2>1, <2>4, <2>5, EditType DEF HumanSave, Typed, TypeOK
<1>2. CASE \E p \in Paths : HumanDelete(p)
  <2>1. PICK p \in Paths : HumanDelete(p)
    BY <1>2
  <2>2. queue' \in Seq(Event)
    BY <2>1, EnqueueType DEF HumanDelete, Gone, Event, Typed, TypeOK
  <2> QED BY <1>a, <1>b, <2>1, <2>2, EditType DEF HumanDelete, Typed, TypeOK
<1>3. CASE \E p, q \in Paths : HumanRename(p, q)
  <2>1. PICK p \in Paths, q \in Paths : HumanRename(p, q)
    BY <1>3
  <2>2. Changed(q) \in Event /\ Gone(p) \in Event
    BY DEF Changed, Gone, Event
  <2>3. queue' \in Seq(Event)
    BY <2>1, <2>2, EnqueueType DEF HumanRename, Typed, TypeOK
  <2> QED BY <1>a, <1>b, <2>1, <2>3, EditType DEF HumanRename, Typed, TypeOK
<1> QED BY <1>1, <1>2, <1>3 DEF Hand

LEMMA TypedCrash ==
  ASSUME Typed, Crash
  PROVE  Typed'
<1>1. budget' \in Bounds
  BY FaultType DEF Crash, Typed, TypeOK, Bounds
<1>2. EngShape(eng')
  BY DEF Crash, EngShape, IdleEng, Nothing, EngState, EngPC
<1>3. WatShape(wat')
  BY WatAtShape DEF Crash
<1>4. call' \in [Calls -> CallState] /\ \A c \in Calls : CallShape(call'[c])
  BY DEF Crash, Typed, TypeOK, CallShape, CallState, CallPC, FreshCall
<1>5. lock' \in [Paths -> Calls \cup {Compile, None}]
  BY DEF Crash
<1>6. suppressed' \subseteq Paths /\ up' \in BOOLEAN
  BY DEF Crash
<1>7. queue' \in Seq(Event)
  BY DEF Crash
<1>8. eng' \in EngState /\ wat' \in WatState
  BY <1>2, <1>3 DEF EngShape, WatShape
<1>9. TypeOK'
  BY <1>1, <1>4, <1>5, <1>6, <1>7, <1>8 DEF Crash, Typed, TypeOK, Bounds
<1> QED BY <1>2, <1>3, <1>4, <1>9 DEF Typed

LEMMA TypedStep ==
  ASSUME Typed, [Next]_vars
  PROVE  Typed'
<1>1. CASE UNCHANGED vars
  BY <1>1 DEF vars, Typed, TypeOK
<1>2. CASE Next
  BY <1>2, TypedCall, TypedEng, TypedWat, TypedHand, TypedCrash DEF Next
<1> QED BY <1>1, <1>2

(* Every variable keeps its type, and every process has at each point of   *)
(* its program the data the next step needs: a path it is working on, the  *)
(* content it is about to write, the file it parsed.                       *)
THEOREM TypedAlways == Spec => []Typed
<1>1. Typed /\ [Next]_vars => Typed'
  BY TypedStep
<1> QED BY <1>1, TypedInit, PTL DEF Spec

(* The vault, its index and every party that writes them have their types  *)
(* always (write/pipeline.go, lifecycle/io.go, watch/watch.go).            *)
THEOREM TypeCorrect == Spec => []TypeOK
<1>1. Typed => TypeOK
  BY DEF Typed
<1> QED BY <1>1, TypedAlways, PTL


-----------------------------------------------------------------------------
(* Mutual exclusion on a path.                                             *)

Outside == {"idle", "waiting", "done"}

LEMMA Names ==
  /\ None \notin Calls /\ Compile \notin Calls /\ None # Compile
  /\ Active \subseteq Paths
  /\ \A p \in Active : Archive[p] \in Paths /\ Archive[p] \notin Active
BY PathsAssumption, TokensAssumption DEF Tokens, Ids

(* A handler inside its path keeps path, tool and lock until it lets go.   *)
LEMMA CallFrame ==
  ASSUME Typed, NEW c \in Calls, CallStep(c), ~Release(c)
  PROVE  /\ UNCHANGED <<lock, eng, wat, up>>
         /\ call' = [call EXCEPT ![c] = call'[c]]
         /\ call'[c].path = call[c].path
         /\ call'[c].op = call[c].op
         /\ call[c].pc \notin Outside
         /\ call'[c].pc \notin Outside
<1>1. call[c] \in CallState /\ call \in [Calls -> CallState]
  BY DEF Typed, TypeOK
<1>2. CASE ComposeWrite(c)
  BY <1>1, <1>2 DEF ComposeWrite, Composed, CallState, Outside
<1>3. CASE ComposeEdit(c)
  BY <1>1, <1>3 DEF ComposeEdit, Composed, CallState, Outside
<1>4. CASE ComposeRestore(c)
  BY <1>1, <1>4 DEF ComposeRestore, Composed, CallState, Outside
<1>5. CASE Reject(c) \/ IndexCall(c) \/ FailCall(c)
  <2>1. CASE Reject(c)
    BY <1>1, <2>1 DEF Reject, Leaving, CallState, Outside
  <2>2. CASE IndexCall(c)
    BY <1>1, <2>2 DEF IndexCall, Leaving, CallState, Outside
  <2>3. CASE FailCall(c)
    BY <1>1, <2>3 DEF FailCall, Leaving, CallState, Outside
  <2> QED BY <1>5, <2>1, <2>2, <2>3
<1>6. CASE Put(c)
  BY <1>1, <1>6 DEF Put, Leaving, CallState, Outside
<1>7. CASE Stat(c)
  <2>1. CASE disk[call[c].path] = None
    BY <1>1, <1>7, <2>1 DEF Stat, Leaving, CallState, Outside
  <2>2. CASE disk[call[c].path] # None
    <3>1. call' = [call EXCEPT ![c] = [call[c] EXCEPT !.pc = "stated",
                                           !.new = Stamped(call[c].new, call[c].path)]]
      BY <1>7, <2>2 DEF Stat
    <3> DEFINE f == Stamped(call[c].new, call[c].path)
    <3>2. UNCHANGED <<lock, eng, wat, up>> /\ call[c].pc = "written"
      BY <1>7 DEF Stat
    <3> HIDE DEF f
    <3> QED BY <1>1, <3>1, <3>2 DEF CallState, Outside
  <2> QED BY <2>1, <2>2
<1> QED BY <1>2, <1>3, <1>4, <1>5, <1>6, <1>7 DEF CallStep

(* The two locks of a move are taken one after the other.                  *)
Locks ==
  /\ ExclusiveWriters
  /\ eng.pc = "lock2" => lock[Smaller(eng.src, eng.dst)] = Compile

LEMMA LocksCall ==
  ASSUME Typed, Locks, NEW c \in Calls,
         Acquire(c) \/ CallStep(c) \/ \E p \in Paths, op \in Ops : Begin(c, p, op)
  PROVE  Locks'
<1>a. call \in [Calls -> CallState] /\ lock \in [Paths -> Calls \cup {Compile, None}]
  BY DEF Typed, TypeOK
<1>b. Smaller(eng.src, eng.dst) \in {eng.src, eng.dst}
  BY DEF Smaller
<1>c. call[c].pc \notin {"idle", "done"} => call[c].path \in Paths
  BY DEF Typed, CallShape
<1>d. eng.pc \notin {"idle", "next"} => eng.src \in Paths /\ eng.dst \in Paths
  BY Names DEF Typed, EngShape
<1>1. CASE \E p \in Paths, op \in Ops : Begin(c, p, op)
  BY <1>1, <1>a DEF Begin, Locks, ExclusiveWriters, CallState
<1>2. CASE Acquire(c)
  BY <1>2, <1>a, <1>b, <1>c, <1>d, Names DEF Acquire, Locks, ExclusiveWriters, CallState
<1>3. CASE CallStep(c) /\ ~Release(c)
  BY <1>3, <1>a, CallFrame DEF Locks, ExclusiveWriters, Outside
<1>4. CASE Release(c)
  BY <1>4, <1>a, <1>b, <1>c, <1>d, Names
  DEF Release, FreshCall, Locks, ExclusiveWriters, CallState
<1> QED BY <1>1, <1>2, <1>3, <1>4

LEMMA LocksEng ==
  ASSUME Typed, Locks, StartRun \/ EngLock \/ EngStep
  PROVE  Locks'
<1>a. eng \in EngState /\ lock \in [Paths -> Calls \cup {Compile, None}]
  BY DEF Typed, TypeOK
<1>b. Smaller(eng.src, eng.dst) \in {eng.src, eng.dst}
      /\ {Smaller(eng.src, eng.dst), Larger(eng.src, eng.dst)} = {eng.src, eng.dst}
  BY DEF Smaller, Larger
<1>c. eng.pc \notin {"idle", "next"} => eng.src \in Paths /\ eng.dst \in Paths
  BY Names DEF Typed, EngShape
<1>d. \A d \in Calls : call[d].pc \notin Outside => lock[call[d].path] = d /\ d # None /\ d # Compile
  BY Names DEF Locks, ExclusiveWriters, Outside
<1>1. CASE StartRun
  BY <1>1, <1>a DEF StartRun, IdleEng, Locks, ExclusiveWriters
<1>2. CASE \E p \in Active : PassOver(p) \/ DueMove(p)
  BY <1>2, <1>a DEF PassOver, DueMove, Locks, ExclusiveWriters, EngState
<1>3. CASE \E p \in Active : DueRewrite(p)
  BY <1>3, <1>a DEF DueRewrite, Locks, ExclusiveWriters, EngState
<1>4. CASE LockFirst
  BY <1>4, <1>a, <1>b, <1>c, <1>d DEF LockFirst, Locks, ExclusiveWriters, EngState, Outside
<1>5. CASE LockSecond
  BY <1>5, <1>a, <1>b, <1>c, <1>d DEF LockSecond, Locks, ExclusiveWriters, EngState, Outside
<1>6. CASE Check
  BY <1>6, <1>a DEF Check, Locks, ExclusiveWriters, EngState
<1>7. CASE Rewrite
  BY <1>7, <1>a DEF Rewrite, Locks, ExclusiveWriters, EngState
<1>8. CASE StatRewritten
  BY <1>8, <1>a DEF StatRewritten, Locks, ExclusiveWriters, EngState
<1>9. CASE IndexRewritten \/ RemoveSource \/ FailRun
  BY <1>9, <1>a DEF IndexRewritten, RemoveSource, FailRun, Locks, ExclusiveWriters, EngState
<1>10. CASE ReleaseNote
  <2>1. lock[eng.src] = Compile /\ lock[eng.dst] = Compile
    BY <1>10 DEF ReleaseNote, Locks, ExclusiveWriters
  <2>2. eng'.pc \in {"idle", "next"}
    BY <1>10, <1>a DEF ReleaseNote, BetweenNotes, IdleEng, EngState
  <2>3. ASSUME NEW d \in Calls, call[d].pc \notin Outside
        PROVE  lock'[call[d].path] = d
    <3>1. call[d].path \in Paths \ {eng.src, eng.dst}
      BY <1>d, <2>1, <2>3 DEF Typed, CallShape, Outside
    <3>2. lock'[call[d].path] = lock[call[d].path]
      BY <1>10, <1>a, <3>1 DEF ReleaseNote
    <3> QED BY <1>d, <2>3, <3>2
  <2> QED BY <1>10, <2>2, <2>3 DEF ReleaseNote, Locks, ExclusiveWriters, Outside
<1>11. CASE FinishRun
  BY <1>11, <1>a DEF FinishRun, IdleEng, Locks, ExclusiveWriters
<1> QED BY <1>1, <1>2, <1>3, <1>4, <1>5, <1>6, <1>7, <1>8, <1>9, <1>10, <1>11 DEF EngStep, EngLock

LEMMA LocksStep ==
  ASSUME Typed, Locks, [Next]_vars
  PROVE  Locks'
<1>1. CASE UNCHANGED <<lock, call, eng>>
  BY <1>1 DEF Locks, ExclusiveWriters
<1>2. CASE Crash
  BY <1>2 DEF Crash, Locks, ExclusiveWriters, FreshCall, IdleEng
<1> QED BY <1>1, <1>2, LocksCall, LocksEng, WatcherFrame, HandFrame DEF Next, vars

LEMMA LocksAlways == Spec => []Locks
<1>1. Init => Locks
  BY DEF Init, Locks, ExclusiveWriters, FreshCall, IdleEng
<1>2. Typed /\ Locks /\ [Next]_vars => Locks'
  BY LocksStep
<1> QED BY <1>1, <1>2, TypedAlways, PTL DEF Spec

(* No two writers are ever inside one path: whoever has taken its locks    *)
(* and has not let go holds them (write.PathLocks).                        *)
THEOREM Exclusion == Spec => []ExclusiveWriters
<1>1. Locks => ExclusiveWriters
  BY DEF Locks
<1> QED BY <1>1, LocksAlways, PTL


-----------------------------------------------------------------------------
(* The index.                                                              *)

OneRowPerId(rows) ==
  \A p, q \in Paths : rows[p] # None /\ rows[q] # None /\ rows[p].id = rows[q].id => p = q

(* Upserting a file at p leaves p the only row with the file's id.         *)
LEMMA UpsertUnique ==
  ASSUME NEW rows \in [Paths -> File \cup {None}], OneRowPerId(rows),
         NEW p \in Paths, NEW f \in File
  PROVE  OneRowPerId(Upsert(rows, p, f))
<1> DEFINE new == Upsert(rows, p, f)
           moved == MovePath(EvictOther(rows, p, f), p, f)
<1>1. \A q \in Paths \ {p} : new[q] \in {rows[q], None} /\ (new[q] # None => new[q].id # f.id)
  <2>1. \A q \in Paths \ {p} : EvictOther(rows, p, f)[q] = rows[q]
    BY DEF EvictOther
  <2>2. \A q \in Paths : moved[q] = IF EvictOther(rows, p, f)[q] # None
                                     /\ EvictOther(rows, p, f)[q].id = f.id
                                  THEN None ELSE EvictOther(rows, p, f)[q]
    BY DEF MovePath
  <2>3. \A q \in Paths \ {p} : new[q] = moved[q]
    BY DEF Upsert, MovePath
  <2> QED BY <2>1, <2>2, <2>3
<1>2. new[p] = f
  BY DEF Upsert, MovePath
<1> QED
  <2> HIDE DEF new
  <2> SUFFICES OneRowPerId(new)
    BY DEF new
  <2> QED BY <1>1, <1>2 DEF OneRowPerId

LEMMA DropUnique ==
  ASSUME NEW rows \in [Paths -> File \cup {None}], OneRowPerId(rows), NEW p \in Paths
  PROVE  OneRowPerId(DropRow(rows, p))
BY DEF OneRowPerId, DropRow

LEMMA UniqueStep ==
  ASSUME Typed, OneRowPerId(row), [Next]_vars
  PROVE  OneRowPerId(row')
<1>a. row \in [Paths -> File \cup {None}]
  BY DEF Typed, TypeOK
<1>1. CASE UNCHANGED row
  BY <1>1
<1>2. CASE \E c \in Calls : CallStep(c)
  <2>1. PICK c \in Calls : CallStep(c)
    BY <1>2
  <2>2. CASE IndexCall(c)
    BY <1>a, <2>2, UpsertUnique DEF IndexCall, Typed, CallShape
  <2>3. CASE ~IndexCall(c)
    BY <1>1, <2>1, <2>3 DEF CallStep, ComposeWrite, ComposeEdit, ComposeRestore, Composed, Reject,
       Put, Stat, FailCall, Release
  <2> QED BY <2>2, <2>3
<1>3. CASE StartRun \/ EngLock \/ EngStep
  <2>1. CASE IndexRewritten
    BY <1>a, <2>1, UpsertUnique, Names DEF IndexRewritten, Typed, EngShape
  <2>2. CASE ~IndexRewritten
    BY <1>1, <1>3, <2>2 DEF StartRun, EngLock, LockFirst, LockSecond, EngStep, PassOver, DueRewrite,
       DueMove, Check, Rewrite, StatRewritten, RemoveSource, FailRun, ReleaseNote, FinishRun
  <2> QED BY <2>1, <2>2
<1>4. CASE WatStep
  <2>1. CASE IndexEvent
    BY <1>a, <2>1, UpsertUnique DEF IndexEvent, Typed, WatShape
  <2>2. CASE DeleteEvent
    BY <1>a, <2>2, DropUnique DEF DeleteEvent, Typed, WatShape
  <2>3. CASE \E p \in Paths : IndexDrift(p)
    <3>1. PICK p \in Paths : IndexDrift(p)
      BY <2>3
    <3>2. wat.drift[p] \in File
      BY <3>1 DEF IndexDrift, Drifts, Typed, TypeOK, WatState
    <3> QED BY <1>a, <3>1, <3>2, UpsertUnique DEF IndexDrift
  <2>4. CASE \E p \in Paths : DeleteGone(p)
    BY <1>a, <2>4, DropUnique DEF DeleteGone
  <2>5. CASE TakeEvent \/ Settle \/ ReadFile \/ FailEvent \/ ReadStates \/ WalkVault \/ FailWalk
             \/ EndReconcile \/ \E p \in Paths : FailDrift(p) \/ FailGone(p)
    BY <1>1, <2>5 DEF TakeEvent, Settle, ReadFile, FailEvent, ReadStates, WalkVault, FailWalk,
       EndReconcile, FailDrift, FailGone
  <2> QED BY <1>4, <2>1, <2>2, <2>3, <2>4, <2>5 DEF WatStep
<1>5. CASE Crash
  BY <1>1, <1>5 DEF Crash
<1>6. CASE \E c \in Calls : Acquire(c) \/ \E p \in Paths, op \in Ops : Begin(c, p, op)
  BY <1>1, <1>6 DEF Acquire, Begin
<1> QED BY <1>1, <1>2, <1>3, <1>4, <1>5, <1>6, HandFrame DEF Next, vars

(* The notes table never holds an id twice, in whatever order handlers,    *)
(* the run, events and a stale sweep index and drop rows (upsertNoteTx).   *)
THEOREM RowsStayUnique == Spec => []UniqueRows
<1>1. Init => OneRowPerId(row)
  <2> SUFFICES ASSUME Init PROVE OneRowPerId(row)
    OBVIOUS
  <2> QED BY PathsAssumption DEF Init, Fresh, OneRowPerId
<1>2. Typed /\ OneRowPerId(row) /\ [Next]_vars => OneRowPerId(row)'
  <2> SUFFICES ASSUME Typed, OneRowPerId(row), [Next]_vars PROVE OneRowPerId(row')
    BY DEF OneRowPerId
  <2> QED BY UniqueStep
<1>3. OneRowPerId(row) => UniqueRows
  BY DEF OneRowPerId, UniqueRows
<1> QED BY <1>1, <1>2, <1>3, TypedAlways, PTL DEF Spec


-----------------------------------------------------------------------------
(* Suppression.                                                            *)

(* Whoever muted a path is still inside it.                                *)
MutedBy(p) ==
  \/ /\ lock[p] \in Calls
     /\ call[lock[p]].path = p
     /\ call[lock[p]].op # "restore"
     /\ call[lock[p]].pc \notin Outside
  \/ /\ lock[p] = Compile
     /\ p \in {eng.src, eng.dst}
     /\ eng.pc \notin {"idle", "next", "lock", "lock2"}

Mutes ==
  /\ MutedExactlyWhileWriting
  /\ \A p \in suppressed : MutedBy(p)

(* The handlers' part: what a call at a writing step has muted.            *)
LEMMA MutesCall ==
  ASSUME Typed, Locks, Mutes, NEW c \in Calls,
         Acquire(c) \/ CallStep(c) \/ \E p \in Paths, op \in Ops : Begin(c, p, op)
  PROVE  Mutes'
<1>a. call \in [Calls -> CallState] /\ lock \in [Paths -> Calls \cup {Compile, None}]
      /\ suppressed \subseteq Paths
  BY DEF Typed, TypeOK
<1>b. \A d \in Calls : call[d].pc \notin Outside => lock[call[d].path] = d /\ call[d].path \in Paths
  BY DEF Locks, ExclusiveWriters, Outside, Typed, CallShape
<1>c. UNCHANGED eng
  <2>1. CASE CallStep(c) /\ ~Release(c)
    BY <2>1, CallFrame
  <2>2. CASE Acquire(c) \/ Release(c) \/ \E p \in Paths, op \in Ops : Begin(c, p, op)
    BY <2>2 DEF Acquire, Release, Begin
  <2> QED BY <2>1, <2>2
<1>1. CASE \E p \in Paths, op \in Ops : Begin(c, p, op)
  <2>1. PICK p \in Paths, op \in Ops : Begin(c, p, op)
    BY <1>1
  <2>2. /\ call' = [call EXCEPT ![c] = call'[c]] /\ call'[c].pc = "waiting"
        /\ call[c].pc = "idle" /\ UNCHANGED <<lock, suppressed, eng>>
    <3>1. call' = [call EXCEPT ![c] = [call[c] EXCEPT !.pc = "waiting", !.op = op, !.path = p]]
      BY <2>1 DEF Begin
    <3>2. call[c].pc = "idle" /\ UNCHANGED <<lock, suppressed, eng>>
      BY <2>1 DEF Begin
    <3> QED BY <1>a, <3>1, <3>2 DEF CallState
  <2>3. MutedExactlyWhileWriting'
    BY <2>2, <1>a DEF Mutes, MutedExactlyWhileWriting
  <2>4. ASSUME NEW q \in suppressed' PROVE MutedBy(q)'
    <3>1. MutedBy(q)
      BY <2>2 DEF Mutes
    <3>2. lock[q] # c
      BY <2>2, <3>1, Names DEF MutedBy, Outside
    <3> QED BY <2>2, <1>a, <3>1, <3>2 DEF MutedBy
  <2> QED BY <2>3, <2>4 DEF Mutes
<1>2. CASE Acquire(c)
  BY <1>2, <1>a, Names DEF Acquire, Mutes, MutedExactlyWhileWriting, MutedBy, CallState, Outside
<1>3. CASE CallStep(c) /\ ~Release(c)
  <2>1. suppressed' \in {suppressed, suppressed \cup {call[c].path}}
    BY <1>3 DEF CallStep, ComposeWrite, ComposeEdit, ComposeRestore, Composed, Reject, Put, Stat,
       IndexCall, FailCall
  <2>2. suppressed' # suppressed => call[c].op # "restore"
    BY <1>3 DEF CallStep, ComposeWrite, ComposeEdit, ComposeRestore, Composed, Reject, Put, Stat,
       IndexCall, FailCall
  <2>3. call'[c].pc \in {"ready", "written", "stated"} /\ call'[c].op # "restore"
          => call[c].path \in suppressed'
    <3>1. CASE ComposeWrite(c) \/ ComposeEdit(c) \/ ComposeRestore(c)
      BY <3>1, <1>a, ZenonT(60) DEF ComposeWrite, ComposeEdit, ComposeRestore, Composed, CallState
    <3>2. CASE Reject(c) \/ IndexCall(c) \/ FailCall(c)
      BY <3>2, <1>a, ZenonT(60) DEF Reject, IndexCall, FailCall, Leaving, CallState
    <3>3. CASE Put(c) \/ Stat(c)
      BY <3>3, <1>3, <1>a, CallFrame DEF Put, Stat, Mutes, MutedExactlyWhileWriting
    <3> QED BY <1>3, <3>1, <3>2, <3>3 DEF CallStep
  <2>4. MutedExactlyWhileWriting'
    BY <1>3, <1>a, <1>b, <1>c, <2>1, <2>3, CallFrame, Names DEF Mutes, MutedExactlyWhileWriting
  <2>5. ASSUME NEW p \in suppressed' PROVE MutedBy(p)'
    <3>1. CASE p \in suppressed
      BY <1>3, <1>a, <1>c, <3>1, CallFrame DEF Mutes, MutedBy
    <3>2. CASE p \notin suppressed
      BY <1>3, <1>a, <1>b, <2>1, <2>2, <2>5, <3>2, CallFrame DEF MutedBy
    <3> QED BY <3>1, <3>2
  <2> QED BY <2>4, <2>5 DEF Mutes
<1>4. CASE Release(c)
  <2> DEFINE p == call[c].path
  <2>1. lock[p] = c /\ p \in Paths
    BY <1>4, <1>b DEF Release, Outside
  <2>2. p \notin suppressed'
    BY <1>4, <2>1, Names DEF Release, Mutes, MutedBy
  <2>3. suppressed' = suppressed \ {p}
    BY <1>4, <2>1, Names DEF Release, Mutes, MutedBy
  <2>4. call' = [call EXCEPT ![c] = [FreshCall EXCEPT !.pc = "done"]] /\ call'[c].pc = "done"
        /\ lock' = [lock EXCEPT ![p] = None]
    BY <1>4, <1>a DEF Release, FreshCall
  <2>5. \A d \in Calls \ {c} : call[d].pc \notin Outside => call[d].path # p
    BY <1>b, <2>1
  <2>6. eng.pc \notin {"idle", "next", "lock", "lock2"} => p \notin {eng.src, eng.dst}
    BY <2>1, Names DEF Locks, ExclusiveWriters
  <2>7. \A q \in suppressed' : lock'[q] = lock[q] /\ MutedBy(q) /\ lock[q] # c
    <3> SUFFICES ASSUME NEW q \in suppressed' PROVE lock'[q] = lock[q] /\ MutedBy(q) /\ lock[q] # c
      OBVIOUS
    <3>1. q \in suppressed /\ q # p /\ q \in Paths
      BY <1>a, <2>3
    <3>2. MutedBy(q) /\ lock'[q] = lock[q]
      BY <1>a, <2>4, <3>1 DEF Mutes
    <3> QED BY <3>1, <3>2, Names DEF MutedBy
  <2>8. \A q \in suppressed' : MutedBy(q)'
    BY <1>a, <1>c, <2>4, <2>7 DEF MutedBy
  <2>9. MutedExactlyWhileWriting'
    <3>1. \A q \in suppressed' : lock'[q] # None
      BY <2>7, Names DEF MutedBy
    <3>2. \A d \in Calls : call'[d].pc \in {"ready", "written", "stated"} /\ call'[d].op # "restore"
            => call'[d].path \in suppressed'
      BY <1>a, <2>3, <2>4, <2>5 DEF Mutes, MutedExactlyWhileWriting, Outside
    <3>3. eng.pc \in {"write", "written", "stated"} => eng.dst \in suppressed'
      BY <2>3, <2>6 DEF Mutes, MutedExactlyWhileWriting
    <3> QED BY <1>c, <3>1, <3>2, <3>3 DEF MutedExactlyWhileWriting
  <2> QED BY <2>8, <2>9 DEF Mutes
<1> QED BY <1>1, <1>2, <1>3, <1>4


LEMMA MutesEng ==
  ASSUME Typed, Locks, Mutes, StartRun \/ EngLock \/ EngStep
  PROVE  Mutes'
<1> DEFINE Inside == {"check", "write", "written", "stated", "remove", "release", "abort"}
<1>a. eng \in EngState /\ lock \in [Paths -> Calls \cup {Compile, None}]
      /\ suppressed \subseteq Paths
  BY DEF Typed, TypeOK
<1>b. eng.pc \in Inside => /\ lock[eng.src] = Compile /\ lock[eng.dst] = Compile
                           /\ eng.src \in Paths /\ eng.dst \in Paths
  BY Names DEF Locks, ExclusiveWriters, Typed, EngShape
<1>c. \A d \in Calls : call[d].pc \notin Outside => lock[call[d].path] = d /\ call[d].path \in Paths
  BY DEF Locks, ExclusiveWriters, Outside, Typed, CallShape
<1>d. UNCHANGED call
  BY DEF StartRun, EngLock, LockFirst, LockSecond, EngStep, PassOver, DueRewrite, DueMove, Check,
     Rewrite, StatRewritten, IndexRewritten, RemoveSource, FailRun, ReleaseNote, FinishRun
<1>1. CASE StartRun \/ FinishRun \/ \E p \in Active : PassOver(p) \/ DueRewrite(p) \/ DueMove(p)
  <2>1. eng.pc \in {"idle", "next"} /\ eng'.pc \in {"idle", "next", "lock"}
        /\ UNCHANGED <<lock, suppressed>>
    <3>1. CASE StartRun
      <4> DEFINE due == {p \in Active : disk[p] # None}
      <4>1. eng' = [IdleEng EXCEPT !.pc = "next", !.walk = disk, !.todo = due]
            /\ eng.pc = "idle" /\ UNCHANGED <<lock, suppressed>>
        BY <3>1 DEF StartRun
      <4> HIDE DEF due
      <4> QED BY <4>1 DEF IdleEng
    <3>4. CASE FinishRun
      BY <3>4 DEF FinishRun, IdleEng
    <3>2. CASE \E p \in Active : PassOver(p) \/ DueMove(p)
      BY <3>2, <1>a DEF PassOver, DueMove, EngState
    <3>3. CASE \E p \in Active : DueRewrite(p)
      BY <3>3, <1>a DEF DueRewrite, EngState
    <3> QED BY <1>1, <3>1, <3>2, <3>3, <3>4
  <2> QED BY <1>d, <2>1, Names DEF Mutes, MutedExactlyWhileWriting, MutedBy
<1>2. CASE EngLock
  <2> PICK p : lock[p] = None /\ lock' = [lock EXCEPT ![p] = Compile]
    BY <1>2 DEF EngLock, LockFirst, LockSecond
  <2>1. /\ eng.pc \in {"lock", "lock2"} /\ eng'.pc \in {"lock2", "check"}
        /\ UNCHANGED suppressed
    BY <1>2, <1>a DEF EngLock, LockFirst, LockSecond, EngState
  <2>2. \A q \in suppressed : lock'[q] = lock[q] /\ lock[q] \in Calls
    BY <1>a, <2>1, Names DEF Mutes, MutedBy
  <2> QED BY <1>d, <2>1, <2>2, Names DEF Mutes, MutedExactlyWhileWriting, MutedBy
<1>3. CASE Check \/ Rewrite \/ StatRewritten \/ IndexRewritten \/ RemoveSource \/ FailRun
  <2>1. eng.pc \in Inside /\ eng'.pc \in Inside /\ eng'.src = eng.src /\ eng'.dst = eng.dst
        /\ UNCHANGED lock
    <3>1. CASE Check
      BY <1>a, <3>1 DEF Check, EngState
    <3>2. CASE Rewrite
      BY <1>a, <3>2 DEF Rewrite, EngState
    <3>3. CASE StatRewritten
      BY <1>a, <3>3 DEF StatRewritten, EngState
    <3>4. CASE IndexRewritten \/ RemoveSource \/ FailRun
      BY <1>a, <3>4 DEF IndexRewritten, RemoveSource, FailRun, EngState
    <3> QED BY <1>3, <3>1, <3>2, <3>3, <3>4
  <2>2. suppressed' \subseteq suppressed \cup {eng.src, eng.dst}
        /\ suppressed \ {eng.src, eng.dst} \subseteq suppressed'
    BY <1>3 DEF Check, Rewrite, StatRewritten, IndexRewritten, RemoveSource, FailRun
  <2>3. \A q \in suppressed' : MutedBy(q)' /\ lock'[q] # None
    BY <1>a, <1>b, <1>d, <2>1, <2>2, Names DEF Mutes, MutedBy
  <2>4. \A d \in Calls : call[d].pc \in {"ready", "written", "stated"} /\ call[d].op # "restore"
          => call[d].path \in suppressed'
    BY <1>b, <1>c, <2>1, <2>2, Names DEF Mutes, MutedExactlyWhileWriting, Outside
  <2>5. eng'.pc \in {"write", "written", "stated"} => eng'.dst \in suppressed'
    <3>1. CASE Check
      BY <1>a, <3>1 DEF Check, EngState
    <3>2. CASE Rewrite
      BY <1>a, <3>2, <2>1 DEF Rewrite, Mutes, MutedExactlyWhileWriting
    <3>3. CASE StatRewritten
      BY <1>a, <3>3, <2>1 DEF StatRewritten, Mutes, MutedExactlyWhileWriting
    <3>4. CASE IndexRewritten \/ RemoveSource \/ FailRun
      BY <1>a, <3>4 DEF IndexRewritten, RemoveSource, FailRun, EngState
    <3> QED BY <1>3, <3>1, <3>2, <3>3, <3>4
  <2> QED BY <1>d, <2>3, <2>4, <2>5 DEF Mutes, MutedExactlyWhileWriting
<1>4. CASE ReleaseNote
  <2>1. eng.pc \in Inside /\ eng'.pc \in {"idle", "next"}
    BY <1>4, <1>a DEF ReleaseNote, BetweenNotes, IdleEng, EngState
  <2>2. suppressed' = suppressed \ {eng.src, eng.dst}
    BY <1>4 DEF ReleaseNote
  <2>3. \A q \in suppressed' : lock'[q] = lock[q] /\ MutedBy(q)
    BY <1>4, <1>a, <2>2 DEF ReleaseNote, Mutes
  <2>4. \A q \in suppressed' : lock[q] \in Calls /\ MutedBy(q)'
    BY <1>d, <2>2, <2>3, Names DEF MutedBy
  <2>5. \A d \in Calls : call[d].pc \in {"ready", "written", "stated"} /\ call[d].op # "restore"
          => call[d].path \in suppressed'
    BY <1>b, <1>c, <2>1, <2>2, Names DEF Mutes, MutedExactlyWhileWriting, Outside
  <2> QED BY <1>d, <2>1, <2>3, <2>4, <2>5, Names DEF Mutes, MutedExactlyWhileWriting
<1> QED BY <1>1, <1>2, <1>3, <1>4 DEF EngStep

LEMMA MutesStep ==
  ASSUME Typed, Locks, Mutes, [Next]_vars
  PROVE  Mutes'
<1>1. CASE UNCHANGED <<lock, suppressed, call, eng>>
  BY <1>1 DEF Mutes, MutedExactlyWhileWriting, MutedBy
<1>2. CASE Crash
  BY <1>2 DEF Crash, Mutes, MutedExactlyWhileWriting, FreshCall, IdleEng, Typed, TypeOK, CallState
<1> QED BY <1>1, <1>2, MutesCall, MutesEng, WatcherFrame, HandFrame DEF Next, vars

(* A path is muted while a pipeline or compile write of it is in flight,   *)
(* and only while its lock is held (the deferred Suppress and Unsuppress). *)
THEOREM Suppression == Spec => []MutedExactlyWhileWriting
<1>1. Init => Mutes
  BY DEF Init, Mutes, MutedExactlyWhileWriting, FreshCall, IdleEng
<1>2. Typed /\ Locks /\ Mutes /\ [Next]_vars => Mutes'
  BY MutesStep
<1>3. Mutes => MutedExactlyWhileWriting
  BY DEF Mutes
<1> QED BY <1>1, <1>2, <1>3, TypedAlways, LocksAlways, PTL DEF Spec


-----------------------------------------------------------------------------
(* No lost update.                                                         *)

(* What amending a note's content leaves of it.                            *)
Carried(f, w) == [id |-> f.id, body |-> f.body \cup {w}, ok |-> TRUE]

(* The content a call has composed follows from the file it has seen.      *)
Composes(s, c) ==
  \/ /\ s.op = "write"
     /\ Content(s.new) = [id |-> s.new.id, body |-> {c}, ok |-> TRUE]
     /\ s.seen # None /\ s.seen.ok => s.seen.id = s.new.id
  \/ /\ s.op = "edit"
     /\ s.seen # None
     /\ Content(s.new) = Carried(s.seen, c)
  \/ /\ s.op = "restore"
     /\ Content(s.new) = Content(Fresh(s.path))

CallSees(c) ==
  call[c].pc = "ready" => Seen(call[c].path, call[c].seen) /\ Composes(call[c], c)

RunSees ==
  /\ eng.pc = "write" => Seen(eng.src, eng.walk[eng.src])
  /\ eng.pc \in {"write", "written", "stated", "remove"} /\ eng.dst # eng.src =>
       /\ Seen(eng.src, eng.walk[eng.src])
       /\ Seen(eng.dst, IF eng.pc = "write" THEN None ELSE eng.new)
  /\ eng.pc = "write" \/ (eng.pc \in {"written", "stated", "remove"} /\ eng.dst # eng.src) =>
       Content(eng.new) = Carried(eng.walk[eng.src], Compile)
  /\ \A p \in Active : eng.walk[p] # None => eng.walk[p].ok
  /\ eng.pc = "remove" => eng.dst # eng.src
  /\ eng.pc \notin {"idle", "next"} /\ eng.dst # eng.src => eng.src \notin eng.todo
  /\ \A p \in eng.todo : disk[p] # None \/ byHand[p]
  /\ eng.pc \in {"lock", "lock2", "check"} => disk[eng.src] # None \/ byHand[eng.src]

Sees == (\A c \in Calls : CallSees(c)) /\ RunSees

LEMMA ContentType ==
  ASSUME NEW f \in File
  PROVE  /\ f # None
         /\ Content(f) = [id |-> f.id, body |-> f.body, ok |-> f.ok]
         /\ Content(f) \in Contents
         /\ Content(f) # None
BY TokensAssumption DEF Content, File, Contents

(* A call that is not writing its file sees what it saw.                   *)
LEMMA SeesCompose ==
  ASSUME Typed, Sees, NEW c \in Calls, ComposeWrite(c) \/ ComposeEdit(c) \/ ComposeRestore(c)
  PROVE  Sees'
<1> DEFINE p == call[c].path
<1>a. call \in [Calls -> CallState] /\ p \in Paths /\ disk[p] \in File \cup {None}
  BY DEF ComposeWrite, ComposeEdit, ComposeRestore, Typed, TypeOK, CallShape
<1>b. c \in Ids /\ Ids \subseteq Tokens
  BY DEF Ids, Tokens
<1>1. ASSUME NEW new \in File, NEW mute, Composed(c, new, mute),
             Composes([call[c] EXCEPT !.pc = "ready", !.seen = disk[p], !.new = new], c)
      PROVE  Sees'
  <2>1. call'[c] = [call[c] EXCEPT !.pc = "ready", !.seen = disk[p], !.new = new]
        /\ UNCHANGED <<disk, byHand, eng>> /\ \A d \in Calls \ {c} : call'[d] = call[d]
    BY <1>a, <1>1 DEF Composed
  <2>2. call'[c].path = p /\ call'[c].seen = disk[p]
    BY <1>a, <2>1 DEF CallState
  <2>3. CallSees(c)'
    BY <1>1, <2>1, <2>2 DEF CallSees, Seen, Same
  <2>4. \A d \in Calls \ {c} : CallSees(d)'
    BY <2>1 DEF Sees, CallSees, Seen
  <2>5. RunSees'
    BY <2>1 DEF Sees, RunSees, Seen
  <2> QED BY <2>3, <2>4, <2>5 DEF Sees
<1>2. CASE ComposeWrite(c)
  <2>1. PICK i \in Supplied \cup {NoteID(c, p)} :
             /\ KeepsID(p, i)
             /\ Composed(c, [id |-> i, body |-> {c}, ok |-> TRUE, stamp |-> c], {p})
    BY <1>2 DEF ComposeWrite
  <2> DEFINE new == [id |-> i, body |-> {c}, ok |-> TRUE, stamp |-> c]
  <2>2. NoteID(c, p) \in Ids
    BY <1>a, <1>b DEF Typed, TypeOK, NoteID, Readable, File
  <2>3. new \in File /\ new.id = i
    BY <1>b, <2>1, <2>2, TokensAssumption DEF File
  <2>4. Content(new) = [id |-> i, body |-> {c}, ok |-> TRUE]
    BY <2>3, ContentType
  <2>5. call[c].op = "write" /\ (disk[p] # None /\ disk[p].ok => disk[p].id = i)
    BY <1>2, <2>1 DEF ComposeWrite, KeepsID, Readable
  <2>6. Composes([call[c] EXCEPT !.pc = "ready", !.seen = disk[p], !.new = new], c)
    <3> HIDE DEF new
    <3> QED BY <1>a, <2>3, <2>4, <2>5 DEF Composes, CallState
  <2> QED BY <1>1, <2>1, <2>3, <2>6
<1>3. CASE ComposeEdit(c)
  <2> DEFINE new == [id |-> disk[p].id, body |-> disk[p].body \cup {c}, ok |-> TRUE, stamp |-> c]
  <2>1. disk[p] \in File /\ call[c].op = "edit" /\ Composed(c, new, {p})
    BY <1>3, <1>a DEF ComposeEdit
  <2>2. new \in File
    BY <1>b, <2>1 DEF File
  <2>3. Content(new) = Carried(disk[p], c)
    BY <2>2, ContentType DEF Carried
  <2>4. Composes([call[c] EXCEPT !.pc = "ready", !.seen = disk[p], !.new = new], c)
    <3> HIDE DEF new
    <3> QED BY <1>a, <2>1, <2>3, ContentType DEF Composes, CallState
  <2> QED BY <1>1, <2>1, <2>2, <2>4
<1>4. CASE ComposeRestore(c)
  <2> DEFINE new == [Fresh(p) EXCEPT !.stamp = c]
  <2>1. Fresh(p) \in File /\ call[c].op = "restore" /\ Composed(c, new, {})
    BY <1>4, <1>a, FreshType DEF ComposeRestore
  <2>2. new \in File
    BY <1>b, <2>1 DEF File
  <2>3. Content(new) = Content(Fresh(p))
    BY <2>1, <2>2, ContentType DEF File
  <2>4. Composes([call[c] EXCEPT !.pc = "ready", !.seen = disk[p], !.new = new], c)
    <3> HIDE DEF new
    <3> QED BY <1>a, <2>1, <2>3 DEF Composes, CallState
  <2> QED BY <1>1, <2>1, <2>2, <2>4
<1> QED BY <1>2, <1>3, <1>4


LEMMA SeesCall ==
  ASSUME Typed, Locks, Sees, NEW c \in Calls,
         Acquire(c) \/ CallStep(c) \/ \E p \in Paths, op \in Ops : Begin(c, p, op)
  PROVE  Sees'
<1>a. call \in [Calls -> CallState] /\ disk \in [Paths -> File \cup {None}]
      /\ byHand \in [Paths -> BOOLEAN]
  BY DEF Typed, TypeOK
<1>1. ASSUME UNCHANGED <<disk, byHand, eng>>, call'[c].pc # "ready",
             \A d \in Calls \ {c} : call'[d] = call[d]
      PROVE  Sees'
  <2>1. CallSees(c)'
    BY <1>1 DEF CallSees
  <2>2. \A d \in Calls \ {c} : CallSees(d)'
    BY <1>1 DEF Sees, CallSees, Seen
  <2>3. RunSees'
    BY <1>1 DEF Sees, RunSees, Seen
  <2> QED BY <2>1, <2>2, <2>3 DEF Sees
<1>2. CASE \E p \in Paths, op \in Ops : Begin(c, p, op)
  BY <1>1, <1>2, <1>a DEF Begin, CallState
<1>3. CASE Acquire(c)
  BY <1>1, <1>3, <1>a DEF Acquire, CallState
<1>4. CASE ComposeWrite(c) \/ ComposeEdit(c) \/ ComposeRestore(c)
  BY <1>4, SeesCompose
<1>5. CASE Reject(c) \/ IndexCall(c) \/ FailCall(c)
  BY <1>1, <1>5, <1>a DEF Reject, IndexCall, FailCall, Leaving, CallState
<1>6. CASE Stat(c)
  <2>1. CASE disk[call[c].path] = None
    BY <1>1, <1>6, <1>a, <2>1 DEF Stat, Leaving, CallState
  <2>2. CASE disk[call[c].path] # None
    <3> DEFINE f == Stamped(call[c].new, call[c].path)
    <3>1. call' = [call EXCEPT ![c] = [call[c] EXCEPT !.pc = "stated", !.new = f]]
          /\ UNCHANGED <<disk, byHand, eng>>
      BY <1>6, <2>2 DEF Stat
    <3> HIDE DEF f
    <3> QED BY <1>1, <1>a, <3>1 DEF CallState
  <2> QED BY <2>1, <2>2
<1>7. CASE Release(c)
  BY <1>1, <1>7, <1>a DEF Release, FreshCall, CallState
<1>8. CASE Put(c)
  <2> DEFINE p == call[c].path
  <2>1. call[c].pc = "ready" /\ p \in Paths /\ call[c].new \in File /\ lock[p] = c
    BY <1>8 DEF Put, Typed, CallShape, Locks, ExclusiveWriters
  <2>2. /\ disk' = [disk EXCEPT ![p] = call[c].new]
        /\ byHand' = [byHand EXCEPT ![p] = FALSE]
        /\ UNCHANGED eng
    BY <1>8 DEF Put, WriteFile
  <2>3. disk'[p] # None /\ \A q \in Paths \ {p} : disk'[q] = disk[q] /\ byHand'[q] = byHand[q]
    BY <1>a, <2>1, <2>2, TokensAssumption
  <2>4. call'[c].pc # "ready" /\ \A d \in Calls \ {c} : call'[d] = call[d]
    BY <1>8, <1>a DEF Put, Leaving, CallState
  <2>5. ASSUME NEW d \in Calls \ {c}, call[d].pc = "ready"
        PROVE  call[d].path \in Paths \ {p}
    BY <2>1, <2>5 DEF Typed, CallShape, Locks, ExclusiveWriters
  <2>6. \A d \in Calls \ {c} : CallSees(d)'
    BY <2>3, <2>4, <2>5 DEF Sees, CallSees, Seen
  <2>7. CallSees(c)'
    BY <2>4 DEF CallSees
  <2>8. eng.pc \in {"write", "written", "stated", "remove"} =>
          eng.src \in Paths \ {p} /\ eng.dst \in Paths \ {p}
    BY <2>1, Names DEF Typed, EngShape, Locks, ExclusiveWriters
  <2>9. eng.todo \subseteq Paths /\ (eng.pc \notin {"idle", "next"} => eng.src \in Paths)
    BY Names DEF Typed, EngShape
  <2>10. RunSees'
    <3>1. /\ eng.pc = "write" => Seen(eng.src, eng.walk[eng.src])'
          /\ eng.pc \in {"write", "written", "stated", "remove"} /\ eng.dst # eng.src =>
               /\ Seen(eng.src, eng.walk[eng.src])'
               /\ Seen(eng.dst, IF eng.pc = "write" THEN None ELSE eng.new)'
      BY <2>2, <2>3, <2>8 DEF Sees, RunSees, Seen
    <3>2. /\ \A q \in eng.todo : disk'[q] # None \/ byHand'[q]
          /\ eng.pc \in {"lock", "lock2", "check"} => disk'[eng.src] # None \/ byHand'[eng.src]
      BY <2>3, <2>9 DEF Sees, RunSees
    <3> QED BY <2>2, <3>1, <3>2 DEF Sees, RunSees
  <2> QED BY <2>6, <2>7, <2>10 DEF Sees
<1> QED BY <1>2, <1>3, <1>4, <1>5, <1>6, <1>7, <1>8 DEF CallStep

LEMMA SeesHand ==
  ASSUME Typed, Sees, Hand
  PROVE  Sees'
<1>1. \A p \in Paths : byHand'[p] \/ (disk'[p] = disk[p] /\ byHand'[p] = byHand[p])
  BY DEF Hand, HumanSave, HumanDelete, HumanRename, Typed, TypeOK
<1>2. UNCHANGED <<call, eng>>
  BY HandFrame
<1>3. \A p \in Paths : \A f : Seen(p, f) => (byHand'[p] \/ Same(disk'[p], f))
  BY <1>1 DEF Seen
<1>4. \A c \in Calls : call[c].pc = "ready" => call[c].path \in Paths
  BY DEF Typed, CallShape
<1>5. \A c \in Calls : CallSees(c)'
  BY <1>2, <1>3, <1>4 DEF Sees, CallSees, Seen
<1>6. eng.todo \subseteq Paths /\ (eng.pc \notin {"idle", "next"} => eng.src \in Paths /\ eng.dst \in Paths)
  BY Names DEF Typed, EngShape
<1>7. RunSees'
  BY <1>1, <1>2, <1>3, <1>6 DEF Sees, RunSees, Seen
<1> QED BY <1>5, <1>7 DEF Sees


LEMMA RewrittenContent ==
  ASSUME NEW f \in File, f.ok
  PROVE  Content(Rewritten(f)) = Carried(f, Compile)
<1>1. Rewritten(f) \in File
  BY RewrittenType
<1>2. Rewritten(f).id = f.id /\ Rewritten(f).body = f.body \cup {Compile} /\ Rewritten(f).ok = TRUE
  BY DEF Rewritten, File
<1> QED BY <1>1, <1>2, ContentType DEF Carried

LEMMA StampedContent ==
  ASSUME NEW f \in File, NEW p, Stamped(f, p) \in File
  PROVE  Content(Stamped(f, p)) = Content(f)
<1>1. Stamped(f, p).id = f.id /\ Stamped(f, p).body = f.body /\ Stamped(f, p).ok = f.ok
  BY DEF Stamped, File
<1> QED BY <1>1, ContentType

(* Steps of the run that write no file.                                    *)
LEMMA SeesEngQuiet ==
  ASSUME Typed, Sees, StartRun \/ EngLock \/ EngStep, ~Rewrite, ~RemoveSource
  PROVE  Sees'
<1>a. eng \in EngState /\ Active \subseteq Paths /\ EngShape(eng)
      /\ disk \in [Paths -> File \cup {None}]
  BY Names DEF Typed, TypeOK
<1>b. UNCHANGED <<disk, byHand, call>>
  BY DEF StartRun, EngLock, LockFirst, LockSecond, EngStep, PassOver, DueRewrite, DueMove, Check,
     StatRewritten, IndexRewritten, FailRun, ReleaseNote, FinishRun
<1>c. \A c \in Calls : CallSees(c)'
  BY <1>b DEF Sees, CallSees, Seen
<1>d. SUFFICES RunSees'
  BY <1>c DEF Sees
<1>e. /\ RunSees
      /\ \A p \in Active : eng.walk[p] # None => eng.walk[p].ok
      /\ \A p \in eng.todo : disk[p] # None \/ byHand[p]
  BY DEF Sees, RunSees
<1>1. CASE StartRun
  <2> DEFINE due == {p \in Active : disk[p] # None}
  <2>1. /\ eng' = [IdleEng EXCEPT !.pc = "next", !.walk = disk, !.todo = due]
        /\ \A p \in Paths : disk[p] # None => disk[p].ok
    BY <1>1 DEF StartRun
  <2>2. eng'.pc = "next" /\ eng'.walk = disk /\ eng'.todo = due
    <3> HIDE DEF due
    <3> QED BY <2>1 DEF IdleEng
  <2> QED BY <1>a, <1>b, <2>1, <2>2 DEF RunSees
<1>2. CASE \E p \in Active : PassOver(p)
  <2>1. eng'.pc = "next" /\ eng'.walk = eng.walk /\ eng'.todo \subseteq eng.todo
    BY <1>2, <1>a DEF PassOver, EngState
  <2> QED BY <1>b, <1>e, <2>1 DEF RunSees
<1>3. CASE \E p \in Active : DueRewrite(p)
  <2>1. PICK p \in Active : DueRewrite(p)
    BY <1>3
  <2>2. PICK rest \in {eng.todo, eng.todo \ {p}} :
             eng' = [eng EXCEPT !.pc = "lock", !.src = p, !.dst = p, !.todo = rest]
    BY <2>1 DEF DueRewrite
  <2>3. eng'.pc = "lock" /\ eng'.src = p /\ eng'.dst = p /\ eng'.todo = rest /\ eng'.walk = eng.walk
    BY <1>a, <2>2 DEF EngState
  <2>4. p \in eng.todo
    BY <2>1 DEF DueRewrite
  <2> QED BY <1>b, <1>e, <2>3, <2>4 DEF RunSees
<1>4. CASE \E p \in Active : DueMove(p)
  <2>1. PICK p \in Active : DueMove(p)
    BY <1>4
  <2>2. eng'.pc = "lock" /\ eng'.src = p /\ eng'.walk = eng.walk
        /\ eng'.todo = eng.todo \ {p} /\ p \in eng.todo
    BY <1>a, <2>1 DEF DueMove, EngState
  <2> QED BY <1>b, <1>e, <2>2 DEF RunSees
<1>5. CASE EngLock
  <2>1. eng.pc \in {"lock", "lock2"} /\ eng'.pc \in {"lock2", "check"} /\ eng'.src = eng.src
        /\ eng'.dst = eng.dst /\ eng'.todo = eng.todo /\ eng'.walk = eng.walk
    BY <1>5, <1>a DEF EngLock, LockFirst, LockSecond, EngState
  <2> QED BY <1>b, <1>e, <2>1 DEF RunSees
<1>6. CASE Check
  <2>1. eng.pc = "check" /\ eng.src \in Active /\ eng.dst \in Paths /\ eng.walk[eng.src] \in File
    BY <1>6, <1>a, Names DEF Check, EngShape, EngState
  <2>2. CASE eng' = [eng EXCEPT !.pc = "abort"]
    BY <1>a, <1>b, <1>e, <2>1, <2>2 DEF RunSees, EngState
  <2>3. CASE eng' = [eng EXCEPT !.pc = "release", !.todo = eng.todo \ {eng.src}]
    BY <1>a, <1>b, <1>e, <2>1, <2>3 DEF RunSees, EngState
  <2>4. CASE /\ eng' = [eng EXCEPT !.pc = "write", !.new = Rewritten(eng.walk[eng.src])]
             /\ Unchanged(eng.src)
             /\ eng.dst = eng.src \/ disk[eng.dst] = None
    <3> DEFINE new == Rewritten(eng.walk[eng.src])
    <3>1. Content(new) = Carried(eng.walk[eng.src], Compile)
      BY <1>e, <2>1, RewrittenContent, TokensAssumption
    <3>2. eng'.pc = "write" /\ eng'.new = new /\ eng'.src = eng.src /\ eng'.dst = eng.dst
          /\ eng'.todo = eng.todo /\ eng'.walk = eng.walk
      <4>1. eng' = [eng EXCEPT !.pc = "write", !.new = new]
        BY <2>4
      <4> HIDE DEF new
      <4> QED BY <1>a, <4>1 DEF EngState
    <3>3. Seen(eng.src, eng.walk[eng.src])
      <4>1. disk[eng.src] # None \/ byHand[eng.src]
        BY <1>e, <2>1 DEF RunSees
      <4> QED BY <2>4, <4>1 DEF Unchanged, Seen
    <3>4. eng.dst # eng.src => Seen(eng.dst, None)
      BY <2>4 DEF Seen, Same
    <3> HIDE DEF new
    <3> QED BY <1>b, <1>e, <2>1, <3>1, <3>2, <3>3, <3>4 DEF RunSees, Seen
  <2> QED BY <1>6, <2>2, <2>3, <2>4 DEF Check
<1>7. CASE StatRewritten
  <2>1. eng.pc = "written" /\ eng.new \in File /\ eng.dst \in Paths
    BY <1>7, <1>a, Names DEF StatRewritten, EngShape
  <2>2. CASE disk[eng.dst] = None
    BY <1>7, <1>a, <1>b, <1>e, <2>1, <2>2 DEF StatRewritten, RunSees, EngState
  <2>3. CASE disk[eng.dst] # None
    <3> DEFINE f == Stamped(eng.new, eng.dst)
    <3>1. f \in File /\ Content(f) = Content(eng.new)
      BY <2>1, <2>3, StampedType, StampedContent DEF Typed
    <3>2. eng' = [eng EXCEPT !.pc = "stated", !.new = f]
      BY <1>7, <2>3 DEF StatRewritten
    <3> HIDE DEF f
    <3>3. eng'.pc = "stated" /\ eng'.new = f /\ eng'.src = eng.src /\ eng'.dst = eng.dst
          /\ eng'.todo = eng.todo /\ eng'.walk = eng.walk
      BY <1>a, <3>2 DEF EngState
    <3> QED BY <1>b, <1>e, <2>1, <3>1, <3>3 DEF RunSees, Seen, Same
  <2> QED BY <2>2, <2>3
<1>8. CASE IndexRewritten
  <2>1. eng.pc = "stated" /\ eng'.pc = (IF eng.src = eng.dst THEN "release" ELSE "remove")
        /\ eng'.new = eng.new /\ eng'.src = eng.src /\ eng'.dst = eng.dst
        /\ eng'.todo = eng.todo /\ eng'.walk = eng.walk
    BY <1>8, <1>a DEF IndexRewritten, EngState
  <2> QED BY <1>b, <1>e, <2>1 DEF RunSees, Seen
<1>9. CASE FailRun
  <2>1. eng.pc \in {"write", "written", "stated", "remove"} /\ eng'.pc = "abort"
        /\ eng'.src = eng.src /\ eng'.dst = eng.dst
        /\ eng'.todo = eng.todo /\ eng'.walk = eng.walk
    BY <1>9, <1>a DEF FailRun, EngState
  <2> QED BY <1>b, <1>e, <2>1 DEF RunSees
<1>10. CASE ReleaseNote \/ FinishRun
  <2>1. eng' = IdleEng \/ eng' = BetweenNotes(eng)
    BY <1>10 DEF ReleaseNote, FinishRun
  <2>2. CASE eng' = IdleEng
    BY <1>a, <2>2 DEF IdleEng, Nothing, RunSees
  <2>3. CASE eng' = BetweenNotes(eng)
    <3>1. eng'.pc = "next" /\ eng'.todo = eng.todo /\ eng'.walk = eng.walk
      BY <1>a, <2>3 DEF BetweenNotes, EngState
    <3> QED BY <1>b, <1>e, <3>1 DEF RunSees
  <2> QED BY <2>1, <2>2, <2>3
<1> QED BY <1>1, <1>2, <1>3, <1>4, <1>5, <1>6, <1>7, <1>8, <1>9, <1>10 DEF EngStep


(* The run writes a path it has locked, so no call is about to write it.   *)
LEMMA SeesEngWrite ==
  ASSUME Typed, Locks, Sees, Rewrite \/ RemoveSource
  PROVE  Sees'
<1> DEFINE p == IF Rewrite THEN eng.dst ELSE eng.src
<1>a. eng \in EngState /\ disk \in [Paths -> File \cup {None}] /\ byHand \in [Paths -> BOOLEAN]
  BY DEF Typed, TypeOK
<1>b. /\ eng.src \in Active /\ eng.src \in Paths /\ eng.dst \in Paths
      /\ eng.new \in File /\ lock[eng.src] = Compile /\ lock[eng.dst] = Compile
      /\ eng.todo \subseteq Paths
  BY Names DEF Rewrite, RemoveSource, Typed, EngShape, Locks, ExclusiveWriters
<1>c. \A d \in Calls : call[d].pc = "ready" => call[d].path \in Paths \ {eng.src, eng.dst}
  BY <1>b, Names DEF Typed, CallShape, Locks, ExclusiveWriters
<1>d. UNCHANGED call
      /\ \A q \in Paths \ {eng.src, eng.dst} : disk'[q] = disk[q] /\ byHand'[q] = byHand[q]
  BY <1>a, <1>b DEF Rewrite, RemoveSource, WriteFile
<1>e. \A d \in Calls : CallSees(d)'
  BY <1>c, <1>d DEF Sees, CallSees, Seen
<1>f. SUFFICES RunSees'
  BY <1>e DEF Sees
<1>g. RunSees
  BY DEF Sees
<1>1. CASE Rewrite
  <2>1. /\ disk' = [disk EXCEPT ![eng.dst] = eng.new]
        /\ byHand' = [byHand EXCEPT ![eng.dst] = FALSE]
        /\ eng.pc = "write"
    BY <1>1 DEF Rewrite, WriteFile
  <2>2. disk'[eng.dst] = eng.new /\ eng.new # None
        /\ \A q \in Paths \ {eng.dst} : disk'[q] = disk[q] /\ byHand'[q] = byHand[q]
    BY <1>a, <1>b, <2>1, TokensAssumption
  <2>3. /\ eng'.pc = "written" /\ eng'.src = eng.src /\ eng'.dst = eng.dst
        /\ eng'.new = eng.new /\ eng'.todo = eng.todo
        /\ eng'.walk = [eng.walk EXCEPT ![eng.src] = IF eng.src = eng.dst THEN eng.new
                                                    ELSE eng.walk[eng.src]]
    BY <1>1, <1>a DEF Rewrite, EngState
  <2>4. eng.new.ok = TRUE /\ Content(eng.new) = Carried(eng.walk[eng.src], Compile)
    BY <1>b, <1>g, <2>1, ContentType DEF RunSees, Carried
  <2>5. \A q \in Active : eng'.walk[q] # None => eng'.walk[q].ok
    BY <1>a, <1>b, <1>g, <2>3, <2>4, Names DEF RunSees, EngState
  <2>6. \A q \in eng.todo : disk'[q] # None \/ byHand'[q]
    BY <1>b, <1>g, <2>2 DEF RunSees
  <2>7. eng.dst # eng.src => /\ Same(disk'[eng.src], eng'.walk[eng.src]) \/ byHand'[eng.src]
                            /\ Same(disk'[eng.dst], eng.new)
                            /\ eng'.walk[eng.src] = eng.walk[eng.src]
    BY <1>a, <1>b, <1>g, <2>1, <2>2, <2>3 DEF RunSees, Seen, Same, EngState
  <2> QED BY <1>g, <2>1, <2>3, <2>4, <2>5, <2>6, <2>7 DEF RunSees, Seen
<1>2. CASE RemoveSource
  <2>1. eng.pc = "remove" /\ eng'.pc = "release" /\ eng'.src = eng.src /\ eng'.dst = eng.dst
        /\ eng'.todo = eng.todo /\ eng'.walk = eng.walk
    BY <1>2, <1>a DEF RemoveSource, EngState
  <2>2. eng.src \notin eng.todo
    BY <1>g, <2>1 DEF RunSees
  <2>3. \A q \in Paths \ {eng.src} : disk'[q] = disk[q] /\ byHand'[q] = byHand[q]
    BY <1>2, <1>a, <1>b DEF RemoveSource
  <2> QED BY <1>b, <1>g, <2>1, <2>2, <2>3 DEF RunSees
<1> QED BY <1>1, <1>2

LEMMA SeesStep ==
  ASSUME Typed, Locks, Sees, [Next]_vars
  PROVE  Sees'
<1>1. CASE UNCHANGED <<disk, byHand, call, eng>>
  BY <1>1 DEF Sees, CallSees, RunSees, Seen
<1>2. CASE Crash
  <2>1. \A c \in Calls : CallSees(c)'
    BY <1>2 DEF Crash, CallSees, FreshCall
  <2>2. RunSees'
    BY <1>2, Names DEF Crash, RunSees, IdleEng, Nothing
  <2> QED BY <2>1, <2>2 DEF Sees
<1>3. CASE StartRun \/ EngLock \/ EngStep
  BY <1>3, SeesEngQuiet, SeesEngWrite
<1> QED BY <1>1, <1>2, <1>3, SeesCall, SeesHand, WatcherFrame DEF Next, vars

LEMMA SeesAlways == Spec => []Sees
<1>1. Init => Sees
  BY Names DEF Init, Sees, CallSees, RunSees, FreshCall, IdleEng, Nothing
<1>2. Typed /\ Locks /\ Sees /\ [Next]_vars => Sees'
  BY SeesStep
<1> QED BY <1>1, <1>2, TypedAlways, LocksAlways, PTL DEF Spec

(* Whoever is about to replace or delete a file has seen what it replaces, *)
(* unless a hand was there in between (pathlocks.go, assertUnchanged).     *)
THEOREM LostUpdateFreedom == Spec => []NoLostUpdate
<1>1. Sees => NoLostUpdate
  BY DEF Sees, CallSees, RunSees, NoLostUpdate
<1> QED BY <1>1, SeesAlways, PTL


-----------------------------------------------------------------------------
(* The writers implement the store of atomic operations.                   *)

file == [p \in Paths |-> Content(disk[p])]

LEMMA WriteMaps ==
  ASSUME Typed, NEW p \in Paths, NEW f, disk' = [disk EXCEPT ![p] = f]
  PROVE  file' = [file EXCEPT ![p] = Content(f)]
<1>1. disk \in [Paths -> File \cup {None}]
  BY DEF Typed, TypeOK
<1>2. \A q \in Paths : disk'[q] = IF q = p THEN f ELSE disk[q]
  BY <1>1
<1>3. file' = [q \in Paths |-> Content(disk'[q])]
  BY DEF file, Content
<1>4. file' = [q \in Paths |-> IF q = p THEN Content(f) ELSE Content(disk[q])]
  BY <1>2, <1>3
<1> QED BY <1>4 DEF file

LEMMA AmendedMaps ==
  ASSUME NEW f \in File, NEW w
  PROVE  Store!Amended(Content(f), w) = Carried(f, w)
<1>1. Content(f) = [id |-> f.id, body |-> f.body, ok |-> f.ok]
  BY ContentType
<1>2. /\ Content(f).id = f.id
      /\ Content(f).body = f.body
  BY <1>1
<1>3. Store!Amended(Content(f), w) = [id |-> f.id, body |-> f.body \cup {w}, ok |-> TRUE]
  BY <1>1 DEF Store!Amended
<1> QED BY <1>3 DEF Carried

LEMMA UnseenMaps ==
  ASSUME Typed, NEW p \in Paths, NEW q \in Paths, byHand[p] \/ byHand[q],
         NEW f, disk' = [disk EXCEPT ![p] = f], byHand' = [byHand EXCEPT ![p] = FALSE]
  PROVE  Store!Next
<1>1. file' = [file EXCEPT ![p] = Content(f)]
  BY WriteMaps
<1>2. Store!Unseen(p, q)
  BY <1>1 DEF Store!Unseen, file
<1> QED BY <1>2 DEF Store!Next

LEMMA PutMaps ==
  ASSUME Typed, Sees, NEW c \in Calls, Put(c)
  PROVE  Store!Next
<1> DEFINE p == call[c].path
           seen == call[c].seen
           new == call[c].new
<1>1. /\ p \in Paths /\ new \in File /\ seen \in File \cup {None}
      /\ disk[p] \in File \cup {None}
  BY DEF Put, Typed, TypeOK, CallShape, CallState
<1>2. Composes(call[c], c) /\ Seen(p, seen)
  BY DEF Put, Sees, CallSees
<1>3. disk' = [disk EXCEPT ![p] = new] /\ byHand' = [byHand EXCEPT ![p] = FALSE]
  BY DEF Put, WriteFile
<1>4. CASE byHand[p]
  BY <1>1, <1>3, <1>4, UnseenMaps
<1>5. CASE ~byHand[p]
  <2>1. file[p] = Content(seen)
    BY <1>1, <1>2, <1>5 DEF Seen, Same, file
  <2>2. Store!Becomes(p, Content(new))
    BY <1>1, <1>3, WriteMaps DEF Store!Becomes, file
  <2>3. seen = None => file[p] = None
    BY <2>1 DEF Content
  <2>4. seen # None => seen \in File /\ file[p] # None /\ file[p].ok = seen.ok /\ file[p].id = seen.id
    BY <1>1, <2>1, ContentType
  <2>5. CASE call[c].op = "write"
    <3>1. Store!Overwrite(c, p, new.id)
      BY <1>2, <2>2, <2>3, <2>4, <2>5 DEF Composes, Store!Overwrite, file
    <3>2. new.id \in Ids
      BY <1>1 DEF File
    <3> QED BY <1>1, <3>1, <3>2 DEF Store!Next
  <2>6. CASE call[c].op = "edit"
    <3>1. seen \in File /\ Content(new) = Carried(seen, c)
      BY <1>2, <2>4, <2>6 DEF Composes
    <3>2. Content(new) = Store!Amended(file[p], c)
      BY <2>1, <3>1, AmendedMaps
    <3>3. Store!Amend(c, p)
      BY <2>2, <2>4, <3>1, <3>2, TokensAssumption DEF Store!Amend, file
    <3> QED BY <1>1, <3>3 DEF Store!Next
  <2>7. CASE call[c].op = "restore"
    <3>1. Store!Restore(p)
      BY <1>1, <1>2, <2>2, <2>7 DEF Composes, Store!Restore
    <3> QED BY <1>1, <3>1 DEF Store!Next
  <2> QED BY <1>2, <2>5, <2>6, <2>7 DEF Composes
<1> QED BY <1>4, <1>5

LEMMA RewriteMaps ==
  ASSUME Typed, Sees, Rewrite
  PROVE  Store!Next
<1> DEFINE src == eng.src
           dst == eng.dst
           old == eng.walk[eng.src]
<1>1. /\ src \in Paths /\ dst \in Paths /\ eng.new \in File /\ old \in File
      /\ disk[src] \in File \cup {None} /\ disk[dst] \in File \cup {None}
  BY Names DEF Rewrite, Typed, TypeOK, EngShape, EngState
<1>2. disk' = [disk EXCEPT ![dst] = eng.new] /\ byHand' = [byHand EXCEPT ![dst] = FALSE]
  BY DEF Rewrite, WriteFile
<1>3. /\ Seen(src, old)
      /\ dst # src => Seen(dst, None)
      /\ Content(eng.new) = Carried(old, Compile)
  BY DEF Rewrite, Sees, RunSees
<1>4. CASE byHand[src] \/ byHand[dst]
  BY <1>1, <1>2, <1>4, UnseenMaps
<1>5. CASE ~byHand[src] /\ ~byHand[dst]
  <2>1. file[src] = Content(old) /\ file[src] # None
    BY <1>1, <1>3, <1>5, ContentType DEF Seen, Same, file
  <2>2. Store!Becomes(dst, Store!Amended(file[src], Compile))
    <3>1. Store!Amended(file[src], Compile) = Content(eng.new)
      BY <1>1, <1>3, <2>1, AmendedMaps
    <3>2. file' = [file EXCEPT ![dst] = Content(eng.new)]
      BY <1>1, <1>2, WriteMaps
    <3> QED BY <1>2, <3>1, <3>2 DEF Store!Becomes, file
  <2>3. CASE dst = src
    <3>1. Store!Amend(Compile, src)
      BY <2>1, <2>2, <2>3 DEF Store!Amend, file
    <3> QED BY <1>1, <3>1 DEF Store!Next
  <2>4. CASE dst # src
    <3>1. file[dst] = None
      BY <1>1, <1>3, <1>5, <2>4 DEF Seen, Same, Content, file
    <3>2. Store!CopyTo(src, dst)
      BY <2>1, <2>2, <2>4, <3>1 DEF Store!CopyTo, file
    <3> QED BY <1>1, <3>2 DEF Store!Next
  <2> QED BY <2>3, <2>4
<1> QED BY <1>4, <1>5

LEMMA RemoveMaps ==
  ASSUME Typed, Sees, RemoveSource
  PROVE  Store!Next \/ UNCHANGED <<disk, byHand>>
<1> DEFINE src == eng.src
           dst == eng.dst
           old == eng.walk[eng.src]
<1>1. /\ src \in Paths /\ dst \in Paths /\ eng.new \in File /\ old \in File
      /\ disk \in [Paths -> File \cup {None}] /\ byHand \in [Paths -> BOOLEAN]
  BY Names DEF RemoveSource, Typed, TypeOK, EngShape, EngState
<1>2. disk' = [disk EXCEPT ![src] = None]
      /\ byHand' = [byHand EXCEPT ![src] = byHand[src] /\ disk[src] = None]
  BY DEF RemoveSource
<1>3. /\ Seen(src, old) /\ Seen(dst, eng.new) /\ dst # src
      /\ Content(eng.new) = Carried(old, Compile)
  BY DEF RemoveSource, Sees, RunSees
<1>4. CASE disk[src] = None
  BY <1>1, <1>2, <1>4
<1>5. CASE disk[src] # None
  <2>1. byHand' = [byHand EXCEPT ![src] = FALSE]
    BY <1>1, <1>2, <1>5
  <2>2. CASE byHand[src] \/ byHand[dst]
    BY <1>1, <1>2, <2>1, <2>2, UnseenMaps
  <2>3. CASE ~byHand[src] /\ ~byHand[dst]
    <3>1. file[src] = Content(old) /\ file[src] # None
      BY <1>1, <1>3, <2>3, ContentType DEF Seen, Same, file
    <3>2. file[dst] = Store!Amended(file[src], Compile)
      BY <1>1, <1>3, <2>3, <3>1, AmendedMaps DEF Seen, Same, file
    <3>3. Store!Becomes(src, None)
      BY <1>1, <1>2, <2>1, WriteMaps DEF Store!Becomes, file, Content
    <3>4. Store!RemoveCopied(src, dst)
      BY <1>3, <3>1, <3>2, <3>3 DEF Store!RemoveCopied, file
    <3> QED BY <1>1, <3>4 DEF Store!Next
  <2> QED BY <2>2, <2>3
<1> QED BY <1>4, <1>5

LEMMA HandMaps ==
  ASSUME Typed, Hand
  PROVE  Store!Next
<1>1. \A p \in Paths : byHand[p] \/ disk'[p] # disk[p] => byHand'[p]
  BY DEF Hand, HumanSave, HumanDelete, HumanRename, Typed, TypeOK
<1>2. byHand' \in [Paths -> BOOLEAN]
  BY DEF Hand, HumanSave, HumanDelete, HumanRename, Typed, TypeOK
<1>3. \A p \in Paths : file'[p] # file[p] => disk'[p] # disk[p]
  BY DEF file
<1>4. Store!ByHand
  BY <1>1, <1>2, <1>3 DEF Store!ByHand, file
<1> QED BY <1>4 DEF Store!Next

LEMMA StoreStep ==
  ASSUME Typed, Sees, [Next]_vars
  PROVE  [Store!Next]_(Store!vars)
<1>1. CASE UNCHANGED <<disk, byHand>>
  BY <1>1 DEF Store!vars
<1>2. CASE \E c \in Calls : CallStep(c)
  <2>1. PICK c \in Calls : CallStep(c)
    BY <1>2
  <2>2. CASE Put(c)
    BY <2>2, PutMaps
  <2>3. CASE ~Put(c)
    BY <1>1, <2>1, <2>3 DEF CallStep, ComposeWrite, ComposeEdit, ComposeRestore, Composed, Reject,
       Stat, IndexCall, FailCall, Release
  <2> QED BY <2>2, <2>3
<1>3. CASE StartRun \/ EngLock \/ EngStep
  <2>1. CASE Rewrite
    BY <2>1, RewriteMaps
  <2>2. CASE RemoveSource
    BY <1>1, <2>2, RemoveMaps
  <2>3. CASE ~Rewrite /\ ~RemoveSource
    BY <1>1, <1>3, <2>3 DEF StartRun, EngLock, LockFirst, LockSecond, EngStep, PassOver, DueRewrite,
       DueMove, Check, StatRewritten, IndexRewritten, FailRun, ReleaseNote, FinishRun
  <2> QED BY <2>1, <2>2, <2>3
<1>4. CASE Hand
  BY <1>4, HandMaps
<1>5. CASE Crash
  BY <1>1, <1>5 DEF Crash
<1>6. CASE \E c \in Calls : Acquire(c) \/ \E p \in Paths, op \in Ops : Begin(c, p, op)
  BY <1>1, <1>6 DEF Acquire, Begin
<1> QED BY <1>1, <1>2, <1>3, <1>4, <1>5, <1>6, WatcherFrame DEF Next, vars

(* The handlers and the compile run, with their path locks, stale checks   *)
(* and separate reads and writes, behave as if each operation took effect  *)
(* in one step; only a file a hand has changed is ever replaced unseen.    *)
THEOREM Linearizes == Spec => ImplementsStore
<1>1. Init => Store!Init
  BY DEF Init, Store!Init
<1>2. Typed /\ Sees /\ [Next]_vars => [Store!Next]_(Store!vars)
  BY StoreStep
<1> QED BY <1>1, <1>2, TypedAlways, SeesAlways, PTL DEF Spec, ImplementsStore, Store!Spec

=============================================================================
