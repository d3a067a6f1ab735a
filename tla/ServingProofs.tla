--------------------------- MODULE ServingProofs ---------------------------
(***************************************************************************)
(* Theorems about Serving for every set of processes, hosts, requests and  *)
(* tokens and every bound.                                                 *)
(***************************************************************************)
EXTENDS Serving, TLAPS

-----------------------------------------------------------------------------
(* Types.                                                                  *)

Trying == {"off", "creating", "reading", "reclaiming"}

CallStates == [st : {"idle", "running", "done"}, at : Daemons \cup {None},
               token : Tokens \cup {None}]

(* The type invariant by what the steps change together.                   *)
PlacesOK == /\ pc \in [Daemons -> Places] /\ tries \in [Daemons -> 0..2]
            /\ \A d \in Daemons : pc[d] \in Trying => tries[d] > 0
LocksOK  == pidfile \in [Hosts -> Files] /\ owner \in Daemons \cup {None}
CredsOK  == /\ seen \in [Daemons -> Tokens \cup {None, Junk}]
            /\ tokenfile \in [Hosts -> Tokens \cup {None, Junk}]
            /\ row \in [Tokens -> Rows] /\ audited \subseteq Tokens
WorkOK   == /\ unit \subseteq Daemons /\ call \in [Requests -> CallStates]
            /\ \A r \in Requests :
                 call[r].st = "running" => call[r].at # None /\ call[r].token # None
WorldOK  == /\ stopping \in [Hosts -> Daemons \cup {None}] /\ told \subseteq Daemons
            /\ budget \in Bounds
PastOK   == /\ lost \subseteq Daemons /\ late \subseteq Daemons /\ cut \subseteq Daemons
            /\ meddled \subseteq Daemons /\ orphaned \in BOOLEAN

LEMMA TypeParts == TypeOK <=> PlacesOK /\ LocksOK /\ CredsOK /\ WorkOK /\ WorldOK /\ PastOK
BY DEF TypeOK, PlacesOK, LocksOK, CredsOK, WorkOK, WorldOK, PastOK, Trying, CallStates

LEMMA TypePartsNext ==
  TypeOK' <=> PlacesOK' /\ LocksOK' /\ CredsOK' /\ WorkOK' /\ WorldOK' /\ PastOK'
BY DEF TypeOK, PlacesOK, LocksOK, CredsOK, WorkOK, WorldOK, PastOK, Trying, CallStates

(* Spending one of the counted bounds keeps them natural numbers.          *)
LEMMA SpendTyped ==
  ASSUME budget \in Bounds,
         NEW what \in {"crashes", "losses", "errors", "ops", "stops", "calls"}, Spend(what)
  PROVE  budget' \in Bounds
BY DEF Bounds, Spend

(* A process that goes to another place leaves the others where they are.  *)
LEMMA GoTyped ==
  ASSUME pc \in [Daemons -> Places], NEW d \in Daemons, NEW place \in Places, Go(d, place)
  PROVE  /\ pc' \in [Daemons -> Places]
         /\ pc'[d] = place
         /\ \A e \in Daemons \ {d} : pc'[e] = pc[e]
BY DEF Go

LEMMA GoRounds ==
  ASSUME PlacesOK, NEW d \in Daemons, NEW place \in Places, Go(d, place),
         UNCHANGED tries, place \notin Trying \/ tries[d] > 0
  PROVE  PlacesOK'
BY GoTyped DEF PlacesOK, Trying

LEMMA EndedTyped ==
  ASSUME PlacesOK, WorkOK, NEW d \in Daemons, Ended(d), UNCHANGED tries
  PROVE  PlacesOK' /\ WorkOK'
<1>1. Go(d, "gone")
  BY DEF Ended
<1>2. "gone" \in Places \ Trying
  BY DEF Places, Trying
<1>3. unit' \subseteq Daemons
  BY DEF WorkOK, Ended
<1>4. call' \in [Requests -> CallStates]
  <2>1. \A r \in Requests : call[r] \in CallStates /\ [call[r] EXCEPT !.st = "done"] \in CallStates
    BY DEF WorkOK, CallStates
  <2>. QED  BY <2>1 DEF Ended
<1>5. \A r \in Requests : call'[r].st = "running" => call'[r] = call[r]
  BY DEF Ended, WorkOK, CallStates
<1>. QED  BY <1>1, <1>2, <1>3, <1>4, <1>5, GoRounds DEF WorkOK

LEMMA InitTyped == Init => TypeOK
<1>. SUFFICES ASSUME Init PROVE TypeOK
  OBVIOUS
<1>1. PlacesOK
  BY DEF Init, Places, PlacesOK
<1>2. LocksOK
  BY DEF Init, Files, LocksOK
<1>3. CredsOK
  BY DEF Init, CredsOK, Rows
<1>4. WorkOK
  BY DEF Init, WorkOK, CallStates
<1>5. WorldOK /\ PastOK
  BY ServingAssumption DEF Init, WorldOK, PastOK
<1>. QED
  BY <1>1, <1>2, <1>3, <1>4, <1>5, TypeParts

(* The pid file and the advisory lock.                                     *)
LEMMA LockStepTyped ==
  ASSUME TypeOK, NEW d \in Daemons,
         Start(d) \/ Create(d) \/ Name(d) \/ ReadPid(d) \/ Reclaim(d) \/ Claim(d)
  PROVE  TypeOK'
<1>. Host[d] \in Hosts
  BY ServingAssumption
<1>. PlacesOK /\ LocksOK /\ CredsOK /\ WorkOK /\ WorldOK /\ PastOK
  BY TypeParts
<1>. USE DEF locks, creds, history
<1>1. CredsOK' /\ WorkOK' /\ PastOK'
  BY DEF Start, Create, Name, ReadPid, Reclaim, Claim, CredsOK, WorkOK, PastOK
<1>2. WorldOK'
  <2>1. budget' \in Bounds
    <3>1. CASE Spend("errors")
      BY <3>1, SpendTyped DEF WorldOK
    <3>2. CASE Claim(d)
      BY <3>1, <3>2 DEF Claim, WorldOK
    <3>3. CASE ~Claim(d)
      BY <3>3 DEF Start, Create, Name, ReadPid, Reclaim, WorldOK
    <3>. QED  BY <3>2, <3>3
  <2>. QED  BY <2>1 DEF Start, Create, Name, ReadPid, Reclaim, Claim, WorldOK
<1>3. LocksOK'
  <2>1. CASE Name(d)
    BY <2>1 DEF Name, LocksOK, Files
  <2>2. CASE Create(d) \/ Reclaim(d)
    <3>1. None \in Files /\ [by |-> d, named |-> FALSE] \in Files
      BY DEF Files
    <3>2. owner' = owner
      BY <2>2 DEF Create, Reclaim
    <3>3. pidfile' \in [Hosts -> Files]
      BY <2>2, <3>1 DEF Create, Reclaim, LocksOK
    <3>. QED  BY <3>2, <3>3 DEF LocksOK
  <2>3. CASE Start(d) \/ ReadPid(d) \/ Claim(d)
    BY <2>3 DEF Start, ReadPid, Claim, LocksOK
  <2>. QED  BY <2>1, <2>2, <2>3
<1>4. PlacesOK'
  <2>1. CASE Start(d) \/ Create(d) \/ ReadPid(d)
    <3>1. tries[d] > 0 /\ {"creating", "naming", "reading", "gone", "reclaiming"} \subseteq Places
      BY <2>1 DEF Places, Start, Create, ReadPid, PlacesOK, Trying
    <3>. QED  BY <2>1, <3>1, GoRounds DEF Start, Create, ReadPid
  <2>2. CASE Name(d) \/ Claim(d)
    <3>1. {"claiming", "booting", "releasing"} \subseteq Places \ Trying
      BY DEF Places, Trying, Booting, Exiting
    <3>. QED  BY <2>2, <3>1, GoRounds DEF Name, Claim
  <2>3. CASE Reclaim(d)
    <3>1. tries[d] > 0 /\ {"gone", "creating"} \subseteq Places
      BY <2>3 DEF Places, Reclaim, PlacesOK, Trying
    <3>2. tries' \in [Daemons -> 0..2] /\ tries'[d] = tries[d] - 1
          /\ \A e \in Daemons \ {d} : tries'[e] = tries[e]
      BY <2>3, <3>1 DEF Reclaim, PlacesOK
    <3>3. /\ pc' \in [Daemons -> Places]
          /\ pc'[d] = IF tries[d] = 1 THEN "gone" ELSE "creating"
          /\ \A e \in Daemons \ {d} : pc'[e] = pc[e]
      BY <2>3, <3>1, GoTyped DEF Reclaim, PlacesOK
    <3>. QED  BY <3>1, <3>2, <3>3 DEF PlacesOK, Trying
  <2>. QED  BY <2>1, <2>2, <2>3
<1>. QED
  BY <1>1, <1>2, <1>3, <1>4, TypePartsNext

(* From the probe of the provider to serving.                              *)
LEMMA BootStepTyped ==
  ASSUME TypeOK, NEW d \in Daemons,
         \/ Boot(d) \/ LookForToken(d) \/ ResolveToken(d) \/ WriteToken(d) \/ RegisterToken(d)
         \/ Wire(d)
  PROVE  TypeOK'
<1>. Host[d] \in Hosts
  BY ServingAssumption
<1>. PlacesOK /\ LocksOK /\ CredsOK /\ WorkOK /\ WorldOK /\ PastOK
  BY TypeParts
<1>. USE DEF locks, creds, history
<1>1. LocksOK' /\ WorkOK'
  BY DEF Boot, LookForToken, ResolveToken, WriteToken, RegisterToken, Wire, LocksOK, WorkOK
<1>2. WorldOK'
  <2>1. budget' \in Bounds
    <3>1. CASE Spend("errors")
      BY <3>1, SpendTyped DEF WorldOK
    <3>. QED
      BY <3>1 DEF Boot, LookForToken, ResolveToken, WriteToken, RegisterToken, Wire, WorldOK
  <2>. QED
    BY <2>1 DEF Boot, LookForToken, ResolveToken, WriteToken, RegisterToken, Wire, WorldOK
<1>3. PastOK'
  BY DEF Boot, LookForToken, ResolveToken, WriteToken, RegisterToken, Wire, PastOK
<1>4. PlacesOK'
  <2>1. {"looking", "unlocking", "resolving", "wiring", "minting", "registering", "serving"}
          \subseteq Places \ Trying
    BY DEF Places, Booting, Exiting, Trying
  <2>. QED
    BY <2>1, GoRounds
    DEF Boot, LookForToken, ResolveToken, WriteToken, RegisterToken, Wire
<1>5. CredsOK'
  <2>1. CASE Boot(d) \/ ResolveToken(d) \/ Wire(d)
    BY <2>1 DEF Boot, ResolveToken, Wire, CredsOK
  <2>2. CASE LookForToken(d)
    BY <2>2 DEF LookForToken, CredsOK
  <2>3. CASE WriteToken(d)
    BY <2>3 DEF WriteToken, CredsOK, Rows
  <2>4. CASE RegisterToken(d)
    BY <2>4 DEF RegisterToken, CredsOK, Rows
  <2>. QED  BY <2>1, <2>2, <2>3, <2>4
<1>. QED
  BY <1>1, <1>2, <1>3, <1>4, <1>5, TypePartsNext

(* Units of work, calls, and the connection of the lock.                   *)
LEMMA WorkStepTyped ==
  ASSUME TypeOK, NEW d \in Daemons,
         \/ StartUnit(d) \/ FinishUnit(d) \/ LoseConnection(d)
         \/ \E r \in Requests, t \in Tokens : Arrive(r, d, t)
  PROVE  TypeOK'
<1>. PlacesOK /\ LocksOK /\ CredsOK /\ WorkOK /\ WorldOK /\ PastOK
  BY TypeParts
<1>. USE DEF locks, creds, history
<1>1. PlacesOK' /\ CredsOK' /\ LocksOK' /\ PastOK'
  BY DEF StartUnit, FinishUnit, LoseConnection, Arrive, PlacesOK, CredsOK, LocksOK, PastOK
<1>2. WorldOK'
  <2>1. budget' \in Bounds
    <3>1. CASE Spend("losses") \/ Spend("calls")
      BY <3>1, SpendTyped DEF WorldOK
    <3>. QED  BY <3>1 DEF StartUnit, FinishUnit, LoseConnection, Arrive, WorldOK
  <2>. QED  BY <2>1 DEF StartUnit, FinishUnit, LoseConnection, Arrive, WorldOK
<1>3. WorkOK'
  <2>1. CASE StartUnit(d) \/ FinishUnit(d) \/ LoseConnection(d)
    BY <2>1 DEF StartUnit, FinishUnit, LoseConnection, WorkOK
  <2>2. ASSUME NEW r \in Requests, NEW t \in Tokens, Arrive(r, d, t)
        PROVE  WorkOK'
    BY <2>2, ServingAssumption DEF Arrive, WorkOK, CallStates
  <2>. QED  BY <2>1, <2>2
<1>. QED
  BY <1>1, <1>2, <1>3, TypePartsNext

(* The way out, orderly or not.                                            *)
LEMMA ExitStepTyped ==
  ASSUME TypeOK, NEW d \in Daemons,
         \/ Drain(d) \/ FailRunner(d) \/ Drained(d) \/ GiveUpDraining(d) \/ Unlock(d)
         \/ Release(d) \/ Exit(d) \/ Crash(d)
  PROVE  TypeOK'
<1>. Host[d] \in Hosts
  BY ServingAssumption
<1>. PlacesOK /\ LocksOK /\ CredsOK /\ WorkOK /\ WorldOK /\ PastOK
  BY TypeParts
<1>. USE DEF locks, creds, history
<1>1. PlacesOK' /\ WorkOK'
  <2>1. CASE Exit(d) \/ Crash(d)
    BY <2>1, EndedTyped DEF Exit, Crash
  <2>2. CASE ~(Exit(d) \/ Crash(d))
    <3>1. {"draining", "unlocking", "releasing", "closing"} \subseteq Places \ Trying
      BY DEF Places, Exiting, Trying
    <3>2. PlacesOK'
      BY <2>2, <3>1, GoRounds DEF Drain, FailRunner, Drained, GiveUpDraining, Unlock, Release
    <3>3. WorkOK'
      BY <2>2 DEF Drain, FailRunner, Drained, GiveUpDraining, Unlock, Release, WorkOK
    <3>. QED  BY <3>2, <3>3
  <2>. QED  BY <2>1, <2>2
<1>2. LocksOK'
  BY DEF Drain, FailRunner, Drained, GiveUpDraining, Unlock, Release, Exit, Crash, LocksOK, Files
<1>3. CredsOK'
  BY DEF Drain, FailRunner, Drained, GiveUpDraining, Unlock, Release, Exit, Crash, CredsOK
<1>4. WorldOK'
  <2>1. budget' \in Bounds
    <3>1. CASE Spend("errors") \/ Spend("crashes")
      BY <3>1, SpendTyped DEF WorldOK
    <3>. QED
      BY <3>1 DEF Drain, FailRunner, Drained, GiveUpDraining, Unlock, Release, Exit, Crash, WorldOK
  <2>. QED
    BY <2>1 DEF Drain, FailRunner, Drained, GiveUpDraining, Unlock, Release, Exit, Crash, WorldOK
<1>5. PastOK'
  BY DEF Drain, FailRunner, Drained, GiveUpDraining, Unlock, Release, Exit, Crash, PastOK
<1>. QED
  BY <1>1, <1>2, <1>3, <1>4, <1>5, TypePartsNext

(* Answers, `stop`, and the operator's hands in the credentials.           *)
LEMMA OutsideStepTyped ==
  ASSUME TypeOK,
         \/ \E r \in Requests : Answer(r)
         \/ \E h \in Hosts : Stop(h) \/ RemoveStale(h) \/ Forget(h)
         \/ Revoke \/ Prune \/ Rebuild
  PROVE  TypeOK'
<1>. PlacesOK /\ LocksOK /\ CredsOK /\ WorkOK /\ WorldOK /\ PastOK
  BY TypeParts
<1>. USE DEF locks, creds, history
<1>1. ASSUME NEW r \in Requests, Answer(r)
      PROVE  TypeOK'
  <2>1. WorkOK'
    BY <1>1 DEF Answer, WorkOK, CallStates
  <2>2. CredsOK'
    <3>1. call[r].token \in Tokens
      BY <1>1 DEF Answer, WorkOK, CallStates
    <3>. QED  BY <1>1, <3>1 DEF Answer, CredsOK
  <2>3. PlacesOK' /\ LocksOK' /\ WorldOK' /\ PastOK'
    BY <1>1 DEF Answer, PlacesOK, LocksOK, WorldOK, PastOK
  <2>. QED  BY <2>1, <2>2, <2>3, TypePartsNext
<1>2. ASSUME NEW h \in Hosts, Stop(h) \/ RemoveStale(h) \/ Forget(h)
      PROVE  TypeOK'
  <2>1. budget' \in Bounds
    <3>1. CASE Spend("stops") \/ Spend("ops")
      BY <3>1, SpendTyped DEF WorldOK
    <3>. QED  BY <1>2, <3>1 DEF Stop, RemoveStale, Forget, WorldOK
  <2>2. WorldOK'
    BY <1>2, <2>1 DEF Stop, RemoveStale, Forget, WorldOK, LocksOK, Files
  <2>3. PlacesOK' /\ WorkOK' /\ CredsOK' /\ PastOK'
    BY <1>2 DEF Stop, RemoveStale, Forget, PlacesOK, WorkOK, CredsOK, PastOK, Committed
  <2>4. LocksOK'
    BY <1>2 DEF Stop, RemoveStale, Forget, LocksOK, Files
  <2>. QED  BY <2>2, <2>3, <2>4, TypePartsNext
<1>3. CASE Revoke \/ Prune \/ Rebuild
  <2>1. WorldOK'
    <3>1. Spend("ops")
      BY <1>3 DEF Revoke, Prune, Rebuild
    <3>. QED  BY <1>3, <3>1, SpendTyped DEF Revoke, Prune, Rebuild, WorldOK
  <2>2. CredsOK'
    BY <1>3 DEF Revoke, Prune, Rebuild, CredsOK, Rows
  <2>3. PlacesOK' /\ LocksOK' /\ WorkOK' /\ PastOK'
    BY <1>3 DEF Revoke, Prune, Rebuild, PlacesOK, LocksOK, WorkOK, PastOK, Committed
  <2>. QED  BY <2>1, <2>2, <2>3, TypePartsNext
<1>. QED  BY <1>1, <1>2, <1>3

LEMMA StepTyped == TypeOK /\ [Next]_vars => TypeOK'
<1>. SUFFICES ASSUME TypeOK, [Next]_vars PROVE TypeOK'
  OBVIOUS
<1>1. CASE UNCHANGED vars
  BY <1>1 DEF TypeOK, vars, locks, creds, history
<1>2. CASE Next
  BY <1>2, LockStepTyped, BootStepTyped, WorkStepTyped, ExitStepTyped, OutsideStepTyped
  DEF Next, Step
<1>. QED  BY <1>1, <1>2

(* Type correctness, and that no process goes a third round for the pid    *)
(* file (lock.go, AcquireLock).                                            *)
THEOREM TypeCorrect == Spec => []TypeOK
BY InitTyped, StepTyped, PTL DEF Spec

-----------------------------------------------------------------------------
(* The advisory lock.                                                      *)

(* Where a process touches the vault.                                      *)
Working == Booting \cup {"serving", "draining"}

(* A process at work holds the advisory lock, or has had it taken away.    *)
Holding ==
  \A d \in Daemons : pc[d] \in Working => owner = d \/ d \in lost

(* What is in flight belongs to a process that is serving or draining, or  *)
(* that has given up on it.                                                *)
Busy ==
  \A d \in Daemons :
    /\ d \in unit => pc[d] \in {"serving", "draining"} \/ d \in late
    /\ CallsAt(d) # {} => pc[d] \in {"serving", "draining"} \/ d \in cut \cup late

LEMMA HoldingInit == Init => Holding /\ Busy
BY DEF Init, Holding, Busy, CallsAt, Working, Booting

(* As long as no connection drops, one process is at work.                 *)
LEMMA Solo ==
  ASSUME Holding, lost = {}, NEW d \in Daemons, NEW e \in Daemons,
         pc[d] \in Working, pc[e] \in Working
  PROVE  d = e
BY DEF Holding

(* A step that moves one process, and takes or frees its own lock only.    *)
LEMMA HoldingGo ==
  ASSUME TypeOK, Holding, NEW d \in Daemons, NEW place \in Places, Go(d, place),
         lost' = lost, owner' = owner \/ owner \in {d, None},
         place \in Working => owner' = d \/ d \in lost
  PROVE  Holding'
<1>1. SUFFICES ASSUME NEW e \in Daemons, pc'[e] \in Working
               PROVE  owner' = e \/ e \in lost'
  BY DEF Holding
<1>2. pc'[d] = place /\ (e # d => pc'[e] = pc[e])
  BY GoTyped DEF TypeOK
<1>. QED  BY <1>1, <1>2, ServingAssumption DEF Holding

LEMMA HoldingStep ==
  ASSUME TypeOK, Holding, [Next]_vars
  PROVE  Holding'
<1>. USE DEF locks, creds, history
<1>1. ASSUME NEW d \in Daemons, Start(d) \/ Create(d) \/ Name(d) \/ ReadPid(d) \/ Reclaim(d)
      PROVE  Holding'
  <2>1. {"creating", "reading", "naming", "claiming", "gone", "reclaiming"} \subseteq Places \ Working
    BY DEF Places, Working, Booting
  <2>. QED  BY <1>1, <2>1, HoldingGo DEF Start, Create, Name, ReadPid, Reclaim
<1>2. ASSUME NEW d \in Daemons, Claim(d)
      PROVE  Holding'
  <2>1. {"booting", "releasing"} \subseteq Places /\ "releasing" \notin Working
    BY DEF Places, Working, Booting, Exiting
  <2>. QED  BY <1>2, <2>1, HoldingGo DEF Claim
<1>3. ASSUME NEW d \in Daemons,
             \/ Boot(d) \/ LookForToken(d) \/ ResolveToken(d) \/ WriteToken(d)
             \/ RegisterToken(d) \/ Wire(d)
      PROVE  Holding'
  <2>1. {"looking", "unlocking", "resolving", "wiring", "minting", "registering", "serving"}
          \subseteq Places
    BY DEF Places, Booting, Exiting
  <2>2. pc[d] \in Working
    BY <1>3
    DEF Working, Booting, Boot, LookForToken, ResolveToken, WriteToken, RegisterToken, Wire
  <2>3. owner = d \/ d \in lost
    BY <2>2 DEF Holding
  <2>. QED
    BY <1>3, <2>1, <2>3, HoldingGo
    DEF Boot, LookForToken, ResolveToken, WriteToken, RegisterToken, Wire
<1>4. ASSUME NEW d \in Daemons, Drain(d) \/ FailRunner(d)
      PROVE  Holding'
  <2>1. "draining" \in Places /\ (owner = d \/ d \in lost)
    BY <1>4 DEF Places, Holding, Working, Drain, FailRunner
  <2>. QED  BY <1>4, <2>1, HoldingGo DEF Drain, FailRunner
<1>5. ASSUME NEW d \in Daemons,
             \/ Drained(d) \/ GiveUpDraining(d) \/ Unlock(d) \/ Release(d) \/ Exit(d) \/ Crash(d)
      PROVE  Holding'
  <2>1. {"unlocking", "releasing", "closing", "gone"} \subseteq Places \ Working
    BY DEF Places, Working, Booting, Exiting
  <2>. QED
    BY <1>5, <2>1, HoldingGo
    DEF Drained, GiveUpDraining, Unlock, Release, Exit, Crash, Ended
<1>6. ASSUME NEW d \in Daemons, LoseConnection(d)
      PROVE  Holding'
  BY <1>6 DEF LoseConnection, Holding
<1>7. CASE \/ UNCHANGED vars
           \/ \E d \in Daemons : \/ StartUnit(d) \/ FinishUnit(d)
                                 \/ \E r \in Requests, t \in Tokens : Arrive(r, d, t)
           \/ \E r \in Requests : Answer(r)
           \/ \E h \in Hosts : Stop(h) \/ RemoveStale(h) \/ Forget(h)
           \/ Revoke \/ Prune \/ Rebuild
  <2>1. UNCHANGED <<pc, owner, lost>>
    BY <1>7
    DEF vars, StartUnit, FinishUnit, Arrive, Answer, Stop, RemoveStale, Forget, Revoke, Prune, Rebuild
  <2>. QED  BY <2>1 DEF Holding
<1>. QED
  BY <1>1, <1>2, <1>3, <1>4, <1>5, <1>6, <1>7 DEF Next, Step

(* A step that moves a process neither from nor to where work is done, and *)
(* touches no work.                                                        *)
LEMMA BusyGo ==
  ASSUME TypeOK, Busy, NEW d \in Daemons, NEW place \in Places, Go(d, place),
         UNCHANGED <<unit, call, late, cut>>,
         pc[d] \in {"serving", "draining"} => place \in {"serving", "draining"}
  PROVE  Busy'
<1>1. /\ pc'[d] = place
      /\ \A e \in Daemons \ {d} : pc'[e] = pc[e]
  BY GoTyped DEF TypeOK
<1>. QED  BY <1>1 DEF Busy, CallsAt

LEMMA BusyStep ==
  ASSUME TypeOK, Busy, [Next]_vars
  PROVE  Busy'
<1>. USE DEF locks, creds, history
<1>1. ASSUME NEW d \in Daemons,
             \/ Start(d) \/ Create(d) \/ Name(d) \/ ReadPid(d) \/ Reclaim(d) \/ Claim(d)
             \/ Unlock(d) \/ Release(d) \/ Drain(d) \/ FailRunner(d)
      PROVE  Busy'
  <2>1. {"creating", "reading", "naming", "claiming", "gone", "reclaiming", "booting", "releasing",
         "closing", "draining"} \subseteq Places
    BY DEF Places, Booting, Exiting
  <2>. QED
    BY <1>1, <2>1, BusyGo
    DEF Start, Create, Name, ReadPid, Reclaim, Claim, Unlock, Release, Drain, FailRunner
<1>2. ASSUME NEW d \in Daemons,
             \/ Boot(d) \/ LookForToken(d) \/ ResolveToken(d) \/ WriteToken(d)
             \/ RegisterToken(d) \/ Wire(d)
      PROVE  Busy'
  <2>1. {"looking", "unlocking", "resolving", "wiring", "minting", "registering", "serving"}
          \subseteq Places
    BY DEF Places, Booting, Exiting
  <2>. QED
    BY <1>2, <2>1, BusyGo
    DEF Boot, LookForToken, ResolveToken, WriteToken, RegisterToken, Wire
<1>3. ASSUME NEW d \in Daemons, Drained(d) \/ GiveUpDraining(d)
      PROVE  Busy'
  <2>1. /\ pc'[d] = "unlocking" /\ UNCHANGED <<unit, call>>
        /\ \A e \in Daemons \ {d} : pc'[e] = pc[e]
    BY <1>3, GoTyped DEF TypeOK, Places, Exiting, Drained, GiveUpDraining
  <2>2. CASE Drained(d)
    BY <2>1, <2>2 DEF Drained, Busy, CallsAt
  <2>3. CASE GiveUpDraining(d)
    BY <2>1, <2>3 DEF GiveUpDraining, Busy, CallsAt
  <2>. QED  BY <1>3, <2>2, <2>3
<1>4. ASSUME NEW d \in Daemons, Exit(d) \/ Crash(d)
      PROVE  Busy'
  <2>1. Ended(d) /\ UNCHANGED <<late, cut>>
    BY <1>4 DEF Exit, Crash
  <2>2. \A e \in Daemons \ {d} : pc'[e] = pc[e]
    BY <2>1, GoTyped DEF TypeOK, Ended, Places
  <2>3. \A e \in Daemons : CallsAt(e)' = IF e = d THEN {} ELSE CallsAt(e)
    BY <2>1 DEF Ended, CallsAt, TypeOK
  <2>4. unit' = unit \ {d}
    BY <2>1 DEF Ended
  <2>. QED  BY <2>1, <2>2, <2>3, <2>4 DEF Busy
<1>5. ASSUME NEW d \in Daemons, StartUnit(d) \/ FinishUnit(d)
      PROVE  Busy'
  BY <1>5 DEF StartUnit, FinishUnit, Busy, CallsAt
<1>6. ASSUME NEW d \in Daemons, NEW r \in Requests, NEW t \in Tokens, Arrive(r, d, t)
      PROVE  Busy'
  <2>1. \A e \in Daemons : CallsAt(e)' \subseteq IF e = d THEN CallsAt(e) \cup {r} ELSE CallsAt(e)
    BY <1>6 DEF Arrive, CallsAt, TypeOK
  <2>. QED  BY <1>6, <2>1 DEF Arrive, Busy
<1>7. ASSUME NEW r \in Requests, Answer(r)
      PROVE  Busy'
  <2>1. \A e \in Daemons : CallsAt(e)' \subseteq CallsAt(e)
    BY <1>7 DEF Answer, CallsAt, TypeOK
  <2>. QED  BY <1>7, <2>1 DEF Answer, Busy
<1>8. CASE \/ UNCHANGED vars
           \/ \E d \in Daemons : LoseConnection(d)
           \/ \E h \in Hosts : Stop(h) \/ RemoveStale(h) \/ Forget(h)
           \/ Revoke \/ Prune \/ Rebuild
  <2>1. UNCHANGED <<pc, unit, call, late, cut>>
    BY <1>8 DEF vars, LoseConnection, Stop, RemoveStale, Forget, Revoke, Prune, Rebuild
  <2>. QED  BY <2>1 DEF Busy, CallsAt
<1>. QED
  BY <1>1, <1>2, <1>3, <1>4, <1>5, <1>6, <1>7, <1>8 DEF Next, Step

(* A process reconciles, indexes and answers calls under the advisory lock *)
(* only, except as the code itself allows (daemon.go, Run: the drain comes *)
(* before the unlock).                                                     *)
THEOREM VaultUnderLock == Spec => []WorkUnderLock
<1>1. TypeOK /\ Holding /\ Busy /\ [Next]_vars => (Holding /\ Busy)'
  BY HoldingStep, BusyStep
<1>2. Holding /\ Busy => WorkUnderLock
  BY DEF Holding, Busy, WorkUnderLock, Working
<1>. QED  BY <1>1, <1>2, HoldingInit, TypeCorrect, PTL DEF Spec

-----------------------------------------------------------------------------
(* The local token.                                                        *)

Current(d) == seen[d] = tokenfile[Host[d]]

(* As long as one process is at work: what it read or wrote last is in its *)
(* token file, what it is about to register was minted for it, what it is  *)
(* about to overwrite does not authenticate, and what it serves with does; *)
(* all but the second unless an operator has interfered.                   *)
Provisioned ==
  lost = {} =>
    \A d \in Daemons :
      /\ pc[d] \in {"resolving", "registering"} /\ ~(d \in meddled /\ orphaned) => Current(d)
      /\ pc[d] = "registering" => seen[d] \in Tokens /\ row[seen[d]] = "minted"
      /\ pc[d] = "minting" /\ ~orphaned => RowOf(tokenfile[Host[d]]) # "live"
      /\ pc[d] \in {"wiring", "serving"} /\ d \notin meddled => RowOf(tokenfile[Host[d]]) = "live"

LEMMA ProvisionedInit == Init => Provisioned /\ LiveTokenIsHeld
BY DEF Init, Provisioned, LiveTokenIsHeld

(* A step that touches no credentials, and takes a process nowhere or to   *)
(* where its token is not in question.                                     *)
LEMMA ProvisionedApart ==
  ASSUME Provisioned, UNCHANGED <<creds, meddled, orphaned>>, lost \subseteq lost',
         \A e \in Daemons :
           pc'[e] = pc[e] \/ pc'[e] \notin {"resolving", "minting", "registering", "wiring", "serving"}
  PROVE  Provisioned'
BY DEF Provisioned, Current, RowOf, creds

(* When one process changes the credentials at work, no other is.          *)
LEMMA OthersAway ==
  ASSUME Holding, lost = {}, NEW d \in Daemons, pc[d] \in Working
  PROVE  \A e \in Daemons \ {d} :
           pc[e] \notin {"resolving", "minting", "registering", "wiring", "serving"}
BY Solo DEF Working, Booting

LEMMA ProvisionedStep ==
  ASSUME TypeOK, Holding, Provisioned, [Next]_vars
  PROVE  Provisioned'
<1>. USE DEF locks, creds, history
<1>1. CASE \/ UNCHANGED vars
           \/ \E d \in Daemons : \/ StartUnit(d) \/ FinishUnit(d) \/ LoseConnection(d)
                                 \/ \E r \in Requests, t \in Tokens : Arrive(r, d, t)
           \/ \E h \in Hosts : Stop(h) \/ RemoveStale(h)
  <2>1. UNCHANGED <<pc, creds, meddled, orphaned>> /\ lost \subseteq lost'
    BY <1>1 DEF vars, StartUnit, FinishUnit, LoseConnection, Arrive, Stop, RemoveStale
  <2>. QED  BY <2>1, ProvisionedApart
<1>2. ASSUME NEW r \in Requests, Answer(r)
      PROVE  Provisioned'
  <2>1. UNCHANGED <<pc, seen, tokenfile, row, meddled, orphaned, lost>>
    BY <1>2 DEF Answer
  <2>. QED  BY <2>1 DEF Provisioned, Current, RowOf
<1>3. ASSUME NEW d \in Daemons,
             \/ Start(d) \/ Create(d) \/ Name(d) \/ ReadPid(d) \/ Reclaim(d) \/ Claim(d)
             \/ Boot(d) \/ Drain(d) \/ FailRunner(d) \/ Drained(d) \/ GiveUpDraining(d)
             \/ Unlock(d) \/ Release(d) \/ Exit(d)
      PROVE  Provisioned'
  <2>1. /\ UNCHANGED <<creds, meddled, orphaned, lost>>
        /\ \E place \in {"creating", "naming", "reading", "claiming", "gone", "reclaiming",
                         "booting", "looking", "unlocking", "draining", "releasing", "closing"} :
             Go(d, place)
    BY <1>3
    DEF Start, Create, Name, ReadPid, Reclaim, Claim, Boot, Drain, FailRunner, Drained,
        GiveUpDraining, Unlock, Release, Exit, Ended
  <2>2. \A e \in Daemons :
          pc'[e] = pc[e] \/ pc'[e] \notin {"resolving", "minting", "registering", "wiring", "serving"}
    BY <2>1, GoTyped DEF TypeOK, Places, Booting, Exiting
  <2>. QED  BY <2>1, <2>2, ProvisionedApart
<1>4. ASSUME NEW d \in Daemons, LookForToken(d)
      PROVE  Provisioned'
  <2>1. /\ pc'[d] = "resolving" /\ \A e \in Daemons \ {d} : pc'[e] = pc[e]
        /\ UNCHANGED <<tokenfile, row, meddled, orphaned, lost>>
        /\ seen'[d] = tokenfile[Host[d]] /\ \A e \in Daemons \ {d} : seen'[e] = seen[e]
    BY <1>4 DEF LookForToken, Go, TypeOK
  <2>. QED  BY <2>1 DEF Provisioned, Current, RowOf
<1>5. ASSUME NEW d \in Daemons, ResolveToken(d)
      PROVE  Provisioned'
  <2>1. /\ \A e \in Daemons \ {d} : pc'[e] = pc[e]
        /\ UNCHANGED <<seen, tokenfile, row, meddled, orphaned, lost>>
        /\ pc[d] = "resolving"
        /\ \/ RowOf(seen[d]) = "live" /\ pc'[d] = "wiring"
           \/ RowOf(seen[d]) # "live" /\ pc'[d] = "minting"
           \/ pc'[d] = "unlocking"
    BY <1>5 DEF ResolveToken, Go, TypeOK
  <2>. QED  BY <2>1 DEF Provisioned, Current, RowOf
<1>6. ASSUME NEW d \in Daemons, WriteToken(d)
      PROVE  Provisioned'
  <2>1. SUFFICES ASSUME lost = {}
                 PROVE  Provisioned'
    BY <1>6 DEF WriteToken, Provisioned
  <2>2. PICK t \in Tokens : /\ row' = [row EXCEPT ![t] = "minted"]
                            /\ seen' = [seen EXCEPT ![d] = t]
                            /\ tokenfile' = [tokenfile EXCEPT ![Host[d]] = t]
    BY <1>6 DEF WriteToken
  <2>3. pc'[d] = "registering" /\ \A e \in Daemons \ {d} : pc'[e] = pc[e]
    BY <1>6 DEF WriteToken, Go, TypeOK
  <2>4. \A e \in Daemons \ {d} :
          pc'[e] \notin {"resolving", "minting", "registering", "wiring", "serving"}
    BY <1>6, <2>1, <2>3, OthersAway DEF WriteToken, Working, Booting
  <2>5. seen'[d] = t /\ tokenfile'[Host[d]] = t /\ row'[t] = "minted"
    BY <2>2, ServingAssumption DEF TypeOK
  <2>. QED  BY <2>3, <2>4, <2>5 DEF Provisioned, Current
<1>7. ASSUME NEW d \in Daemons, RegisterToken(d)
      PROVE  Provisioned'
  <2>1. SUFFICES ASSUME lost = {}
                 PROVE  Provisioned'
    BY <1>7 DEF RegisterToken, Provisioned
  <2>2. \A e \in Daemons \ {d} :
          pc'[e] \notin {"resolving", "minting", "registering", "wiring", "serving"}
    BY <1>7, <2>1, OthersAway DEF RegisterToken, Go, TypeOK, Working, Booting
  <2>3. \/ pc'[d] = "unlocking"
        \/ /\ pc'[d] = "wiring" /\ row' = [row EXCEPT ![seen[d]] = "live"]
           /\ UNCHANGED <<seen, tokenfile, meddled, orphaned>>
    BY <1>7 DEF RegisterToken, Go, TypeOK
  <2>4. /\ seen[d] \in Tokens
        /\ ~(d \in meddled /\ orphaned) => seen[d] = tokenfile[Host[d]]
    BY <1>7, <2>1 DEF RegisterToken, Provisioned, Current
  <2>. QED  BY <2>2, <2>3, <2>4 DEF Provisioned, RowOf, TypeOK
<1>8. ASSUME NEW d \in Daemons, Wire(d)
      PROVE  Provisioned'
  <2>1. /\ pc[d] = "wiring" /\ pc'[d] \in {"serving", "unlocking"}
        /\ \A e \in Daemons \ {d} : pc'[e] = pc[e]
        /\ UNCHANGED <<seen, tokenfile, row, meddled, orphaned, lost>>
    BY <1>8 DEF Wire, Go, TypeOK
  <2>. QED  BY <2>1 DEF Provisioned, Current, RowOf
<1>9. ASSUME NEW d \in Daemons, Crash(d)
      PROVE  Provisioned'
  <2>1. /\ pc'[d] = "gone" /\ \A e \in Daemons \ {d} : pc'[e] = pc[e]
        /\ UNCHANGED <<seen, row, audited, meddled, orphaned, lost>>
    BY <1>9 DEF Crash, Ended, Go, TypeOK
  <2>2. CASE UNCHANGED tokenfile
    BY <2>1, <2>2, ProvisionedApart
  <2>3. CASE pc[d] = "minting"
    <3>1. lost = {} => \A e \in Daemons :
            pc'[e] \notin {"resolving", "minting", "registering", "wiring", "serving"}
      BY <2>1, <2>3, OthersAway DEF Working, Booting
    <3>. QED  BY <2>1, <3>1 DEF Provisioned
  <2>. QED  BY <1>9, <2>2, <2>3 DEF Crash
<1>10. CASE Revoke
  <2>1. /\ UNCHANGED <<pc, seen, tokenfile, orphaned, lost>> /\ meddled' = meddled \cup Committed
        /\ \A t \in Tokens : row'[t] = IF row[t] = "live" THEN "revoked" ELSE row[t]
    BY <1>10 DEF Revoke
  <2>. QED  BY <2>1 DEF Provisioned, Current, RowOf, Committed
<1>11. CASE Prune
  <2>1. /\ UNCHANGED <<pc, seen, tokenfile, orphaned, lost, meddled>>
        /\ \A t \in Tokens : row'[t] = row[t] \/ (row[t] = "revoked" /\ row'[t] = "dropped")
    BY <1>11 DEF Prune, Prunable
  <2>. QED  BY <2>1 DEF Provisioned, Current, RowOf
<1>12. ASSUME NEW h \in Hosts, Forget(h)
       PROVE  Provisioned'
  <2>1. /\ UNCHANGED <<pc, seen, row, lost>> /\ meddled' = meddled \cup Committed
        /\ orphaned' = TRUE
    BY <1>12 DEF Forget
  <2>. QED  BY <2>1 DEF Provisioned, Committed
<1>13. CASE Rebuild
  <2>1. \A d \in Daemons : pc'[d] \in {"off", "gone"}
    BY <1>13 DEF Rebuild, Alive
  <2>. QED  BY <2>1 DEF Provisioned
<1>. QED
  BY <1>1, <1>2, <1>3, <1>4, <1>5, <1>6, <1>7, <1>8, <1>9, <1>10, <1>11, <1>12, <1>13
  DEF Next, Step

(* A token file that is overwritten or removed at Host[d] holds no live    *)
(* token, so the file of every live token is another one's.                *)
LEMMA HeldElsewhere ==
  ASSUME LiveTokenIsHeld, ~orphaned, lost = {}, NEW d \in Daemons,
         RowOf(tokenfile[Host[d]]) # "live", NEW t \in Tokens, row[t] = "live",
         \A h \in Hosts : h # Host[d] => tokenfile'[h] = tokenfile[h]
  PROVE  \E h \in Hosts : tokenfile'[h] = t
BY DEF LiveTokenIsHeld, RowOf

LEMMA LiveTokenIsHeldStep ==
  ASSUME TypeOK, Holding, Provisioned, LiveTokenIsHeld, [Next]_vars
  PROVE  LiveTokenIsHeld'
<1>. USE DEF locks, creds, history
<1>. SUFFICES ASSUME NEW t \in Tokens, row'[t] = "live", ~orphaned', lost' = {}
              PROVE  \E h \in Hosts : tokenfile'[h] = t
  BY DEF LiveTokenIsHeld
<1>1. CASE UNCHANGED <<row, tokenfile, orphaned>> /\ lost \subseteq lost'
  BY <1>1 DEF LiveTokenIsHeld
<1>2. CASE \/ UNCHANGED vars
           \/ \E d \in Daemons : \/ StartUnit(d) \/ FinishUnit(d) \/ LoseConnection(d)
                                 \/ \E r \in Requests, u \in Tokens : Arrive(r, d, u)
           \/ \E h \in Hosts : Stop(h) \/ RemoveStale(h)
           \/ \E r \in Requests : Answer(r)
  <2>1. UNCHANGED <<row, tokenfile, orphaned>> /\ lost \subseteq lost'
    BY <1>2 DEF vars, StartUnit, FinishUnit, LoseConnection, Arrive, Stop, RemoveStale, Answer
  <2>. QED  BY <2>1, <1>1
<1>3. ASSUME NEW d \in Daemons,
             \/ Start(d) \/ Create(d) \/ Name(d) \/ ReadPid(d) \/ Reclaim(d) \/ Claim(d)
             \/ Boot(d) \/ LookForToken(d) \/ ResolveToken(d) \/ Wire(d) \/ Drain(d)
             \/ FailRunner(d) \/ Drained(d) \/ GiveUpDraining(d) \/ Unlock(d) \/ Release(d) \/ Exit(d)
      PROVE  \E h \in Hosts : tokenfile'[h] = t
  <2>1. UNCHANGED <<row, tokenfile, orphaned, lost>>
    BY <1>3
    DEF Start, Create, Name, ReadPid, Reclaim, Claim, Boot, LookForToken, ResolveToken, Wire,
        Drain, FailRunner, Drained, GiveUpDraining, Unlock, Release, Exit
  <2>. QED  BY <2>1, <1>1
<1>4. ASSUME NEW d \in Daemons, WriteToken(d)
      PROVE  \E h \in Hosts : tokenfile'[h] = t
  <2>1. PICK u \in Tokens : /\ row' = [row EXCEPT ![u] = "minted"]
                            /\ tokenfile' = [tokenfile EXCEPT ![Host[d]] = u]
    BY <1>4 DEF WriteToken
  <2>2. pc[d] = "minting" /\ UNCHANGED <<orphaned, lost>>
    BY <1>4 DEF WriteToken
  <2>3. RowOf(tokenfile[Host[d]]) # "live"
    BY <2>2 DEF Provisioned
  <2>4. row[t] = "live" /\ \A h \in Hosts : h # Host[d] => tokenfile'[h] = tokenfile[h]
    BY <2>1 DEF TypeOK
  <2>. QED  BY <2>2, <2>3, <2>4, HeldElsewhere
<1>5. ASSUME NEW d \in Daemons, RegisterToken(d)
      PROVE  \E h \in Hosts : tokenfile'[h] = t
  <2>1. pc[d] = "registering" /\ UNCHANGED lost
    BY <1>5 DEF RegisterToken
  <2>2. ~orphaned
    BY <1>5 DEF RegisterToken, TypeOK
  <2>3. seen[d] = tokenfile[Host[d]] /\ seen[d] \in Tokens /\ row[seen[d]] = "minted"
    BY <2>1, <2>2 DEF Provisioned, Current
  <2>4. CASE /\ ~LocalLives /\ row' = [row EXCEPT ![seen[d]] = "live"]
             /\ UNCHANGED tokenfile
    <3>1. t = seen[d] /\ Host[d] \in Hosts
      BY <2>4, ServingAssumption DEF LocalLives, TypeOK
    <3>. QED  BY <2>3, <2>4, <3>1
  <2>5. CASE row' = row /\ tokenfile' = [tokenfile EXCEPT ![Host[d]] = None]
    <3>1. RowOf(tokenfile[Host[d]]) # "live"
      BY <2>3 DEF RowOf
    <3>2. row[t] = "live" /\ \A h \in Hosts : h # Host[d] => tokenfile'[h] = tokenfile[h]
      BY <2>5 DEF TypeOK
    <3>. QED  BY <2>1, <2>2, <3>1, <3>2, HeldElsewhere
  <2>. QED  BY <1>5, <2>4, <2>5 DEF RegisterToken
<1>6. ASSUME NEW d \in Daemons, Crash(d)
      PROVE  \E h \in Hosts : tokenfile'[h] = t
  <2>1. UNCHANGED <<row, orphaned, lost>>
    BY <1>6 DEF Crash
  <2>2. CASE UNCHANGED tokenfile
    BY <2>1, <2>2, <1>1
  <2>3. CASE pc[d] = "minting" /\ tokenfile' = [tokenfile EXCEPT ![Host[d]] = Junk]
    <3>1. RowOf(tokenfile[Host[d]]) # "live"
      BY <2>1, <2>3 DEF Provisioned
    <3>2. \A h \in Hosts : h # Host[d] => tokenfile'[h] = tokenfile[h]
      BY <2>3 DEF TypeOK
    <3>. QED  BY <2>1, <3>1, <3>2, HeldElsewhere
  <2>. QED  BY <1>6, <2>2, <2>3 DEF Crash
<1>7. CASE Revoke \/ Prune \/ Rebuild \/ \E h \in Hosts : Forget(h)
  <2>1. CASE Prune
    BY <2>1 DEF Prune, LiveTokenIsHeld
  <2>2. CASE ~Prune
    BY <1>7, <2>2 DEF Revoke, Rebuild, Forget
  <2>. QED  BY <2>1, <2>2
<1>. QED
  BY <1>2, <1>3, <1>4, <1>5, <1>6, <1>7 DEF Next, Step

(* The four invariants of the credentials stand together.                  *)
LEMMA CredentialsKept == Spec => [](Provisioned /\ LiveTokenIsHeld)
<1>1. TypeOK /\ Holding /\ [Next]_vars => Holding'
  BY HoldingStep
<1>2. TypeOK /\ Holding /\ Provisioned /\ LiveTokenIsHeld /\ [Next]_vars
        => (Provisioned /\ LiveTokenIsHeld)'
  BY ProvisionedStep, LiveTokenIsHeldStep
<1>. QED  BY <1>1, <1>2, HoldingInit, ProvisionedInit, TypeCorrect, PTL DEF Spec

(* A process that serves has a token file that authenticates               *)
(* (auth.EnsureLocalToken), in spite of crashes between the file and the   *)
(* row, restarts and other hosts, unless an operator interfered after it   *)
(* looked or two daemons overlapped.                                       *)
THEOREM ProvisionedTokenWorks == Spec => []LocalTokenWorks
<1>1. Provisioned => LocalTokenWorks
  BY DEF Provisioned, LocalTokenWorks
<1>. QED  BY <1>1, CredentialsKept, PTL

(* No crash leaves a live local token whose plaintext is nowhere, the      *)
(* state no later start gets past.                                         *)
THEOREM NoStartIsWedged == Spec => []LiveTokenIsHeld
BY CredentialsKept, PTL

=============================================================================
