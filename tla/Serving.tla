------------------------------ MODULE Serving ------------------------------
(***************************************************************************)
(* The daemon process from start to exit, and who may talk to it: the two  *)
(* guards of the single instance (daemon/lock.go's pid file, one per host, *)
(* and the advisory lock of store/tx.go, one per database), the boot and   *)
(* shutdown order of daemon.Run, the local token of auth.EnsureLocalToken, *)
(* the tool calls of mcpserver, and the operator's `stop`, `token revoke`, *)
(* `token prune` and schema rebuild.                                       *)
(*                                                                         *)
(* A member of Daemons is one process: a restart is another member of the  *)
(* same host.  Any step of any process may fall between two steps of       *)
(* another, any process may be killed, and the database may drop the       *)
(* connection that carries the advisory lock.                              *)
(***************************************************************************)
EXTENDS Naturals

CONSTANTS
    Daemons,    \* process lives
    Hosts,      \* machines: each has one state directory
    Host,       \* Host[d] is the machine process d runs on
    Requests,   \* tool calls
    Tokens,     \* secrets that can be minted; each is minted at most once
    None,       \* no token, no file, no owner
    Junk,       \* a token file cut short by a crash
    Scenarios   \* the bounds a behaviour may start with

(***************************************************************************)
(* What an operator can do to credentials behind the daemon's back.        *)
(***************************************************************************)
Ops == {"revoke", "prune", "forget", "rebuild"}

(***************************************************************************)
(* The bounds of a behaviour: which processes start, how many are killed,  *)
(* how many connections drop, how many errors the environment returns, and *)
(* how many credential operations, stops and calls are made.               *)
(***************************************************************************)
Bounds == [starts : SUBSET Daemons, crashes : Nat, losses : Nat,
           errors : Nat, ops : Nat, stops : Nat, calls : Nat]

ASSUME ServingAssumption ==
    /\ Host \in [Daemons -> Hosts]
    /\ None \notin Tokens /\ None \notin Daemons
    /\ Junk \notin Tokens /\ Junk # None
    /\ Scenarios \subseteq Bounds

VARIABLES
    pc,         \* where each process is in daemon.Run
    tries,      \* AcquireLock's rounds left
    pidfile,    \* per host: None, or who created the file and whether its pid is in it
    owner,      \* the session that holds LockInstance
    unit,       \* the processes whose watcher has a unit of work in flight
    seen,       \* the token each process read or minted
    tokenfile,  \* per host: the plaintext in the state directory
    row,        \* the tokens table (and, for "minted", a plaintext never registered)
    audited,    \* tokens some audit_log row references
    call,       \* each request: [st, at, token]
    stopping,   \* per host: the dead process whose file `stop` is about to remove
    told,       \* processes sent SIGTERM
    budget,     \* what the environment may still do
    \* history: read by the properties only
    lost,       \* processes whose lock connection has dropped
    late,       \* processes whose drain ran out of time with a unit in flight
    cut,        \* processes whose MCP shutdown ran out of time with a call in flight
    meddled,    \* processes whose credentials an operator changed under them
    orphaned    \* a token file was deleted, or a registration lost its answer

locks == <<tries, pidfile, owner>>
creds == <<seen, tokenfile, row, audited>>
history == <<lost, late, cut, meddled, orphaned>>
vars == <<pc, locks, creds, unit, call, stopping, told, budget, history>>

Booting == {"booting", "looking", "resolving", "minting", "registering", "wiring"}
Exiting == {"unlocking", "releasing", "closing"}
Places == {"off", "creating", "naming", "reading", "reclaiming", "claiming",
           "serving", "draining", "gone"} \cup Booting \cup Exiting

(* processAlive (lock.go 77-90) *)
Alive(d) == pc[d] \notin {"off", "gone"}

Files == {None} \cup [by : Daemons, named : BOOLEAN]
Rows == {"fresh", "minted", "live", "revoked", "dropped"}

TypeOK ==
    /\ pc \in [Daemons -> Places]
    /\ tries \in [Daemons -> 0..2]
    /\ \A d \in Daemons :
         pc[d] \in {"off", "creating", "reading", "reclaiming"} => tries[d] > 0
    /\ pidfile \in [Hosts -> Files]
    /\ owner \in Daemons \cup {None}
    /\ unit \subseteq Daemons
    /\ seen \in [Daemons -> Tokens \cup {None, Junk}]
    /\ tokenfile \in [Hosts -> Tokens \cup {None, Junk}]
    /\ row \in [Tokens -> Rows]
    /\ audited \subseteq Tokens
    /\ call \in [Requests -> [st : {"idle", "running", "done"},
                              at : Daemons \cup {None}, token : Tokens \cup {None}]]
    /\ \A r \in Requests :
         call[r].st = "running" => call[r].at # None /\ call[r].token # None
    /\ stopping \in [Hosts -> Daemons \cup {None}]
    /\ told \subseteq Daemons
    /\ budget \in Bounds
    /\ lost \subseteq Daemons /\ late \subseteq Daemons /\ cut \subseteq Daemons
    /\ meddled \subseteq Daemons /\ orphaned \in BOOLEAN

Init ==
    /\ pc = [d \in Daemons |-> "off"]
    /\ tries = [d \in Daemons |-> 2]
    /\ pidfile = [h \in Hosts |-> None]
    /\ owner = None
    /\ unit = {}
    /\ seen = [d \in Daemons |-> None]
    /\ tokenfile = [h \in Hosts |-> None]
    /\ row = [t \in Tokens |-> "fresh"]
    /\ audited = {}
    /\ call = [r \in Requests |-> [st |-> "idle", at |-> None, token |-> None]]
    /\ stopping = [h \in Hosts |-> None]
    /\ told = {}
    /\ budget \in Scenarios
    /\ lost = {} /\ late = {} /\ cut = {} /\ meddled = {}
    /\ orphaned = FALSE

Go(d, place) == pc' = [pc EXCEPT ![d] = place]
Spend(what) == budget[what] > 0 /\ budget' = [budget EXCEPT ![what] = @ - 1]

(***************************************************************************)
(* The calls in flight at a process.                                       *)
(***************************************************************************)
CallsAt(d) == {r \in Requests : call[r].st = "running" /\ call[r].at = d}

----------------------------------------------------------------------------
(***************************************************************************)
(* The pid file.  Creating it and writing the pid into it are two system   *)
(* calls: between them another process finds a file with no pid.           *)
(***************************************************************************)
Start(d) ==
    /\ pc[d] = "off" /\ d \in budget.starts
    /\ Go(d, "creating")
    /\ UNCHANGED <<locks, creds, unit, call, stopping, told, budget, history>>

Create(d) ==
    /\ pc[d] = "creating"
    /\ IF pidfile[Host[d]] = None
       THEN /\ pidfile' = [pidfile EXCEPT ![Host[d]] = [by |-> d, named |-> FALSE]]
            /\ Go(d, "naming")
       ELSE /\ Go(d, "reading")
            /\ UNCHANGED pidfile
    /\ UNCHANGED <<tries, owner, creds, unit, call, stopping, told, budget, history>>

(***************************************************************************)
(* The pid goes to the file this process opened, which someone may have    *)
(* unlinked since: then nobody sees it.                                    *)
(***************************************************************************)
Name(d) ==
    /\ pc[d] = "naming"
    /\ pidfile' = [pidfile EXCEPT ![Host[d]] =
                     IF @ # None /\ @.by = d THEN [@ EXCEPT !.named = TRUE] ELSE @]
    /\ Go(d, "claiming")
    /\ UNCHANGED <<tries, owner, creds, unit, call, stopping, told, budget, history>>

(* A live process named in the host's file: what `start`, `stop` and `status` go by. *)
Found(h) == pidfile[h] # None /\ pidfile[h].named /\ Alive(pidfile[h].by)

ReadPid(d) ==
    /\ pc[d] = "reading"
    /\ Go(d, IF Found(Host[d]) THEN "gone" ELSE "reclaiming")
    /\ UNCHANGED <<locks, creds, unit, call, stopping, told, budget, history>>

\* Mutant: one round too many.
ReclaimOnceMore(d) ==
    /\ pc[d] = "reclaiming"
    /\ pidfile' = [pidfile EXCEPT ![Host[d]] = None]
    /\ tries' = [tries EXCEPT ![d] = @ - 1]
    /\ Go(d, IF tries[d] = 0 THEN "gone" ELSE "creating")
    /\ UNCHANGED <<owner, creds, unit, call, stopping, told, budget, history>>

(***************************************************************************)
(* os.Remove takes whatever file is there now; two rounds, then Conflict.  *)
(***************************************************************************)
Reclaim(d) ==
    /\ pc[d] = "reclaiming"
    /\ pidfile' = [pidfile EXCEPT ![Host[d]] = None]
    /\ tries' = [tries EXCEPT ![d] = @ - 1]
    /\ Go(d, IF tries[d] = 1 THEN "gone" ELSE "creating")
    /\ UNCHANGED <<owner, creds, unit, call, stopping, told, budget, history>>

(***************************************************************************)
(* pg_try_advisory_lock.  A process refused, told to stop, or unable to    *)
(* connect leaves through lock.Release.                                    *)
(***************************************************************************)
Claim(d) ==
    /\ pc[d] = "claiming"
    /\ \/ owner = None /\ d \notin told /\ owner' = d /\ Go(d, "booting") /\ UNCHANGED budget
       \/ (owner # None \/ d \in told) /\ Go(d, "releasing") /\ UNCHANGED <<owner, budget>>
       \/ Spend("errors") /\ Go(d, "releasing") /\ UNCHANGED owner
    /\ UNCHANGED <<tries, pidfile, creds, unit, call, stopping, told, history>>

----------------------------------------------------------------------------
(***************************************************************************)
(* The embedding provider is probed and the vault reconciled.  SIGTERM     *)
(* cancels both; any failure is fatal.  The lock's connection is not       *)
(* watched yet.                                                            *)
(***************************************************************************)
Boot(d) ==
    /\ pc[d] = "booting"
    /\ \/ d \notin told /\ Go(d, "looking") /\ UNCHANGED budget
       \/ d \in told /\ Go(d, "unlocking") /\ UNCHANGED budget
       \/ Spend("errors") /\ Go(d, "unlocking")
    /\ UNCHANGED <<locks, creds, unit, call, stopping, told, history>>

(***************************************************************************)
(* EnsureLocalToken, step by step.  It runs under the command's context,   *)
(* which SIGTERM does not cancel.                                          *)
(***************************************************************************)
LookForToken(d) ==
    /\ pc[d] = "looking"
    /\ seen' = [seen EXCEPT ![d] = tokenfile[Host[d]]]
    /\ Go(d, "resolving")
    /\ UNCHANGED <<locks, tokenfile, row, audited, unit, call, stopping, told, budget, history>>

(***************************************************************************)
(* localTokenUsable: live is usable, revoked is refused, anything else is  *)
(* dead and minted over; an error of the database is none of these.        *)
(***************************************************************************)
RowOf(t) == IF t \in Tokens THEN row[t] ELSE "fresh"

\* Mutant: provisioned means that the file exists.
ResolveByPresence(d) ==
    /\ pc[d] = "resolving"
    /\ Go(d, IF seen[d] = None THEN "minting" ELSE "wiring")
    /\ UNCHANGED <<locks, creds, unit, call, stopping, told, budget, history>>

ResolveToken(d) ==
    /\ pc[d] = "resolving"
    /\ \/ /\ Go(d, CASE RowOf(seen[d]) = "live" -> "wiring"
                     [] RowOf(seen[d]) = "revoked" -> "unlocking"
                     [] OTHER -> "minting")
          /\ UNCHANGED budget
       \/ Spend("errors") /\ Go(d, "unlocking")
    /\ UNCHANGED <<locks, creds, unit, call, stopping, told, history>>

\* Mutant: the row before the file.
WriteRowFirst(d) ==
    /\ pc[d] = "minting"
    /\ ~\E t \in Tokens : row[t] = "live"
    /\ \E t \in Tokens :
         /\ row[t] = "fresh"
         /\ row' = [row EXCEPT ![t] = "live"]
         /\ seen' = [seen EXCEPT ![d] = t]
    /\ Go(d, "registering")
    /\ UNCHANGED <<locks, tokenfile, audited, unit, call, stopping, told, budget, history>>

(* The file is written first, *)
WriteToken(d) ==
    /\ pc[d] = "minting"
    /\ \E t \in Tokens :
         /\ row[t] = "fresh"
         /\ row' = [row EXCEPT ![t] = "minted"]
         /\ seen' = [seen EXCEPT ![d] = t]
         /\ tokenfile' = [tokenfile EXCEPT ![Host[d]] = t]
    /\ Go(d, "registering")
    /\ UNCHANGED <<locks, audited, unit, call, stopping, told, budget, history>>

(***************************************************************************)
(* then the row, unless a live `local` exists: the name is unique among    *)
(* live tokens.  A failed insert, and an insert that committed but whose   *)
(* answer was lost, remove the file and refuse to start.                   *)
(***************************************************************************)
LocalLives == \E t \in Tokens : row[t] = "live"

RegisterToken(d) ==
    /\ pc[d] = "registering"
    /\ \/ /\ ~LocalLives
          /\ row' = [row EXCEPT ![seen[d]] = "live"]
          /\ Go(d, "wiring")
          /\ UNCHANGED <<tokenfile, budget, orphaned>>
       \/ /\ LocalLives
          /\ tokenfile' = [tokenfile EXCEPT ![Host[d]] = None]
          /\ Go(d, "unlocking")
          /\ UNCHANGED <<row, budget, orphaned>>
       \/ /\ Spend("errors")
          /\ tokenfile' = [tokenfile EXCEPT ![Host[d]] = None]
          /\ Go(d, "unlocking")
          /\ \/ UNCHANGED <<row, orphaned>>
             \/ /\ ~LocalLives
                /\ row' = [row EXCEPT ![seen[d]] = "live"]
                /\ orphaned' = TRUE
    /\ UNCHANGED <<locks, seen, audited, unit, call, stopping, told, lost, late, cut,
                   meddled>>

(* The rest of MakeRunners: personas, the engines, the MCP server's bind rules. *)
Wire(d) ==
    /\ pc[d] = "wiring"
    /\ \/ Go(d, "serving") /\ UNCHANGED budget
       \/ Spend("errors") /\ Go(d, "unlocking")
    /\ UNCHANGED <<locks, creds, unit, call, stopping, told, history>>

----------------------------------------------------------------------------
(***************************************************************************)
(* Serving: the watcher starts and ends shielded units of work; the MCP    *)
(* server authenticates each call against the live row, runs it and        *)
(* appends its audit row, which the foreign key refuses when the token's   *)
(* row is gone and the closed pool refuses at exit.                        *)
(***************************************************************************)
StartUnit(d) ==
    /\ pc[d] = "serving" /\ d \notin unit
    /\ unit' = unit \cup {d}
    /\ UNCHANGED <<pc, locks, creds, call, stopping, told, budget, history>>

FinishUnit(d) ==
    /\ d \in unit
    /\ unit' = unit \ {d}
    /\ UNCHANGED <<pc, locks, creds, call, stopping, told, budget, history>>

Arrive(r, d, t) ==
    /\ call[r].st = "idle" /\ pc[d] = "serving"
    /\ row[t] = "live"
    /\ Spend("calls")
    /\ call' = [call EXCEPT ![r] = [st |-> "running", at |-> d, token |-> t]]
    /\ UNCHANGED <<pc, locks, creds, unit, stopping, told, history>>

Logs(r) == row[call[r].token] \in {"live", "revoked"} /\ pc[call[r].at] # "closing"

Answer(r) ==
    /\ call[r].st = "running"
    /\ call' = [call EXCEPT ![r].st = "done"]
    /\ audited' = IF Logs(r) THEN audited \cup {call[r].token} ELSE audited
    /\ UNCHANGED <<pc, locks, seen, tokenfile, row, unit, stopping, told, budget, history>>

(***************************************************************************)
(* The connection of the advisory lock drops: the database frees the lock  *)
(* at once.  Only a process that is serving pings it.                      *)
(***************************************************************************)
LoseConnection(d) ==
    /\ owner = d /\ Alive(d)
    /\ Spend("losses")
    /\ owner' = None
    /\ lost' = lost \cup {d}
    /\ UNCHANGED <<pc, tries, pidfile, creds, unit, call, stopping, told, late, cut, meddled,
                   orphaned>>

(* A SIGTERM, or the ping that fails: cancel the runners and drain them. *)
Drain(d) ==
    /\ pc[d] = "serving"
    /\ d \in told \cup lost
    /\ Go(d, "draining")
    /\ UNCHANGED <<locks, creds, unit, call, stopping, told, budget, history>>

(* A runner that panics or cannot listen brings the others down. *)
FailRunner(d) ==
    /\ pc[d] = "serving"
    /\ Spend("errors")
    /\ Go(d, "draining")
    /\ UNCHANGED <<locks, creds, unit, call, stopping, told, history>>

\* Mutant: return without waiting for the watcher.
DrainedAtOnce(d) ==
    /\ pc[d] = "draining"
    /\ Go(d, "unlocking")
    /\ UNCHANGED <<locks, creds, unit, call, stopping, told, budget, history>>

\* Mutant: wait for every call, however long.
DrainedWhenIdle(d) ==
    /\ pc[d] = "draining" /\ d \notin unit
    /\ CallsAt(d) = {}
    /\ Go(d, "unlocking")
    /\ UNCHANGED <<locks, creds, unit, call, stopping, told, budget, history>>

(***************************************************************************)
(* The runners are done: the watcher when its unit is, the MCP server when *)
(* its calls are or 5 s have passed, whichever is first.                   *)
(***************************************************************************)
Drained(d) ==
    /\ pc[d] = "draining" /\ d \notin unit
    /\ cut' = IF CallsAt(d) = {} THEN cut ELSE cut \cup {d}
    /\ Go(d, "unlocking")
    /\ UNCHANGED <<locks, creds, unit, call, stopping, told, budget, lost, late, meddled,
                   orphaned>>

\* runnerDrainTimeout: "releasing locks anyway".
GiveUpDraining(d) ==
    /\ pc[d] = "draining" /\ d \in unit
    /\ Spend("errors")
    /\ late' = late \cup {d}
    /\ Go(d, "unlocking")
    /\ UNCHANGED <<locks, creds, unit, call, stopping, told, lost, cut, meddled, orphaned>>

----------------------------------------------------------------------------
(***************************************************************************)
(* The deferred calls of daemon.Run, last first: release the advisory      *)
(* lock, remove the pid file whoever wrote it, close the pool, exit.       *)
(***************************************************************************)
Unlock(d) ==
    /\ pc[d] = "unlocking"
    /\ owner' = IF owner = d THEN None ELSE owner
    /\ Go(d, "releasing")
    /\ UNCHANGED <<tries, pidfile, creds, unit, call, stopping, told, budget, history>>

Release(d) ==
    /\ pc[d] = "releasing"
    /\ pidfile' = [pidfile EXCEPT ![Host[d]] = None]
    /\ Go(d, "closing")
    /\ UNCHANGED <<tries, owner, creds, unit, call, stopping, told, budget, history>>

(* The end of a process ends its units and its calls. *)
Ended(d) ==
    /\ Go(d, "gone")
    /\ unit' = unit \ {d}
    /\ call' = [r \in Requests |->
                  IF r \in CallsAt(d) THEN [call[r] EXCEPT !.st = "done"] ELSE call[r]]

Exit(d) ==
    /\ pc[d] = "closing"
    /\ Ended(d)
    /\ UNCHANGED <<locks, creds, stopping, told, budget, history>>

(***************************************************************************)
(* SIGKILL: the session dies and its lock with it, the files stay; a token *)
(* file being written is cut short.                                        *)
(***************************************************************************)
Crash(d) ==
    /\ Alive(d)
    /\ Spend("crashes")
    /\ Ended(d)
    /\ owner' = IF owner = d THEN None ELSE owner
    /\ \/ UNCHANGED tokenfile
       \/ pc[d] = "minting" /\ tokenfile' = [tokenfile EXCEPT ![Host[d]] = Junk]
    /\ UNCHANGED <<tries, pidfile, seen, row, audited, stopping, told, history>>

----------------------------------------------------------------------------
(***************************************************************************)
(* `cognosis stop`: read the pid and look for the process in one go, then  *)
(* signal it or remove the file, whoever has written it meanwhile.         *)
(***************************************************************************)
Stop(h) ==
    /\ stopping[h] = None
    /\ pidfile[h] # None /\ pidfile[h].named
    /\ Spend("stops")
    /\ IF Alive(pidfile[h].by)
       THEN told' = told \cup {pidfile[h].by} /\ UNCHANGED stopping
       ELSE stopping' = [stopping EXCEPT ![h] = pidfile[h].by] /\ UNCHANGED told
    /\ UNCHANGED <<pc, locks, creds, unit, call, history>>

RemoveStale(h) ==
    /\ stopping[h] # None
    /\ pidfile' = [pidfile EXCEPT ![h] = None]
    /\ stopping' = [stopping EXCEPT ![h] = None]
    /\ UNCHANGED <<pc, tries, owner, creds, unit, call, told, budget, history>>

(***************************************************************************)
(* The operator and the credentials.  A process that has already looked at *)
(* its token does not look again.                                          *)
(***************************************************************************)
Committed == {d \in Daemons : pc[d] \in {"resolving", "minting", "registering", "wiring", "serving"}}

Revoke ==
    /\ Spend("ops")
    /\ LocalLives
    /\ row' = [t \in Tokens |-> IF row[t] = "live" THEN "revoked" ELSE row[t]]
    /\ meddled' = meddled \cup Committed
    /\ UNCHANGED <<pc, locks, seen, tokenfile, audited, unit, call, stopping, told, lost, late,
                   cut, orphaned>>

Prunable == {t \in Tokens : row[t] = "revoked" /\ t \notin audited}

Prune ==
    /\ Spend("ops")
    /\ Prunable # {}
    /\ row' = [t \in Tokens |-> IF t \in Prunable THEN "dropped" ELSE row[t]]
    /\ UNCHANGED <<pc, locks, seen, tokenfile, audited, unit, call, stopping, told, history>>

Forget(h) ==
    /\ Spend("ops")
    /\ tokenfile[h] # None
    /\ tokenfile' = [tokenfile EXCEPT ![h] = None]
    /\ meddled' = meddled \cup Committed
    /\ orphaned' = TRUE
    /\ UNCHANGED <<pc, locks, seen, row, audited, unit, call, stopping, told, lost, late, cut>>

(* `drop schema public cascade`, with the daemon stopped as the guide says. *)
Rebuild ==
    /\ Spend("ops")
    /\ \A d \in Daemons : ~Alive(d)
    /\ row' = [t \in Tokens |-> IF row[t] \in {"live", "revoked"} THEN "dropped" ELSE row[t]]
    /\ audited' = {}
    /\ UNCHANGED <<pc, locks, seen, tokenfile, unit, call, stopping, told, history>>

----------------------------------------------------------------------------
Step(d) ==
    \/ Create(d) \/ Name(d) \/ ReadPid(d) \/ Reclaim(d) \/ Claim(d)
    \/ Boot(d) \/ LookForToken(d) \/ ResolveToken(d) \/ WriteToken(d) \/ RegisterToken(d)
    \/ Wire(d) \/ Drain(d) \/ Drained(d) \/ Unlock(d) \/ Release(d) \/ Exit(d)

Next ==
    \/ \E d \in Daemons :
         \/ Start(d) \/ Step(d)
         \/ StartUnit(d) \/ FinishUnit(d)
         \/ LoseConnection(d) \/ FailRunner(d) \/ GiveUpDraining(d) \/ Crash(d)
         \/ \E r \in Requests, t \in Tokens : Arrive(r, d, t)
    \/ \E r \in Requests : Answer(r)
    \/ \E h \in Hosts : Stop(h) \/ RemoveStale(h) \/ Forget(h)
    \/ Revoke \/ Prune \/ Rebuild

Spec == Init /\ [][Next]_vars

(***************************************************************************)
(* A process runs until it serves, and again once it is told to stop; the  *)
(* ping comes every 5 s; a unit is bounded by watch.shutdownGrace, below   *)
(* the drain's own bound.  Calls, crashes and operators owe nothing.       *)
(***************************************************************************)
Fairness == \A d \in Daemons : WF_vars(Step(d)) /\ WF_vars(FinishUnit(d))

FairSpec == Spec /\ Fairness

----------------------------------------------------------------------------
(***************************************************************************)
(* A process touches the vault (boot reconciliation, a unit of the         *)
(* watcher, a tool call) only while it holds the advisory lock: shutdown   *)
(* drains before it unlocks (daemon.go 208-222).  The exceptions are the   *)
(* ones the code allows: the connection dropped, the drain's bound passed, *)
(* or the MCP server's own bound passed with a call in flight.             *)
(***************************************************************************)
WorkUnderLock ==
    \A d \in Daemons :
      \/ owner = d
      \/ d \in lost
      \/ /\ pc[d] \notin Booting
         /\ d \in unit => d \in late
         /\ CallsAt(d) # {} => d \in cut \cup late

(***************************************************************************)
(* "Provisioned means the stashed plaintext still authenticates"           *)
(* (auth.go 189-190): through crashes between the two writes, files cut    *)
(* short, restarts, another host's token, revocations, prunes and schema   *)
(* rebuilds, a process that serves has a token file that authenticates,    *)
(* unless an operator changed the credentials after it looked, or two      *)
(* daemons overlapped because a lock connection dropped.                   *)
(***************************************************************************)
LocalTokenWorks ==
    \A d \in Daemons :
      pc[d] = "serving" /\ d \notin meddled /\ lost = {} =>
        RowOf(tokenfile[Host[d]]) = "live"

(***************************************************************************)
(* The state EnsureLocalToken "refuses to mint past" (auth.go 217-221): a  *)
(* live local token whose plaintext no state directory holds wedges every  *)
(* later start.  No crash produces it; only a deleted file, an answer of   *)
(* the database lost after the insert, or an overlap does.                 *)
(***************************************************************************)
LiveTokenIsHeld ==
    \A t \in Tokens :
      row[t] = "live" => orphaned \/ lost # {} \/ \E h \in Hosts : tokenfile[h] = t

(***************************************************************************)
(* A process told to stop, or that lost its lock while serving, ends; and  *)
(* one that starts either serves or ends (daemon.Run, "fails loudly and    *)
(* completely").                                                           *)
(***************************************************************************)
StopsOrServes ==
    \A d \in Daemons :
      /\ (pc[d] = "creating") ~> (pc[d] \in {"serving", "gone"})
      /\ (pc[d] = "serving" /\ d \in told \cup lost) ~> (pc[d] = "gone")

=============================================================================
