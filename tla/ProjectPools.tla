---------------------------- MODULE ProjectPools ----------------------------
(* The daemon's pools, one for a project (project_pools.py), and the       *)
(* execute_code calls that use them (_project_pool in server.py): the lazy *)
(* start under the registry's lock, the eviction of idle pools while that  *)
(* lock is held, and calls that go on in a pool nobody asked for lately.   *)
(*                                                                         *)
(* A pool is ClientPool seen from outside: it starts, it serves, its       *)
(* shutdown closes the servers it has.                                     *)
EXTENDS Naturals, FiniteSets

CONSTANTS
  Projects,  \* project directories
  Calls,     \* execute_code calls
  Pools,     \* pools the registry may create
  None,
  IdleTTL,   \* IDLE_TTL_SECONDS
  RunLimit,  \* environment: a call is over this long after host_for()
  MaxTime    \* bound: the clock

ASSUME PoolsAssumption ==
  /\ None \notin Pools \cup Projects \cup Calls
  /\ IdleTTL \in Nat /\ RunLimit \in Nat /\ MaxTime \in Nat

VARIABLES
  now,       \* time.monotonic()
  hosts,     \* _hosts[project]
  last,      \* _last_access[project]
  lock,      \* the call that holds the registry's lock
  due,       \* expired projects it has still to evict
  stopping,  \* the pool whose stop() it awaits
  pool,      \* pool[i]: the task of _PoolHost i
  of,        \* its project_dir
  told,      \* pools whose _stop is set
  up,        \* pools whose startup's servers may be alive
  revived,   \* pools with a server that a reconnect has started, and
             \* (history) whether its call was longer than the TTL
  pc, want, got,
  began      \* history: when host_for() answered the call

vars == <<now, hosts, last, lock, due, stopping, pool, of, told, up, revived,
          pc, want, got, began>>
poolVars == <<pool, of, told, up, revived>>
lockVars == <<lock, due, stopping>>
callVars == <<pc, want, got, began>>

PoolState == {"absent",
              "starting",  \* await pool.startup()
              "ready",     \* await _stop.wait()
              "closing",   \* await pool.shutdown()
              "closed",
              "cut"}       \* cancelled before it saw _stop: no shutdown

CallState == {"idle",
              "queued",    \* await the registry's lock
              "evicting",  \* in it: _evict_idle_locked()
              "awaiting",  \* await host.ready.wait()
              "running",   \* the run has the pool, or waits for _exec_lock
              "calling"}   \* await pool.call_tool()

(* The types; the registry names a pool of that project, never one it has  *)
(* told to stop.                                                           *)
TypeOK ==
  /\ now \in 0..MaxTime
  /\ hosts \in [Projects -> Pools \cup {None}]
  /\ last \in [Projects -> 0..MaxTime]
  /\ lock \in Calls \cup {None}
  /\ due \subseteq Projects
  /\ stopping \in Pools \cup {None}
  /\ pool \in [Pools -> PoolState]
  /\ of \in [Pools -> Projects \cup {None}]
  /\ told \subseteq Pools /\ up \subseteq Pools /\ revived \subseteq Pools \X BOOLEAN
  /\ pc \in [Calls -> CallState]
  /\ want \in [Calls -> Projects \cup {None}]
  /\ got \in [Calls -> Pools \cup {None}]
  /\ began \in [Calls -> 0..MaxTime]
  /\ \A p \in Projects :
       hosts[p] # None => of[hosts[p]] = p /\ hosts[p] \notin told
-----------------------------------------------------------------------------
Init ==
  /\ now = 0
  /\ hosts = [p \in Projects |-> None]
  /\ last = [p \in Projects |-> 0]
  /\ lock = None /\ due = {} /\ stopping = None
  /\ pool = [i \in Pools |-> "absent"]
  /\ of = [i \in Pools |-> None]
  /\ told = {} /\ up = {} /\ revived = {}
  /\ pc = [c \in Calls |-> "idle"]
  /\ want = [c \in Calls |-> None]
  /\ got = [c \in Calls |-> None]
  /\ began = [c \in Calls |-> 0]

UsesPool(c) == pc[c] \in {"awaiting", "running", "calling"}

(* A startup takes 45 s at most (ClientPool), far less than the TTL.       *)
Tick ==
  /\ now < MaxTime
  /\ \A i \in Pools : pool[i] # "starting"
  /\ \A c \in Calls : UsesPool(c) => now + 1 - began[c] <= RunLimit
  /\ now' = now + 1
  /\ UNCHANGED <<hosts, last, lockVars, poolVars, callVars>>

Moves(c, state) == pc' = [pc EXCEPT ![c] = state]

(* The call is out of the registry and the pool.                           *)
Leaves(c) ==
  /\ Moves(c, "idle")
  /\ want' = [want EXCEPT ![c] = None]
  /\ got' = [got EXCEPT ![c] = None]
  /\ began' = [began EXCEPT ![c] = 0]
-----------------------------------------------------------------------------
(* ProjectPoolRegistry.host_for                                            *)
Ask(c, p) ==
  /\ pc[c] = "idle"
  /\ Moves(c, "queued")
  /\ want' = [want EXCEPT ![c] = p]
  /\ UNCHANGED <<now, hosts, last, lockVars, poolVars, got, began>>

Idle == {p \in Projects : hosts[p] # None /\ now - last[p] > IdleTTL}

Enter(c) ==
  /\ pc[c] = "queued" /\ lock = None
  /\ lock' = c
  /\ due' = Idle
  /\ Moves(c, "evicting")
  /\ UNCHANGED <<now, hosts, last, stopping, poolVars, want, got, began>>

(* One turn of the loop: the pool leaves the registry and is told to stop. *)
Evict(c) ==
  /\ lock = c /\ pc[c] = "evicting" /\ stopping = None
  /\ \E p \in due :
       /\ due' = due \ {p}
       /\ hosts' = [hosts EXCEPT ![p] = None]
       /\ last' = [last EXCEPT ![p] = 0]
       /\ told' = told \cup {hosts[p]}
       /\ stopping' = hosts[p]
  /\ UNCHANGED <<now, lock, pool, of, up, revived, callVars>>

(* stop() returns when the task is over, or after 15 s, in which the task  *)
(* has at least seen _stop. wait_for then cancels it, but by now every     *)
(* _ServerHost is told to stop and closes by itself.                       *)
StopReturns(c) ==
  /\ lock = c /\ stopping # None
  /\ pool[stopping] # "ready"
  /\ stopping' = None
  /\ UNCHANGED <<now, hosts, last, lock, due, poolVars, callVars>>

(* The rest of the locked block, without an await: the project's pool,     *)
(* created if need be. Its servers may be alive from then on.              *)
MayGet(c) == lock = c /\ pc[c] = "evicting" /\ due = {} /\ stopping = None

(* Mutant of Use: finding a pool does not refresh its time. *)
UseKeepsTime(c, i) ==
  /\ lock' = None
  /\ last' = IF i = hosts[want[c]] THEN last ELSE [last EXCEPT ![want[c]] = now]
  /\ got' = [got EXCEPT ![c] = i]
  /\ began' = [began EXCEPT ![c] = now]
  /\ Moves(c, "awaiting")
  /\ UNCHANGED <<now, due, stopping, told, revived, want>>

Use(c, i) ==
  /\ lock' = None
  /\ last' = [last EXCEPT ![want[c]] = now]
  /\ got' = [got EXCEPT ![c] = i]
  /\ began' = [began EXCEPT ![c] = now]
  /\ Moves(c, "awaiting")
  /\ UNCHANGED <<now, due, stopping, told, revived, want>>

GetPool(c) ==
  /\ MayGet(c) /\ hosts[want[c]] # None
  /\ Use(c, hosts[want[c]])
  /\ UNCHANGED <<hosts, pool, of, up>>

(* Mutant of StartPool: the registry is not looked up again under the lock. *)
StartsOnOldMiss(c) ==
  /\ MayGet(c)
  /\ \E i \in Pools :
       /\ pool[i] = "absent"
       /\ hosts' = [hosts EXCEPT ![want[c]] = i]
       /\ pool' = [pool EXCEPT ![i] = "starting"]
       /\ of' = [of EXCEPT ![i] = want[c]]
       /\ up' = up \cup {i}
       /\ Use(c, i)

StartPool(c) ==
  /\ MayGet(c) /\ hosts[want[c]] = None
  /\ \E i \in Pools :
       /\ pool[i] = "absent"
       /\ hosts' = [hosts EXCEPT ![want[c]] = i]
       /\ pool' = [pool EXCEPT ![i] = "starting"]
       /\ of' = [of EXCEPT ![i] = want[c]]
       /\ up' = up \cup {i}
       /\ Use(c, i)

(* The project adds no servers to the global ones.                         *)
NoConfigs(c) ==
  /\ MayGet(c) /\ hosts[want[c]] = None
  /\ lock' = None
  /\ Leaves(c)
  /\ UNCHANGED <<now, hosts, last, due, stopping, poolVars>>
-----------------------------------------------------------------------------
(* _project_pool waits for the pool its code names, or goes on without it. *)
Ready(c) ==
  /\ pc[c] = "awaiting" /\ pool[got[c]] # "starting"
  /\ Moves(c, "running")
  /\ UNCHANGED <<now, hosts, last, lockVars, poolVars, want, got, began>>

(* A call of the run: sessions[name] exists until the shutdown begins.     *)
StartCall(c) ==
  /\ pc[c] = "running" /\ pool[got[c]] = "ready"
  /\ Moves(c, "calling")
  /\ UNCHANGED <<now, hosts, last, lockVars, poolVars, want, got, began>>

CallReturns(c) ==
  /\ pc[c] = "calling"
  /\ Moves(c, "running")
  /\ UNCHANGED <<now, hosts, last, lockVars, poolVars, want, got, began>>

(* The shutdown closes the session under the call; call_tool reconnects    *)
(* from the stored config and publishes a new server in the old pool.      *)
Reconnects(c) ==
  /\ pc[c] = "calling" /\ pool[got[c]] \in {"closing", "closed"}
  /\ revived' = revived \cup {<<got[c], now - began[c] > IdleTTL>>}
  /\ Moves(c, "running")
  /\ UNCHANGED <<now, hosts, last, lockVars, pool, of, told, up, want, got, began>>

(* The run is over, ready came too late or was not needed, or the client   *)
(* cancelled.                                                              *)
Leave(c) ==
  /\ UsesPool(c) \/ pc[c] = "queued"
  /\ Leaves(c)
  /\ UNCHANGED <<now, hosts, last, lockVars, poolVars>>

(* Mutant of CancelledInLock: a cancellation leaves the lock taken. *)
CancelledLeavesLock(c) ==
  /\ lock = c
  /\ due' = {} /\ stopping' = None
  /\ Leaves(c)
  /\ UNCHANGED <<now, hosts, last, lock, poolVars>>

(* A call cancelled inside the lock leaves it free; wait_for cancels the   *)
(* pool's task with it, which skips the shutdown if it is still about to   *)
(* see _stop.                                                              *)
CancelledInLock(c) ==
  /\ lock = c
  /\ lock' = None /\ due' = {} /\ stopping' = None
  /\ pool' = [i \in Pools |-> IF i = stopping /\ pool[i] = "ready" THEN "cut" ELSE pool[i]]
  /\ Leaves(c)
  /\ UNCHANGED <<now, hosts, last, of, told, up, revived>>
-----------------------------------------------------------------------------
(* _PoolHost._run; a startup that fails is a pool without servers.         *)
Started(i) ==
  /\ pool[i] = "starting"
  /\ pool' = [pool EXCEPT ![i] = "ready"]
  /\ UNCHANGED <<now, hosts, last, lockVars, of, told, up, revived, callVars>>

SeesStop(i) ==
  /\ pool[i] = "ready" /\ i \in told
  /\ pool' = [pool EXCEPT ![i] = "closing"]
  /\ UNCHANGED <<now, hosts, last, lockVars, of, told, up, revived, callVars>>

(* Mutant of Closed: the pool's task ends without a shutdown. *)
ClosesNoServer(i) ==
  /\ pool[i] = "closing"
  /\ pool' = [pool EXCEPT ![i] = "closed"]
  /\ UNCHANGED <<now, hosts, last, lockVars, of, told, up, revived, callVars>>

Closed(i) ==
  /\ pool[i] = "closing"
  /\ pool' = [pool EXCEPT ![i] = "closed"]
  /\ up' = up \ {i}
  /\ UNCHANGED <<now, hosts, last, lockVars, of, told, revived, callVars>>
-----------------------------------------------------------------------------
HostStep(i) == Started(i) \/ SeesStop(i) \/ Closed(i)
RegistryStep(c) ==
  \/ Enter(c) \/ Evict(c) \/ StopReturns(c)
  \/ GetPool(c) \/ StartPool(c) \/ NoConfigs(c)
CallStep(c) ==
  \/ RegistryStep(c) \/ \E p \in Projects : Ask(c, p)
  \/ Ready(c) \/ StartCall(c) \/ CallReturns(c) \/ Reconnects(c)
  \/ Leave(c) \/ CancelledInLock(c)

Next == Tick \/ (\E i \in Pools : HostStep(i)) \/ (\E c \in Calls : CallStep(c))

Spec == Init /\ [][Next]_vars

(* The event loop runs what can run, asyncio.Lock serves its waiters in    *)
(* turn, and startup, shutdown and runs have timeouts of their own.        *)
(* Cancellations are not counted on.                                       *)
Fairness ==
  /\ \A i \in Pools : WF_vars(HostStep(i))
  /\ \A c \in Calls :
       /\ SF_vars(Enter(c))
       /\ WF_vars(Evict(c) \/ StopReturns(c) \/ GetPool(c) \/ StartPool(c) \/ NoConfigs(c))
       /\ WF_vars(UsesPool(c) /\ Leave(c))

FairSpec == Spec /\ Fairness
-----------------------------------------------------------------------------
(* A project never has two pools that nobody has told to stop, however     *)
(* many calls ask at once and wherever they are cancelled.                 *)
OnePoolPerProject ==
  \A i, j \in Pools :
    of[i] # None /\ of[i] = of[j] /\ i \notin told /\ j \notin told => i = j

(* DAEMON.md: "пулы гаснут после 30 мин простоя": a pool that a call       *)
(* awaits or runs in is not idle and is not told to stop, while that call  *)
(* has had it for no longer than the TTL. (Only host_for() refreshes its   *)
(* time: a longer run loses its pool to another project's request.)        *)
UsedPoolStays ==
  \A c \in Calls : UsesPool(c) /\ now - began[c] <= IdleTTL => got[c] \notin told

(* A pool that is told to stop goes out, with the servers it started,      *)
(* unless the request that evicts it is cancelled meanwhile; only such a   *)
(* longer run, which was calling a server as the pool shut down, starts    *)
(* that server again and leaves it.                                        *)
EvictedPoolsGoOut ==
  \A i \in Pools :
    i \in told ~> \/ pool[i] = "cut"
                  \/ i \notin up /\ <<i, FALSE>> \notin revived

(* host_for() answers although the lock is held while others' pools stop.  *)
AsksEnd == \A c \in Calls : pc[c] \in {"queued", "evicting"} ~> pc[c] \notin {"queued", "evicting"}
=============================================================================
