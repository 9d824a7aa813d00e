------------------------- MODULE ProjectPools_proofs -------------------------
(***************************************************************************)
(* Proofs about ProjectPools, for any projects, calls, pools and times,    *)
(* and, at the end, about Configs: what the pools and the processes around *)
(* them start, for any names, files and order of connecting.               *)
(*                                                                         *)
(* Neither property is inductive.  A project has one pool because a pool   *)
(* that nobody has told to stop is the one the registry names (PoolInv),   *)
(* and the registry names a new one only when it names none.  A used pool  *)
(* stays because the call's start is the project's last access or older    *)
(* (CallInv), and what the lock's holder still has to evict stays expired: *)
(* nobody else can refresh it meanwhile (LockInv).                         *)
(***************************************************************************)
EXTENDS ProjectPools, Configs, FiniteSetTheorems, TLAPS

LockInv ==
  /\ \A c \in Calls : lock = c <=> pc[c] = "evicting"
  /\ lock = None => due = {} /\ stopping = None
  /\ \A p \in due : hosts[p] # None /\ now - last[p] > IdleTTL

PoolInv ==
  \A i \in Pools :
    /\ pool[i] = "absent" <=> of[i] = None
    /\ i \in told => pool[i] # "absent"
    /\ of[i] # None /\ i \notin told => hosts[of[i]] = i

(* What a call knows of its project, and how its time relates to the       *)
(* registry's.                                                             *)
CallInv ==
  /\ \A c \in Calls : pc[c] \in {"queued", "evicting"} => want[c] \in Projects
  /\ \A c \in Calls : UsesPool(c) =>
       /\ want[c] \in Projects /\ got[c] \in Pools /\ began[c] <= now
       /\ got[c] \notin told => hosts[want[c]] = got[c] /\ began[c] <= last[want[c]]
       /\ got[c] \in told => now - began[c] > IdleTTL

IInv == TypeOK /\ LockInv /\ PoolInv /\ CallInv
-----------------------------------------------------------------------------
LEMMA InitInv == Init => IInv
BY PoolsAssumption
   DEF Init, IInv, TypeOK, LockInv, PoolInv, CallInv, PoolState, CallState, UsesPool

LEMMA StutterInv == IInv /\ UNCHANGED vars => IInv'
BY DEF IInv, TypeOK, LockInv, PoolInv, CallInv, UsesPool, vars

LEMMA TickInv ==
  ASSUME IInv, Tick
  PROVE  IInv'
<1>. USE PoolsAssumption DEF IInv, Tick, lockVars, poolVars, callVars
<1>1. TypeOK'
  BY DEF TypeOK
<1>2. LockInv'
  BY DEF TypeOK, LockInv
<1>3. PoolInv'
  BY DEF PoolInv
<1>4. CallInv'
  BY DEF TypeOK, CallInv, UsesPool
<1>. QED  BY <1>1, <1>2, <1>3, <1>4

LEMMA HostInv ==
  ASSUME IInv, NEW i \in Pools, HostStep(i)
  PROVE  IInv'
<1>. USE DEF IInv, HostStep, Started, SeesStop, Closed, lockVars, callVars
<1>1. TypeOK'
  BY DEF TypeOK, PoolState
<1>2. LockInv'
  BY DEF LockInv
<1>3. PoolInv'
  BY DEF TypeOK, PoolInv
<1>4. CallInv'
  BY DEF CallInv, UsesPool
<1>. QED  BY <1>1, <1>2, <1>3, <1>4
-----------------------------------------------------------------------------
(* host_for under the registry's lock.                                     *)
LEMMA EnterInv ==
  ASSUME IInv, NEW c \in Calls, Enter(c)
  PROVE  IInv'
<1>. USE PoolsAssumption DEF IInv, Enter, Moves, Idle, poolVars
<1>1. TypeOK'
  BY DEF TypeOK, CallState
<1>2. LockInv'
  BY DEF TypeOK, LockInv
<1>3. PoolInv'
  BY DEF PoolInv
<1>4. CallInv'
  BY DEF TypeOK, CallInv, UsesPool
<1>. QED  BY <1>1, <1>2, <1>3, <1>4

LEMMA EvictInv ==
  ASSUME IInv, NEW c \in Calls, Evict(c)
  PROVE  IInv'
<1>. USE PoolsAssumption DEF IInv
<1>1. PICK p \in due :
        /\ due' = due \ {p}
        /\ hosts' = [hosts EXCEPT ![p] = None]
        /\ last' = [last EXCEPT ![p] = 0]
        /\ told' = told \cup {hosts[p]}
        /\ stopping' = hosts[p]
  BY DEF Evict
<1>2. UNCHANGED <<now, lock, pool, of, up, revived, pc, want, got, began>> /\ lock = c
  BY DEF Evict, callVars
<1>3. p \in Projects /\ hosts[p] \in Pools /\ of[hosts[p]] = p /\ now - last[p] > IdleTTL
  BY DEF TypeOK, LockInv
<1>4. TypeOK'
  BY <1>1, <1>2, <1>3 DEF TypeOK
<1>5. LockInv'
  BY <1>1, <1>2, <1>3 DEF TypeOK, LockInv
<1>6. PoolInv'
  BY <1>1, <1>2, <1>3 DEF TypeOK, PoolInv
<1>7. CallInv'
  <2>1. ASSUME NEW d \in Calls, UsesPool(d), got[d] = hosts[p], got[d] \notin told
        PROVE  now - began[d] > IdleTTL
    BY <1>3, <2>1 DEF TypeOK, CallInv
  <2>2. ASSUME NEW d \in Calls, UsesPool(d), got[d] # hosts[p], got[d] \notin told
        PROVE  want[d] # p
    BY <2>2 DEF CallInv
  <2>. QED  BY <1>1, <1>2, <1>3, <2>1, <2>2 DEF TypeOK, CallInv, UsesPool
<1>. QED  BY <1>4, <1>5, <1>6, <1>7

LEMMA StopReturnsInv ==
  ASSUME IInv, NEW c \in Calls, StopReturns(c)
  PROVE  IInv'
BY DEF IInv, StopReturns, poolVars, callVars, TypeOK, LockInv, PoolInv, CallInv, UsesPool

(* What finding or starting the project's pool does to the call.           *)
LEMMA UseInv ==
  ASSUME IInv, NEW c \in Calls, NEW i \in Pools, MayGet(c), Use(c, i),
         TypeOK', PoolInv',
         hosts' = [hosts EXCEPT ![want[c]] = i],
         hosts[want[c]] \in {i, None}, i \notin told
  PROVE  LockInv' /\ CallInv'
<1>. USE PoolsAssumption DEF IInv, MayGet, Use, Moves
<1>1. want[c] \in Projects
  BY DEF LockInv, CallInv
<1>2. LockInv'
  BY <1>1 DEF TypeOK, LockInv
<1>3. CallInv'
  <2>1. ASSUME NEW d \in Calls, pc'[d] \in {"queued", "evicting"}
        PROVE  want'[d] \in Projects
    BY <2>1 DEF TypeOK, CallInv
  <2>2. ASSUME NEW d \in Calls, UsesPool(d)', d # c
        PROVE  /\ want[d] \in Projects /\ got[d] \in Pools /\ began[d] <= now
               /\ got[d] \notin told => hosts'[want[d]] = got[d] /\ began[d] <= last'[want[d]]
               /\ got[d] \in told => now - began[d] > IdleTTL
    <3>1. UsesPool(d)
      BY <2>2 DEF TypeOK, UsesPool
    <3>. QED  BY <1>1, <3>1 DEF TypeOK, CallInv
  <2>3. /\ got'[c] = i /\ want'[c] = want[c]
        /\ hosts'[want[c]] = i /\ began'[c] = now /\ last'[want[c]] = now
    BY <1>1 DEF TypeOK
  <2>. QED  BY <1>1, <2>1, <2>2, <2>3 DEF TypeOK, CallInv
<1>. QED  BY <1>2, <1>3

LEMMA GetPoolInv ==
  ASSUME IInv, NEW c \in Calls, GetPool(c)
  PROVE  IInv'
<1>1. want[c] \in Projects /\ hosts[want[c]] \in Pools
  BY DEF IInv, GetPool, MayGet, LockInv, CallInv, TypeOK
<1>2. TypeOK'
  BY <1>1, PoolsAssumption DEF IInv, TypeOK, GetPool, Use, Moves, CallState
<1>3. PoolInv'
  BY DEF IInv, PoolInv, GetPool, Use
<1>4. hosts' = [hosts EXCEPT ![want[c]] = hosts[want[c]]] /\ hosts[want[c]] \notin told
  BY <1>1 DEF IInv, TypeOK, GetPool
<1>. QED  BY <1>1, <1>2, <1>3, <1>4, UseInv DEF GetPool, IInv

LEMMA StartPoolInv ==
  ASSUME IInv, NEW c \in Calls, StartPool(c)
  PROVE  IInv'
<1>1. PICK i \in Pools :
        /\ pool[i] = "absent"
        /\ hosts' = [hosts EXCEPT ![want[c]] = i]
        /\ pool' = [pool EXCEPT ![i] = "starting"]
        /\ of' = [of EXCEPT ![i] = want[c]]
        /\ up' = up \cup {i}
        /\ Use(c, i)
  BY DEF StartPool
<1>2. want[c] \in Projects /\ MayGet(c) /\ hosts[want[c]] = None
  BY DEF IInv, StartPool, MayGet, LockInv, CallInv
<1>3. i \notin told /\ of[i] = None
  BY <1>1 DEF IInv, PoolInv
<1>4. TypeOK'
  BY <1>1, <1>2, <1>3, PoolsAssumption DEF IInv, TypeOK, Use, Moves, CallState, PoolState
<1>5. PoolInv'
  BY <1>1, <1>2, <1>3, PoolsAssumption DEF IInv, TypeOK, PoolInv, Use
<1>. QED  BY <1>1, <1>2, <1>3, <1>4, <1>5, UseInv DEF IInv
-----------------------------------------------------------------------------
(* The steps of a call that leave the registry alone.                      *)
LEMMA AskInv ==
  ASSUME IInv, NEW c \in Calls, NEW p \in Projects, Ask(c, p)
  PROVE  IInv'
<1>. USE DEF IInv, Ask, Moves, lockVars, poolVars
<1>1. TypeOK'
  BY DEF TypeOK, CallState
<1>2. LockInv'
  BY DEF TypeOK, LockInv
<1>3. PoolInv'
  BY DEF PoolInv
<1>4. CallInv'
  BY DEF TypeOK, CallInv, UsesPool
<1>. QED  BY <1>1, <1>2, <1>3, <1>4

LEMMA RunInv ==
  ASSUME IInv, NEW c \in Calls, Ready(c) \/ StartCall(c) \/ CallReturns(c) \/ Reconnects(c)
  PROVE  IInv'
<1>. USE DEF IInv, Ready, StartCall, CallReturns, Reconnects, Moves, lockVars, poolVars
<1>1. revived' \subseteq Pools \X BOOLEAN
  <2>1. CASE ~Reconnects(c)
    BY <2>1 DEF TypeOK
  <2>2. CASE Reconnects(c)
    <3>1. got[c] \in Pools /\ revived \subseteq Pools \X BOOLEAN
      BY <2>2 DEF TypeOK, CallInv, UsesPool
    <3>2. (now - began[c] > IdleTTL) \in BOOLEAN
      OBVIOUS
    <3>3. <<got[c], now - began[c] > IdleTTL>> \in Pools \X BOOLEAN
      BY <3>1, <3>2, Zenon
    <3>. QED  BY <2>2, <3>1, <3>3, Zenon
  <2>. QED  BY <2>1, <2>2
<1>2. TypeOK'
  BY <1>1 DEF TypeOK, CallState
<1>3. LockInv'
  BY DEF TypeOK, LockInv
<1>4. PoolInv'
  BY DEF PoolInv
<1>5. CallInv'
  BY DEF TypeOK, CallInv, UsesPool
<1>. QED  BY <1>2, <1>3, <1>4, <1>5

(* A call goes, cancelled or not, with the lock or without it.             *)
LEMMA LeaveInv ==
  ASSUME IInv, NEW c \in Calls, NoConfigs(c) \/ Leave(c) \/ CancelledInLock(c)
  PROVE  IInv'
<1>. USE PoolsAssumption
     DEF IInv, NoConfigs, Leave, CancelledInLock, MayGet, Leaves, Moves, lockVars, poolVars
<1>1. TypeOK'
  BY DEF TypeOK, CallState, PoolState
<1>2. LockInv'
  BY DEF TypeOK, LockInv, UsesPool
<1>3. PoolInv'
  BY DEF TypeOK, PoolInv
<1>4. CallInv'
  BY DEF TypeOK, CallInv, UsesPool
<1>. QED  BY <1>1, <1>2, <1>3, <1>4

LEMMA NextInv == IInv /\ [Next]_vars => IInv'
BY StutterInv, TickInv, HostInv, EnterInv, EvictInv, StopReturnsInv, GetPoolInv,
   StartPoolInv, AskInv, RunInv, LeaveInv
   DEF Next, CallStep, RegistryStep

THEOREM Invariance == Spec => []IInv
BY InitInv, NextInv, PTL DEF Spec
-----------------------------------------------------------------------------
(* The types hold, and the registry names, for a project, a pool of that   *)
(* project which it has not told to stop.                                  *)
THEOREM TypeCorrect == Spec => []TypeOK
BY Invariance, PTL DEF IInv

(* project_pools.py, host_for: however many calls ask at once and wherever *)
(* they are cancelled, a project has one pool.                             *)
THEOREM ProjectHasOnePool == Spec => []OnePoolPerProject
<1>1. IInv => OnePoolPerProject
  BY DEF IInv, TypeOK, PoolInv, OnePoolPerProject
<1>. QED  BY <1>1, Invariance, PTL

(* DAEMON.md: pools go out after 30 minutes of idleness, so the pool of a  *)
(* call that has had it for no longer than that stays.                     *)
THEOREM BusyPoolStays == Spec => []UsedPoolStays
<1>1. IInv => UsedPoolStays
  BY PoolsAssumption DEF IInv, TypeOK, CallInv, UsedPoolStays
<1>. QED  BY <1>1, Invariance, PTL
-----------------------------------------------------------------------------
(* One file after another adds a name at most once, from the first file    *)
(* that has it enabled.                                                    *)
LEMMA ParsedAt ==
  ASSUME NEW settings, NEW mcp, NEW skip, NEW servers, NEW n \in Names
  PROVE  ParsedProject(settings, mcp, skip, servers)[n] =
           IF servers[n] # Nobody \/ n \in skip THEN servers[n]
           ELSE IF settings[n] = "enabled" THEN "settings"
           ELSE IF mcp[n] = "enabled" THEN "mcp" ELSE servers[n]
<1>1. Nobody # "settings"
  BY ConfigsAssumption
<1>. QED  BY <1>1 DEF ParsedProject, Parsed

(* A daemon and its projects' pools start what a stdio process starts: the *)
(* names the pools are denied are the ones the stdio process has already.  *)
THEOREM DaemonStartsTheSame == ModesAgree
<1>. SUFFICES ASSUME NEW global \in Files, NEW settings \in Files, NEW mcp \in Files,
                     NEW skip \in SUBSET Names
              PROVE  Daemon(global, settings, mcp, skip)
                       = StartedFrom(LoadServerConfigs(global, settings, mcp, skip, FALSE))
  BY DEF ModesAgree
<1>. DEFINE own == Parsed(global, "global", skip, NoServers)
            inPool == ParsedProject(settings, mcp, skip \cup Known(own), NoServers)
            all == ParsedProject(settings, mcp, skip, own)
<1>1. Daemon(global, settings, mcp, skip) = StartedFrom(own) \cup StartedFrom(inPool)
  BY DEF Daemon, LoadServerConfigs, LoadProjectServerConfigs
<1>2. LoadServerConfigs(global, settings, mcp, skip, FALSE) = all
  BY DEF LoadServerConfigs
<1>3. \A n \in Names : NoServers[n] = Nobody
  BY DEF NoServers
<1>4. ASSUME NEW n \in Names
      PROVE  /\ own[n] # Nobody => all[n] = own[n] /\ inPool[n] = Nobody
             /\ own[n] = Nobody => all[n] = inPool[n]
  <2>1. all[n] = IF own[n] # Nobody \/ n \in skip THEN own[n]
                 ELSE IF settings[n] = "enabled" THEN "settings"
                 ELSE IF mcp[n] = "enabled" THEN "mcp" ELSE own[n]
    BY ParsedAt
  <2>2. inPool[n] = IF n \in skip \cup Known(own) THEN Nobody
                  ELSE IF settings[n] = "enabled" THEN "settings"
                  ELSE IF mcp[n] = "enabled" THEN "mcp" ELSE Nobody
    BY ParsedAt, <1>3
  <2>3. n \in Known(own) <=> own[n] # Nobody
    BY DEF Known
  <2>. HIDE DEF own, inPool, all
  <2>. QED  BY <2>1, <2>2, <2>3
<1>. HIDE DEF own, inPool, all
<1>5. StartedFrom(own) \cup StartedFrom(inPool) = StartedFrom(all)
  BY <1>4 DEF StartedFrom, Known
<1>. QED  BY <1>1, <1>2, <1>5

(* Of the connected servers that share an identifier one is the last.      *)
LEMMA LatestExists ==
  ASSUME NEW c \in Connected, NEW py, Named(py, c) # {}
  PROVE  Latest(py, c) \in Named(py, c)
<1>. DEFINE S == Named(py, c)
            Later(n) == {k \in S : c.when[k] > c.when[n]}
            T == {Later(n) : n \in S}
<1>1. /\ S \subseteq Names /\ IsFiniteSet(S) /\ S # {}
      /\ \A n \in S : c.when[n] \in Int
  <2>1. S \subseteq Names
    BY DEF Named, Connected
  <2>2. IsFiniteSet(S)
    BY <2>1, FS_Subset, ConfigsAssumption
  <2>3. \A n \in Names : c.when[n] \in 1..Cardinality(Names)
    BY DEF Connected
  <2>. QED  BY <2>1, <2>2, <2>3
<1>2. T \subseteq FiniteSubsetsOf(S) /\ T # {}
  <2>1. \A n \in S : Later(n) \subseteq S /\ IsFiniteSet(Later(n))
    BY <1>1, FS_Subset
  <2>. HIDE DEF S, Later
  <2>. QED  BY <1>1, <2>1 DEF FiniteSubsetsOf
<1>3. PICK x \in T : \A y \in T : ~ (<<y, x>> \in StrictSubsetOrdering(S))
  BY <1>2, FS_StrictSubsetOrderingWellFounded, WFMin
<1>4. PICK n \in S : x = Later(n)
  OBVIOUS
<1>5. Later(n) = {}
  <2>. SUFFICES ASSUME NEW k \in Later(n)
                PROVE  FALSE
    OBVIOUS
  <2>1. Later(k) \subseteq Later(n) /\ k \in Later(n) /\ k \notin Later(k)
    BY <1>1
  <2>2. <<Later(k), Later(n)>> \in StrictSubsetOrdering(S)
    BY <2>1 DEF StrictSubsetOrdering
  <2>. QED  BY <2>2, <1>3, <1>4
<1>6. \A k \in S : c.when[n] >= c.when[k]
  BY <1>1, <1>5
<1>. QED  BY <1>6 DEF Latest

(* What a search shows is what a run reaches, in whatever order the        *)
(* servers connected and whichever of them share an identifier.            *)
THEOREM SearchShowsWhatRuns == SearchIsRun
<1>. SUFFICES ASSUME NEW sessions \in Connected, NEW extra \in Connected, NEW py \in Names,
                     Named(py, sessions) # {} \/ \A n, k \in Named(py, extra) : n = k
              PROVE  Searched(py, sessions, extra) = Proxy(py, sessions, extra)
  BY DEF SearchIsRun
<1>1. CASE Named(py, sessions) # {}
  <2>1. Latest(py, sessions) \in sessions.on
    BY <1>1, LatestExists DEF Named
  <2>. QED  BY <1>1, <2>1 DEF Searched, Proxy, ListedName, Owner
<1>2. CASE Named(py, sessions) = {} /\ Named(py, extra) = {}
  BY <1>2 DEF Searched, Proxy
<1>3. CASE Named(py, sessions) = {} /\ Named(py, extra) # {}
  <2>1. PICK n \in Named(py, extra) : Named(py, extra) = {n}
    BY <1>3
  <2>2. First(py, extra) = n /\ Latest(py, extra) = n
    <3>1. extra.when[n] \in Int
      BY DEF Connected, Named
    <3>. QED  BY <2>1, <3>1 DEF First, Latest
  <2>3. n \notin sessions.on
    BY <1>3, <2>1 DEF Named
  <2>. QED  BY <1>3, <2>1, <2>2, <2>3 DEF Searched, Proxy, ListedName, Owner
<1>. QED  BY <1>1, <1>2, <1>3
=============================================================================
