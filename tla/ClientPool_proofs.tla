-------------------------- MODULE ClientPool_proofs --------------------------
(***************************************************************************)
(* Proofs about ClientPool, for any number of callers, hosts and calls.    *)
(*                                                                         *)
(* NoOrphan and SessionMatchesHost are not inductive alone: what keeps a   *)
(* new host from being lost is that the slot is empty while anybody        *)
(* connects, and that only the holder of the reconnect lock (or the        *)
(* startup connection, before any call) connects.  IInv adds both.         *)
(***************************************************************************)
EXTENDS ClientPool, TLAPS

Connecting(p) == pc[p] \in {"stopping", "opening", "aborting"}

(* Only the lock's holder reconnects, and it holds the lock throughout.    *)
LockInv ==
  /\ \A p \in Callers : Connecting(p) <=> lock = p
  /\ pc[Startup] \in {"idle", "opening", "aborting"}

(* No call begins, and nothing is published, before startup is over.       *)
StartupInv ==
  pc[Startup] # "idle" =>
    /\ \A c \in Callers : pc[c] = "idle"
    /\ lock = None /\ host = None

(* While somebody reconnects, or awaits a new host, nothing is published,  *)
(* and the new host has not been told to stop.                             *)
SlotInv ==
  /\ lock # None => host = None
  /\ \A p \in Procs : pc[p] = "opening" => host = None /\ at[p] \notin stop

(* Identities still unused are named nowhere.                              *)
FreshInv ==
  /\ \A h \in stop : task[h] # "absent"
  /\ host # None => task[host] # "absent"
  /\ \A p \in Procs : pc[p] = "opening" => task[at[p]] # "absent"

IInv ==
  /\ LockInv
  /\ StartupInv
  /\ SlotInv
  /\ FreshInv
  /\ NoOrphan
  /\ SessionMatchesHost
-----------------------------------------------------------------------------
(* The identity CreateHost picks is a host that was never used.            *)
LEMMA FreshHost ==
  ASSUME Unused # {}
  PROVE  (CHOOSE h \in Unused : TRUE) \in Unused
OBVIOUS

LEMMA FirstHostType == FirstHost \in Hosts
BY PoolAssumption DEF FirstHost

(* What the single step of a host's task leaves alone.                     *)
LEMMA HostStepFrame ==
  ASSUME TypeOK, NEW h \in Hosts, HostStep(h)
  PROVE  /\ UNCHANGED <<stop, host, session, lock, pc, at, calls, up>>
         /\ task' \in [Hosts -> TaskState]
         /\ dead' \subseteq Hosts
         /\ \A g \in Hosts : task[g] = "absent" <=> task'[g] = "absent"
         /\ \A g \in Hosts : Live(g)' => Live(g)
  BY DEF TypeOK, TaskState, Live, HostStep, TaskStep, OpenerReturns, OpenerRaises, OpenerHangs,
         HungOpenerRaises, OpenerUnwound, SeesStop, Closes, ServerDies
-----------------------------------------------------------------------------
(* Type correctness: every variable keeps its type, and whoever waits for  *)
(* a session or a host names one (call_tool never uses a missing session). *)
THEOREM TypeCorrect == Spec => []TypeOK
<1>1. Init => TypeOK
  <2> SUFFICES ASSUME Init
               PROVE  TypeOK
    OBVIOUS
  <2>1. task \in [Hosts -> TaskState]
    BY DEF Init, TaskState
  <2>2. pc \in [Procs -> ProcState]
    BY DEF Init, ProcState
  <2>3. at \in [Procs -> Hosts \cup {None}]
    BY FirstHostType DEF Init
  <2>4. \A p \in Procs :
          pc[p] \in {"first", "opening", "aborting", "retry"} => at[p] \in Hosts
    BY FirstHostType DEF Init
  <2>5. calls \in 0..MaxCalls
    BY PoolAssumption DEF Init
  <2> QED BY <2>1, <2>2, <2>3, <2>4, <2>5 DEF Init, TypeOK
<1>2. TypeOK /\ [Next]_vars => TypeOK'
  <2> SUFFICES ASSUME TypeOK, [Next]_vars
               PROVE  TypeOK'
    OBVIOUS
  <2> USE PoolAssumption DEF Procs
  <2>1. ASSUME NEW h \in Hosts, HostStep(h)
        PROVE  TypeOK'
    BY <2>1, HostStepFrame DEF TypeOK
  <2>2. ASSUME NEW p \in Procs, ConnectStep(p)
        PROVE  TypeOK'
    <3>1. CASE Publish(p)
      BY <3>1 DEF TypeOK, Publish, ProcState, Released
    <3>2. CASE ConnectFails(p)
      BY <3>2 DEF TypeOK, ConnectFails, Leave, ProcState, Released
    <3>3. CASE AbortEnds(p)
      BY <3>3 DEF TypeOK, AbortEnds, Leave, ProcState, Released
    <3>4. CASE Cancel(p)
      BY <3>4 DEF TypeOK, Cancel, Leave, ProcState, Released
    <3> QED BY <2>2, <3>1, <3>2, <3>3, <3>4 DEF ConnectStep
  <2>3. ASSUME NEW c \in Callers, CallStep(c)
        PROVE  TypeOK'
    <3>1. CASE StartCall(c)
      BY <3>1 DEF TypeOK, StartCall, ProcState
    <3>2. CASE AttemptEnds(c)
      BY <3>2 DEF TypeOK, AttemptEnds, Leave, ProcState, Released
    <3>3. CASE AttemptLosesSession(c)
      BY <3>3 DEF TypeOK, AttemptLosesSession, ProcState
    <3>4. CASE TakeLock(c)
      BY <3>4 DEF TypeOK, TakeLock, ProcState
    <3>5. CASE ConnectAnew(c)
      BY <3>5, FreshHost DEF TypeOK, ConnectAnew, CreateHost, Unused, ProcState, TaskState
    <3> QED BY <2>3, <3>1, <3>2, <3>3, <3>4, <3>5 DEF CallStep
  <2>4. CASE Shutdown
    BY <2>4 DEF TypeOK, Shutdown
  <2>5. CASE UNCHANGED vars
    BY <2>5 DEF TypeOK, vars
  <2> QED BY <2>1, <2>2, <2>3, <2>4, <2>5 DEF Next
<1> QED BY <1>1, <1>2, PTL DEF Spec
-----------------------------------------------------------------------------
LEMMA InitIInv == Init => IInv
<1> SUFFICES ASSUME Init
             PROVE  IInv
  OBVIOUS
<1> USE PoolAssumption, FirstHostType DEF Init, Procs
<1>1. LockInv
  BY DEF LockInv, Connecting
<1>2. StartupInv
  BY DEF StartupInv
<1>3. SlotInv
  BY DEF SlotInv
<1>4. FreshInv
  BY DEF FreshInv
<1>5. NoOrphan
  BY DEF NoOrphan, Live
<1>6. SessionMatchesHost
  BY DEF SessionMatchesHost
<1> QED BY <1>1, <1>2, <1>3, <1>4, <1>5, <1>6 DEF IInv

(* A step of a host's task can only make a transport go away.              *)
LEMMA HostStepIInv ==
  ASSUME TypeOK, IInv, NEW h \in Hosts, HostStep(h)
  PROVE  IInv'
<1> USE HostStepFrame
<1>1. LockInv' /\ StartupInv' /\ SlotInv' /\ SessionMatchesHost'
  BY DEF IInv, LockInv, StartupInv, SlotInv, SessionMatchesHost, Connecting
<1>2. FreshInv'
  BY DEF IInv, FreshInv, TypeOK
<1>3. NoOrphan'
  BY DEF IInv, NoOrphan
<1> QED BY <1>1, <1>2, <1>3 DEF IInv

LEMMA PublishIInv ==
  ASSUME TypeOK, IInv, NEW p \in Procs, Publish(p)
  PROVE  IInv'
<1> USE PoolAssumption DEF Publish, Released, Procs
<1>1. at[p] \in Hosts /\ host = None /\ at[p] \notin stop
  BY DEF TypeOK, IInv, SlotInv
<1>2. p \in Callers => lock = p
  BY DEF IInv, LockInv, Connecting
<1>3. \A q \in Procs : pc[q] = "opening" => q = p
  BY <1>2 DEF TypeOK, IInv, LockInv, StartupInv, Connecting
<1>4. LockInv'
  BY <1>2 DEF TypeOK, IInv, LockInv, StartupInv, Connecting
<1>5. StartupInv'
  BY DEF TypeOK, IInv, StartupInv
<1>6. SlotInv'
  BY <1>2, <1>3 DEF TypeOK, IInv, StartupInv, SlotInv
<1>7. FreshInv'
  BY <1>1, <1>3 DEF TypeOK, IInv, FreshInv
<1>8. NoOrphan'
  BY <1>1, <1>3 DEF TypeOK, IInv, NoOrphan, Live
<1>9. SessionMatchesHost'
  BY <1>1 DEF SessionMatchesHost
<1> QED BY <1>4, <1>5, <1>6, <1>7, <1>8, <1>9 DEF IInv

(* A process that leaves while it awaits a host told to stop, or while it  *)
(* awaits no host at all.                                                  *)
LEMMA LeaveIInv ==
  ASSUME TypeOK, IInv, NEW p \in Procs, Leave(p), pc[p] # "idle",
         stop \subseteq stop', stop' \subseteq stop \cup {at[p]},
         pc[p] = "opening" => task[at[p]] = "failed",
         pc[p] # "opening" => stop' = stop
  PROVE  IInv'
<1> USE PoolAssumption DEF Leave, Released, Procs
<1>1. p \in Callers /\ Connecting(p) => lock = p
  BY DEF IInv, LockInv
<1>2. \A q \in Procs : pc[p] = "opening" /\ pc[q] = "opening" => q = p
  BY <1>1 DEF TypeOK, IInv, LockInv, StartupInv, Connecting
<1>3. LockInv'
  BY <1>1 DEF TypeOK, IInv, LockInv, StartupInv, Connecting
<1>4. StartupInv'
  BY DEF TypeOK, IInv, StartupInv
<1>5. SlotInv'
  BY <1>2 DEF TypeOK, IInv, SlotInv
<1>6. FreshInv'
  BY <1>2 DEF TypeOK, IInv, FreshInv
<1>7. NoOrphan'
  BY DEF TypeOK, IInv, NoOrphan, Live
<1>8. SessionMatchesHost'
  BY DEF IInv, SessionMatchesHost
<1> QED BY <1>3, <1>4, <1>5, <1>6, <1>7, <1>8 DEF IInv

LEMMA CancelIInv ==
  ASSUME TypeOK, IInv, NEW p \in Procs, Cancel(p)
  PROVE  IInv'
<1>1. CASE pc[p] = "opening"
  <2> USE <1>1, PoolAssumption DEF Cancel, Procs
  <2>1. \A q \in Procs : pc[q] = "opening" => q = p
    BY DEF TypeOK, IInv, LockInv, StartupInv, Connecting
  <2>2. LockInv' /\ StartupInv'
    BY DEF TypeOK, IInv, LockInv, StartupInv, Connecting
  <2>3. SlotInv' /\ FreshInv'
    BY <2>1 DEF TypeOK, IInv, SlotInv, FreshInv
  <2>4. NoOrphan'
    BY <2>1 DEF TypeOK, IInv, NoOrphan, Live
  <2>5. SessionMatchesHost'
    BY DEF IInv, SessionMatchesHost
  <2> QED BY <2>2, <2>3, <2>4, <2>5 DEF IInv
<1>2. CASE pc[p] # "opening"
  <2>1. Leave(p) /\ pc[p] # "idle" /\ stop' = stop
    BY <1>2 DEF Cancel
  <2> QED BY <2>1, <1>2, LeaveIInv
<1> QED BY <1>1, <1>2

LEMMA ConnectStepIInv ==
  ASSUME TypeOK, IInv, NEW p \in Procs, ConnectStep(p)
  PROVE  IInv'
<1>1. CASE Publish(p)
  BY <1>1, PublishIInv
<1>2. CASE ConnectFails(p)
  <2>1. Leave(p) /\ pc[p] = "opening" /\ task[at[p]] = "failed" /\ stop' = stop \cup {at[p]}
    BY <1>2 DEF ConnectFails
  <2> QED BY <2>1, LeaveIInv
<1>3. CASE AbortEnds(p)
  <2>1. Leave(p) /\ pc[p] = "aborting" /\ stop' = stop
    BY <1>3 DEF AbortEnds
  <2> QED BY <2>1, LeaveIInv
<1>4. CASE Cancel(p)
  BY <1>4, CancelIInv
<1> QED BY <1>1, <1>2, <1>3, <1>4 DEF ConnectStep

(* Taking the lock empties the slot and signals the popped host in one     *)
(* step, so it is never a live host nobody answers for.                    *)
LEMMA TakeLockIInv ==
  ASSUME TypeOK, IInv, NEW c \in Callers, TakeLock(c)
  PROVE  IInv'
<1> USE PoolAssumption DEF TakeLock, Procs
<1>1. \A p \in Procs : pc[p] # "opening"
  BY DEF TypeOK, IInv, LockInv, StartupInv, Connecting
<1>2. LockInv' /\ StartupInv'
  BY DEF TypeOK, IInv, LockInv, StartupInv, Connecting
<1>3. SlotInv'
  BY <1>1 DEF TypeOK, SlotInv
<1>4. FreshInv'
  BY <1>1 DEF TypeOK, IInv, FreshInv
<1>5. NoOrphan'
  BY <1>1 DEF TypeOK, IInv, NoOrphan, Live
<1>6. SessionMatchesHost'
  BY DEF TypeOK, IInv, SessionMatchesHost
<1> QED BY <1>2, <1>3, <1>4, <1>5, <1>6 DEF IInv

LEMMA ConnectAnewIInv ==
  ASSUME TypeOK, IInv, NEW c \in Callers, ConnectAnew(c)
  PROVE  IInv'
<1> DEFINE new == CHOOSE h \in Unused : TRUE
<1>1. /\ pc[c] = "stopping"
      /\ task' = [task EXCEPT ![new] = "opening"]
      /\ pc' = [pc EXCEPT ![c] = "opening"]
      /\ at' = [at EXCEPT ![c] = new]
      /\ UNCHANGED <<stop, dead, host, session, lock, calls, up>>
  BY DEF ConnectAnew, CreateHost
<1>2. new \in Hosts /\ task[new] = "absent"
  BY FreshHost DEF ConnectAnew, CreateHost, Unused
<1> HIDE DEF new
<1> USE PoolAssumption, <1>1, <1>2 DEF Procs
<1>3. LockInv' /\ StartupInv'
  BY DEF TypeOK, IInv, LockInv, StartupInv, Connecting
<1>4. lock = c /\ lock # None
  BY DEF IInv, LockInv, Connecting
<1>5. host = None /\ \A p \in Procs : pc[p] # "opening"
  BY <1>4 DEF TypeOK, IInv, LockInv, StartupInv, SlotInv, Connecting
<1>6. SlotInv'
  BY <1>5 DEF TypeOK, IInv, SlotInv, FreshInv
<1>7. FreshInv'
  BY <1>5 DEF TypeOK, IInv, FreshInv
<1>8. NoOrphan'
  BY <1>5 DEF TypeOK, IInv, NoOrphan, Live
<1>9. SessionMatchesHost'
  BY DEF IInv, SessionMatchesHost
<1> QED BY <1>3, <1>6, <1>7, <1>8, <1>9 DEF IInv

LEMMA Inductive == TypeOK /\ IInv /\ [Next]_vars => IInv'
<1> SUFFICES ASSUME TypeOK, IInv, [Next]_vars
             PROVE  IInv'
  OBVIOUS
<1>1. ASSUME NEW h \in Hosts, HostStep(h)
      PROVE  IInv'
  BY <1>1, HostStepIInv
<1>2. ASSUME NEW p \in Procs, ConnectStep(p)
      PROVE  IInv'
  BY <1>2, ConnectStepIInv
<1>3. ASSUME NEW c \in Callers, CallStep(c)
      PROVE  IInv'
  <2> USE PoolAssumption DEF Procs
  <2>1. CASE StartCall(c)
    BY <2>1 DEF TypeOK, IInv, LockInv, StartupInv, SlotInv, FreshInv, Connecting,
                NoOrphan, Live, SessionMatchesHost, StartCall
  <2>2. CASE AttemptEnds(c)
    <3>1. Leave(c) /\ pc[c] \in {"first", "retry"} /\ stop' = stop
      BY <2>2 DEF AttemptEnds
    <3> QED BY <3>1, LeaveIInv
  <2>3. CASE AttemptLosesSession(c)
    BY <2>3 DEF TypeOK, IInv, LockInv, StartupInv, SlotInv, FreshInv, Connecting,
                NoOrphan, Live, SessionMatchesHost, AttemptLosesSession
  <2>4. CASE TakeLock(c)
    BY <2>4, TakeLockIInv
  <2>5. CASE ConnectAnew(c)
    BY <2>5, ConnectAnewIInv
  <2> QED BY <1>3, <2>1, <2>2, <2>3, <2>4, <2>5 DEF CallStep
<1>4. CASE Shutdown
  <2> USE <1>4, PoolAssumption DEF Shutdown, Procs
  <2>1. LockInv' /\ StartupInv' /\ FreshInv'
    BY DEF TypeOK, IInv, LockInv, StartupInv, FreshInv, Connecting
  <2>2. SlotInv'
    BY DEF TypeOK, IInv, SlotInv
  <2>3. NoOrphan'
    BY DEF TypeOK, IInv, NoOrphan, Live
  <2>4. SessionMatchesHost'
    BY DEF SessionMatchesHost
  <2> QED BY <2>1, <2>2, <2>3, <2>4 DEF IInv
<1>5. CASE UNCHANGED vars
  BY <1>5 DEF vars, IInv, LockInv, StartupInv, SlotInv, FreshInv, Connecting,
              NoOrphan, Live, SessionMatchesHost
<1> QED BY <1>1, <1>2, <1>3, <1>4, <1>5 DEF Next

(* A host that is live and not told to stop is published or awaited, and   *)
(* the slot and the lock leave room for one of these only.                 *)
LEMMA OneAtATime == TypeOK /\ IInv => OneServerProcess
<1> SUFFICES ASSUME TypeOK, IInv,
                    NEW g \in Hosts, NEW h \in Hosts,
                    Live(g), Live(h), g \notin stop, h \notin stop
             PROVE  g = h
  BY DEF OneServerProcess
<1>1. \A p, q \in Procs : pc[p] = "opening" /\ pc[q] = "opening" => p = q
  BY PoolAssumption DEF TypeOK, IInv, LockInv, StartupInv, Connecting, Procs
<1>2. \A p \in Procs : pc[p] = "opening" => host = None
  BY DEF IInv, SlotInv
<1> QED BY <1>1, <1>2, PoolAssumption DEF IInv, NoOrphan

LEMMA Invariance == Spec => [](TypeOK /\ IInv)
<1>1. TypeOK /\ IInv /\ [Next]_vars => IInv'
  BY Inductive
<1> QED BY InitIInv, <1>1, TypeCorrect, PTL DEF Spec

(* No reconnect, timeout, cancellation or shutdown ever loses a host: what *)
(* may hold a server process is published, awaited or told to stop.        *)
THEOREM NoHostIsLost == Spec => []NoOrphan
<1>1. TypeOK /\ IInv => NoOrphan
  BY DEF IInv
<1> QED BY <1>1, Invariance, PTL

(* However many callers lose the session together, there is at most one    *)
(* server process that has not been told to stop.                          *)
THEOREM AtMostOneServer == Spec => []OneServerProcess
BY OneAtATime, Invariance, PTL

(* A session handed to a caller belongs to the published host, or, while   *)
(* none is published, to one told to stop.                                 *)
THEOREM SessionsAreCurrent == Spec => []SessionMatchesHost
<1>1. TypeOK /\ IInv => SessionMatchesHost
  BY DEF IInv
<1> QED BY <1>1, Invariance, PTL

(* The retry of a failed call goes to the host published at that moment.   *)
THEOREM RetryIsFresh == Spec => RetryUsesPublishedHost
<1> DEFINE Fresh == \A c \in Callers :
             pc[c] # "retry" /\ pc'[c] = "retry" =>
               at'[c] = host' /\ at'[c] \notin stop'
<1>1. ASSUME TypeOK, IInv, [Next]_vars
      PROVE  Fresh
  <2> SUFFICES ASSUME NEW c \in Callers, pc[c] # "retry", pc'[c] = "retry"
               PROVE  at'[c] = host' /\ at'[c] \notin stop'
    OBVIOUS
  <2> USE PoolAssumption, <1>1 DEF Procs
  <2>1. CASE Publish(c)
    BY <2>1 DEF Publish, TypeOK, IInv, SlotInv
  <2>2. ASSUME NEW h \in Hosts, HostStep(h)
        PROVE  FALSE
    BY <2>2, HostStepFrame
  <2>3. ASSUME NEW p \in Procs, ConnectStep(p)
        PROVE  Publish(c)
    BY <2>3 DEF ConnectStep, Publish, ConnectFails, AbortEnds, Cancel, Leave, TypeOK
  <2>4. ASSUME NEW d \in Callers, CallStep(d)
        PROVE  FALSE
    BY <2>4 DEF CallStep, StartCall, AttemptEnds, AttemptLosesSession, TakeLock,
                ConnectAnew, CreateHost, Leave, TypeOK
  <2> QED BY <2>1, <2>2, <2>3, <2>4 DEF Next, Shutdown, vars
<1>2. TypeOK /\ IInv /\ [Next]_vars => [Fresh]_vars
  BY <1>1
<1> QED BY <1>2, Invariance, PTL DEF Spec, RetryUsesPublishedHost
-----------------------------------------------------------------------------
(* The refinement: how each step of the pool looks as a step of its slot.  *)
(* It needs one fact more: no session exists before startup is over, so    *)
(* the connection of startup() is the first.                               *)
NoSessionYet == pc[Startup] # "idle" => session = None

LEMMA NoSessionInv == Spec => []NoSessionYet
<1>1. Init => NoSessionYet
  BY DEF Init, NoSessionYet
<1>2. TypeOK /\ IInv /\ NoSessionYet /\ [Next]_vars => NoSessionYet'
  <2>. SUFFICES ASSUME TypeOK, IInv, NoSessionYet, [Next]_vars
                PROVE  NoSessionYet'
    OBVIOUS
  <2>. USE PoolAssumption DEF NoSessionYet, Procs
  <2>1. ASSUME NEW h \in Hosts, HostStep(h)
        PROVE  NoSessionYet'
    BY <2>1, HostStepFrame
  <2>2. ASSUME NEW p \in Procs, ConnectStep(p)
        PROVE  NoSessionYet'
    <3>1. CASE Publish(p)
      BY <3>1 DEF Publish, TypeOK, IInv, StartupInv
    <3>2. CASE ~Publish(p)
      BY <2>2, <3>2 DEF ConnectStep, ConnectFails, AbortEnds, Cancel, Leave, TypeOK
    <3>. QED  BY <3>1, <3>2
  <2>3. ASSUME NEW c \in Callers, CallStep(c)
        PROVE  NoSessionYet'
    <3>1. session' = session
      BY <2>3 DEF CallStep, StartCall, AttemptEnds, AttemptLosesSession, TakeLock,
                  ConnectAnew, Leave
    <3>2. \E s : pc' = [pc EXCEPT ![c] = s]
      BY <2>3 DEF CallStep, StartCall, AttemptEnds, AttemptLosesSession, TakeLock,
                  ConnectAnew, CreateHost, Leave
    <3>3. pc'[Startup] = pc[Startup]
      BY <3>2 DEF TypeOK
    <3>. QED  BY <3>1, <3>3
  <2>4. CASE Shutdown
    BY <2>4 DEF Shutdown
  <2>5. CASE UNCHANGED vars
    BY <2>5 DEF vars
  <2>. QED  BY <2>1, <2>2, <2>3, <2>4, <2>5 DEF Next
<1>. QED  BY <1>1, <1>2, Invariance, PTL DEF Spec

(* How a process that awaits s looks from outside, and where its attempt   *)
(* is if the await is on h.                                                *)
Seen(s) == CASE s = "idle"  -> "idle"
             [] s = "first" -> "first"
             [] s = "retry" -> "second"
             [] OTHER       -> "lost"
SeenOn(s, h) == IF s \in {"first", "retry"} THEN h ELSE None

LEMMA MoveSeen ==
  ASSUME TypeOK, NEW c \in Callers, NEW s \in ProcState, NEW h,
         pc' = [pc EXCEPT ![c] = s], at' = [at EXCEPT ![c] = h]
  PROVE  Slot!Moves(c, Seen(s), SeenOn(s, h))
<1>. USE DEF Procs, TypeOK
<1>1. Phase' = [Phase EXCEPT ![c] = Seen(s)]
  <2>1. Phase = [d \in Callers |-> Seen(pc[d])] /\ Phase' = [d \in Callers |-> Seen(pc'[d])]
    BY DEF Phase, Seen
  <2>2. \A d \in Callers : pc'[d] = IF d = c THEN s ELSE pc[d]
    OBVIOUS
  <2>. QED  BY <2>1, <2>2
<1>2. SentOn' = [SentOn EXCEPT ![c] = SeenOn(s, h)]
  <2>1. /\ SentOn = [d \in Callers |-> SeenOn(pc[d], at[d])]
        /\ SentOn' = [d \in Callers |-> SeenOn(pc'[d], at'[d])]
    BY DEF SentOn, SeenOn
  <2>2. \A d \in Callers : /\ pc'[d] = IF d = c THEN s ELSE pc[d]
                           /\ at'[d] = IF d = c THEN h ELSE at[d]
    OBVIOUS
  <2>. QED  BY <2>1, <2>2
<1>. QED  BY <1>1, <1>2 DEF Slot!Moves

LEMMA StaySeen ==
  ASSUME \A c \in Callers : Seen(pc'[c]) = Seen(pc[c]) /\ SeenOn(pc'[c], at'[c]) = SeenOn(pc[c], at[c])
  PROVE  UNCHANGED <<Phase, SentOn>>
BY DEF Phase, SentOn, Seen, SeenOn

LEMMA StartupUnseen ==
  ASSUME TypeOK, NEW s, NEW h, pc' = [pc EXCEPT ![Startup] = s], at' = [at EXCEPT ![Startup] = h]
  PROVE  UNCHANGED <<Phase, SentOn>>
<1>1. \A c \in Callers : pc'[c] = pc[c] /\ at'[c] = at[c]
  BY PoolAssumption DEF TypeOK, Procs
<1>. QED  BY <1>1, StaySeen

LEMMA LeaveSeen ==
  ASSUME TypeOK, NEW c \in Callers, Leave(c)
  PROVE  Slot!Moves(c, "idle", None)
<1>1. "idle" \in ProcState /\ Seen("idle") = "idle" /\ SeenOn("idle", None) = None
  BY DEF ProcState, Seen, SeenOn
<1>. QED  BY <1>1, MoveSeen DEF Leave

(* host, session and stop are what the slot shows besides its callers.     *)
LEMMA PublishRefines ==
  ASSUME TypeOK, IInv, NoSessionYet, NEW p \in Procs, Publish(p)
  PROVE  \/ \E h \in Hosts : Slot!FirstConnection(h)
         \/ \E c \in Callers, h \in Hosts : Slot!Reconnect(c, h)
<1>1. pc[p] = "opening" /\ at[p] \in Hosts /\ host = None /\ at[p] \notin stop
  BY DEF Publish, TypeOK, IInv, SlotInv
<1>2. Slot!Opens(at[p])
  BY <1>1 DEF Publish, Slot!Opens
<1>3. CASE p = Startup
  <2>1. UNCHANGED <<Phase, SentOn>>
    BY <1>3, StartupUnseen DEF Publish
  <2>2. session = None
    BY <1>1, <1>3 DEF NoSessionYet
  <2>. QED  BY <1>1, <1>2, <2>1, <2>2 DEF Slot!FirstConnection
<1>4. CASE p # Startup
  <2>1. p \in Callers /\ Phase[p] = "lost"
    BY <1>1, <1>4 DEF Procs, Phase
  <2>2. pc' = [pc EXCEPT ![p] = "retry"] /\ at' = [at EXCEPT ![p] = at[p]]
    BY <1>4 DEF Publish
  <2>3. "retry" \in ProcState /\ Seen("retry") = "second" /\ SeenOn("retry", at[p]) = at[p]
    BY DEF ProcState, Seen, SeenOn
  <2>4. Slot!Moves(p, "second", at[p])
    BY <2>1, <2>2, <2>3, MoveSeen
  <2>. QED  BY <1>1, <1>2, <2>1, <2>4 DEF Slot!Reconnect
<1>. QED  BY <1>3, <1>4

(* A connection that ends without a session: the host is out of service,   *)
(* and whoever waited for it is through with its call.                     *)
LEMMA ConnectEndsRefines ==
  ASSUME TypeOK, IInv, NEW p \in Procs, ConnectFails(p) \/ AbortEnds(p) \/ Cancel(p)
  PROVE  [Slot!Next]_(Slot!vars)
<1>1. ASSUME pc[p] = "opening", stop' = stop \cup {at[p]}, UNCHANGED <<host, session>>
      PROVE  at[p] \in Hosts /\ Slot!Discards(at[p])
  BY <1>1, PoolAssumption DEF TypeOK, IInv, SlotInv, Slot!Discards
<1>2. CASE ConnectFails(p)
  <2>1. at[p] \in Hosts /\ Slot!Discards(at[p]) /\ pc[p] = "opening" /\ Leave(p)
    BY <1>1, <1>2 DEF ConnectFails, Leave
  <2>2. CASE p = Startup
    <3>1. UNCHANGED <<Phase, SentOn>>
      BY <2>1, <2>2, StartupUnseen DEF Leave
    <3>. QED  BY <2>1, <3>1 DEF Slot!Discard, Slot!Next
  <2>3. CASE p \in Callers
    <3>1. Phase[p] = "lost" /\ Slot!Moves(p, "idle", None)
      BY <2>1, <2>3, LeaveSeen DEF Phase
    <3>. QED  BY <2>1, <2>3, <3>1 DEF Slot!Fail, Slot!Next
  <2>. QED  BY <2>2, <2>3 DEF Procs
<1>3. CASE Cancel(p) /\ pc[p] = "opening"
  <2>1. at[p] \in Hosts /\ Slot!Discards(at[p])
    BY <1>1, <1>3 DEF Cancel
  <2>2. \A c \in Callers : /\ at'[c] = at[c]
                           /\ pc'[c] = pc[c] \/ (pc[c] = "opening" /\ pc'[c] = "aborting")
    BY <1>3 DEF Cancel, TypeOK, Procs
  <2>3. UNCHANGED <<Phase, SentOn>>
    BY <2>2, StaySeen DEF Seen, SeenOn
  <2>. QED  BY <2>1, <2>3 DEF Slot!Discard, Slot!Next
<1>4. CASE AbortEnds(p) \/ (Cancel(p) /\ pc[p] # "opening")
  <2>1. /\ Leave(p) /\ UNCHANGED stop
        /\ pc[p] \in {"aborting", "first", "queued", "stopping", "retry"}
    BY <1>4 DEF AbortEnds, Cancel
  <2>2. CASE p = Startup
    <3>1. UNCHANGED <<Phase, SentOn>>
      BY <2>1, <2>2, StartupUnseen DEF Leave
    <3>. QED  BY <2>1, <3>1 DEF Leave, Slot!vars
  <2>3. CASE p \in Callers
    <3>1. Phase[p] # "idle" /\ Slot!Moves(p, "idle", None)
      BY <2>1, <2>3, LeaveSeen DEF Phase
    <3>. QED  BY <2>1, <2>3, <3>1 DEF Leave, Slot!End, Slot!Next
  <2>. QED  BY <2>2, <2>3 DEF Procs
<1>. QED  BY <1>2, <1>3, <1>4

LEMMA CallRefines ==
  ASSUME TypeOK, NEW c \in Callers, CallStep(c)
  PROVE  [Slot!Next]_(Slot!vars)
<1>1. CASE StartCall(c)
  <2>1. "first" \in ProcState /\ Seen("first") = "first" /\ SeenOn("first", session) = session
    BY DEF ProcState, Seen, SeenOn
  <2>2. Slot!Moves(c, "first", session)
    BY <1>1, <2>1, MoveSeen DEF StartCall
  <2>3. Phase[c] = "idle"
    BY <1>1 DEF StartCall, Phase
  <2>. QED  BY <1>1, <2>2, <2>3 DEF StartCall, Slot!Begin, Slot!Next
<1>2. CASE AttemptEnds(c)
  <2>1. Slot!Moves(c, "idle", None) /\ Phase[c] # "idle"
    BY <1>2, LeaveSeen DEF AttemptEnds, Phase
  <2>. QED  BY <1>2, <2>1 DEF AttemptEnds, Leave, Slot!End, Slot!Next
<1>3. CASE AttemptLosesSession(c)
  <2>1. "queued" \in ProcState /\ Seen("queued") = "lost" /\ SeenOn("queued", None) = None
    BY DEF ProcState, Seen, SeenOn
  <2>2. Slot!Moves(c, "lost", None)
    BY <1>3, <2>1, MoveSeen DEF AttemptLosesSession
  <2>3. Phase[c] = "first"
    BY <1>3 DEF AttemptLosesSession, Phase
  <2>. QED  BY <1>3, <2>2, <2>3 DEF AttemptLosesSession, Slot!Lose, Slot!Next
<1>4. CASE TakeLock(c)
  <2>1. UNCHANGED <<Phase, SentOn>>
    <3>1. \A d \in Callers : \/ pc'[d] = pc[d] /\ at'[d] = at[d]
                             \/ pc[d] = "queued" /\ pc'[d] = "stopping"
      BY <1>4 DEF TakeLock, TypeOK, Procs
    <3>. QED  BY <3>1, StaySeen DEF Seen, SeenOn
  <2>2. Phase[c] = "lost"
    BY <1>4 DEF TakeLock, Phase
  <2>. QED  BY <1>4, <2>1, <2>2 DEF TakeLock, Slot!Retire, Slot!Next
<1>5. CASE ConnectAnew(c)
  <2>1. \A d \in Callers : \/ pc'[d] = pc[d] /\ at'[d] = at[d]
                           \/ pc[d] = "stopping" /\ pc'[d] = "opening"
    BY <1>5 DEF ConnectAnew, CreateHost, TypeOK, Procs
  <2>2. UNCHANGED <<Phase, SentOn>>
    BY <2>1, StaySeen DEF Seen, SeenOn
  <2>. QED  BY <1>5, <2>2 DEF ConnectAnew, Slot!vars
<1>. QED  BY <1>1, <1>2, <1>3, <1>4, <1>5 DEF CallStep

LEMMA StepRefines ==
  TypeOK /\ IInv /\ NoSessionYet /\ [Next]_vars => [Slot!Next]_(Slot!vars)
<1>. SUFFICES ASSUME TypeOK, IInv, NoSessionYet, [Next]_vars
              PROVE  [Slot!Next]_(Slot!vars)
  OBVIOUS
<1>1. ASSUME UNCHANGED <<stop, host, session, pc, at>>
      PROVE  UNCHANGED Slot!vars
  BY <1>1, StaySeen DEF Slot!vars
<1>2. ASSUME NEW h \in Hosts, HostStep(h)
      PROVE  UNCHANGED Slot!vars
  BY <1>1, <1>2, HostStepFrame
<1>3. ASSUME NEW p \in Procs, ConnectStep(p)
      PROVE  [Slot!Next]_(Slot!vars)
  BY <1>3, PublishRefines, ConnectEndsRefines DEF ConnectStep, Slot!Next
<1>4. CASE Shutdown
  <2>1. UNCHANGED <<Phase, SentOn>>
    BY <1>4, StaySeen DEF Shutdown
  <2>. QED  BY <1>4, <2>1 DEF Shutdown, Slot!Close, Slot!Next
<1>. QED  BY <1>1, <1>2, <1>3, <1>4, CallRefines DEF Next, vars

(* The pool is a ServerSlot: the published host is the connection in       *)
(* service, the hosts told to stop are the retired ones.  However calls,   *)
(* cancellations and the shutdown interleave, a call sends at most two     *)
(* attempts, the second on a host opened for it, and no host is published  *)
(* while another is, or after it was told to stop.                         *)
THEOREM PoolIsAServerSlot == Spec => ImplementsServerSlot
<1>1. Init => Slot!Init
  <2>. SUFFICES ASSUME Init
                PROVE  Slot!Init
    OBVIOUS
  <2>1. \A c \in Callers : pc[c] = "idle" /\ at[c] = None
    BY PoolAssumption DEF Init, Procs
  <2>2. Phase = [c \in Callers |-> "idle"] /\ SentOn = [c \in Callers |-> None]
    BY <2>1 DEF Phase, SentOn
  <2>. QED  BY <2>2 DEF Init, Slot!Init
<1>. QED  BY <1>1, StepRefines, Invariance, NoSessionInv, PTL
          DEF Spec, ImplementsServerSlot, Slot!Spec
=============================================================================
