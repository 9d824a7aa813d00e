----------------------------- MODULE ClientPool -----------------------------
(***************************************************************************)
(* One downstream MCP server as src/code_runner/client_pool.py keeps it:   *)
(* the host task that owns the server's transport (_ServerHost), the slot  *)
(* of that server in the pool's dictionaries (MCPClientPool._hosts and     *)
(* .sessions), the per-server reconnect lock, and the coroutines that use  *)
(* them: the startup connection, the tool calls and the pool's shutdown.   *)
(*                                                                         *)
(* Every dictionary of the pool is keyed by the server's name and no       *)
(* operation on one name reads another's entry, so one server is the whole *)
(* system; only shutdown() touches all the entries, and it empties them in *)
(* one synchronous prefix.                                                 *)
(*                                                                         *)
(* A step of the model is what the event loop runs between two awaits.     *)
(***************************************************************************)
EXTENDS Naturals

CONSTANTS
  Callers,           \* coroutines that call tools of this server
  Startup,           \* the _safe_connect coroutine of pool.startup()
  Hosts,             \* identities a _ServerHost may get, one per connection
  None,              \* no host, no session, free lock
  MaxCalls,          \* bound: tool calls the callers make together
  LegitErrorsMatch,  \* may the error text of a live server hold a marker of
                     \* _RECONNECTABLE ("connection" is one of them)?
  ServerMayHang      \* may a server accept the connection and never answer
                     \* initialize() or list_tools()?

Procs == Callers \cup {Startup}

ASSUME PoolAssumption ==
  /\ Startup \notin Callers
  /\ Hosts # {}
  /\ None \notin Hosts
  /\ None \notin Procs
  /\ MaxCalls \in Nat
  /\ LegitErrorsMatch \in BOOLEAN
  /\ ServerMayHang \in BOOLEAN

VARIABLES
  task,     \* task[h]: how far _ServerHost._run of h has come
  stop,     \* hosts whose _stop event is set
  dead,     \* hosts whose server went away while they served
  host,     \* _hosts[name]: the published host
  session,  \* sessions[name], named by the host that opened it
  lock,     \* holder of _reconnect_locks[name]
  pc,       \* pc[p]: the await process p is suspended in
  at,       \* at[p]: host whose task or session that await is on
  calls,    \* tool calls begun
  up        \* FALSE once shutdown() has run

vars == <<task, stop, dead, host, session, lock, pc, at, calls, up>>

TaskState == {"absent",     \* no such host yet
              "opening",    \* await opener(stack)
              "hung",       \* the same await, and the server never answers
              "unwinding",  \* opener raised: await stack.aclose()
              "failed",     \* error set, ready set, task over
              "serving",    \* ready set, await self._stop.wait()
              "closing",    \* stop seen: await stack.aclose()
              "closed"}     \* transport closed, task over

ProcState == {"idle",      \* not in the pool's code
              "first",     \* await session.call_tool, first attempt
              "queued",    \* await the reconnect lock
              "stopping",  \* await stale.stop()
              "opening",   \* await host.ready.wait()
              "aborting",  \* cancelled in "opening": await host.stop()
              "retry"}     \* await session.call_tool, second attempt

(* The types; whoever waits for a session or a host has one to wait for.   *)
TypeOK ==
  /\ task \in [Hosts -> TaskState]
  /\ stop \subseteq Hosts
  /\ dead \subseteq Hosts
  /\ host \in Hosts \cup {None}
  /\ session \in Hosts \cup {None}
  /\ lock \in Callers \cup {None}
  /\ pc \in [Procs -> ProcState]
  /\ at \in [Procs -> Hosts \cup {None}]
  /\ calls \in 0..MaxCalls
  /\ up \in BOOLEAN
  /\ \A p \in Procs :
       pc[p] \in {"first", "opening", "aborting", "retry"} => at[p] \in Hosts

(* The task of h is over; asyncio.wait({task}) returns at once.            *)
Over(h) == h # None => task[h] \in {"failed", "closed"}

(* h may own a server process or connection.                               *)
Live(h) == task[h] \in {"opening", "hung", "unwinding", "serving", "closing"}

(* The session of h answers.                                               *)
Answers(h) == task[h] = "serving" /\ h \notin dead

(* Mutant of StopReturns: stop() without SHUTDOWN_TIMEOUT. *)
WaitsForTask(p) == Over(at[p])

(* When asyncio.wait may return in _ServerHost.stop(): the task of the     *)
(* host is over, or SHUTDOWN_TIMEOUT has elapsed and the task goes on in   *)
(* the background (stop() never cancels it), so whatever the task does.    *)
StopReturns(p) == TRUE
-----------------------------------------------------------------------------
(* The pool as startup() has it once the server's host task is created.    *)
FirstHost == CHOOSE h \in Hosts : TRUE

Init ==
  /\ task = [h \in Hosts |-> IF h = FirstHost THEN "opening" ELSE "absent"]
  /\ pc = [p \in Procs |-> IF p = Startup THEN "opening" ELSE "idle"]
  /\ at = [p \in Procs |-> IF p = Startup THEN FirstHost ELSE None]
  /\ stop = {} /\ dead = {}
  /\ host = None /\ session = None /\ lock = None
  /\ calls = 0
  /\ up = TRUE
-----------------------------------------------------------------------------
(* _ServerHost._run, step by step.                                         *)

TaskStep(h, from, to) ==
  /\ task[h] = from
  /\ task' = [task EXCEPT ![h] = to]
  /\ UNCHANGED <<stop, dead, host, session, lock, pc, at, calls, up>>

OpenerReturns(h) == TaskStep(h, "opening", "serving")
OpenerRaises(h)  == TaskStep(h, "opening", "unwinding")
OpenerHangs(h)   == ServerMayHang /\ TaskStep(h, "opening", "hung")
HungOpenerRaises(h) == TaskStep(h, "hung", "unwinding")
OpenerUnwound(h) == TaskStep(h, "unwinding", "failed")

(* Mutant of SeesStop: hosts close with the pool only, as before the leak was fixed. *)
ClosedByShutdownOnly(h) == ~up /\ h \in stop /\ TaskStep(h, "serving", "closing")
SeesStop(h)      == h \in stop /\ TaskStep(h, "serving", "closing")
Closes(h)        == TaskStep(h, "closing", "closed")

(* The server's process dies, or it restarts and forgets the session.      *)
ServerDies(h) ==
  /\ task[h] = "serving"
  /\ dead' = dead \cup {h}
  /\ UNCHANGED <<task, stop, host, session, lock, pc, at, calls, up>>
-----------------------------------------------------------------------------
(* MCPClientPool._connect: it creates the host task and awaits its ready   *)
(* event.                                                                  *)
Unused == {h \in Hosts : task[h] = "absent"}

CreateHost(p) ==
  LET new == CHOOSE h \in Unused : TRUE
  IN  /\ Unused # {}
      /\ task' = [task EXCEPT ![new] = "opening"]
      /\ pc' = [pc EXCEPT ![p] = "opening"]
      /\ at' = [at EXCEPT ![p] = new]

(* Leaving `async with lock`; the startup connection never took it.        *)
Released(p) == IF lock = p THEN None ELSE lock

(* Mutant of Publish: the new session is not stored. *)
PublishWithoutSession(p) ==
  /\ pc[p] = "opening" /\ task[at[p]] = "serving"
  /\ host' = at[p]
  /\ lock' = Released(p)
  /\ IF p = Startup
       THEN /\ pc' = [pc EXCEPT ![p] = "idle"]
            /\ at' = [at EXCEPT ![p] = None]
       ELSE /\ pc' = [pc EXCEPT ![p] = "retry"]
            /\ at' = [at EXCEPT ![p] = session]
  /\ UNCHANGED <<task, stop, dead, session, calls, up>>

(* Mutant of Publish: the retry uses the session read before the reconnect. *)
RetriesOnOldSession(p) ==
  /\ pc[p] = "opening" /\ task[at[p]] = "serving"
  /\ host' = at[p]
  /\ session' = at[p]
  /\ lock' = Released(p)
  /\ IF p = Startup
       THEN /\ pc' = [pc EXCEPT ![p] = "idle"]
            /\ at' = [at EXCEPT ![p] = None]
       ELSE /\ pc' = [pc EXCEPT ![p] = "retry"]
            /\ at' = [at EXCEPT ![p] = session]
  /\ UNCHANGED <<task, stop, dead, calls, up>>

(* The tail of _connect once ready is set without an error.  A reconnect   *)
(* then leaves the lock, reads sessions[name] again and sends the second   *)
(* attempt, all without suspending.                                        *)
Publish(p) ==
  /\ pc[p] = "opening" /\ task[at[p]] = "serving"
  /\ host' = at[p]
  /\ session' = at[p]
  /\ lock' = Released(p)
  /\ IF p = Startup
       THEN /\ pc' = [pc EXCEPT ![p] = "idle"]
            /\ at' = [at EXCEPT ![p] = None]
       ELSE /\ pc' = [pc EXCEPT ![p] = "retry"]
            /\ at' = [at EXCEPT ![p] = session']
  /\ UNCHANGED <<task, stop, dead, calls, up>>

(* An exception leaves the pool's code, or a result returns to the caller. *)
Leave(p) ==
  /\ pc' = [pc EXCEPT ![p] = "idle"]
  /\ at' = [at EXCEPT ![p] = None]
  /\ lock' = Released(p)
  /\ UNCHANGED <<task, dead, host, session, calls, up>>

(* host.error is set: stop() the host, whose task is over, and raise it.   *)
ConnectFails(p) ==
  /\ pc[p] = "opening" /\ task[at[p]] = "failed"
  /\ stop' = stop \cup {at[p]}
  /\ Leave(p)

(* The BaseException branch of _connect, entered on a cancellation; the    *)
(* original error is raised when host.stop() returns.                      *)
AbortEnds(p) ==
  /\ pc[p] = "aborting"
  /\ StopReturns(p)
  /\ UNCHANGED stop
  /\ Leave(p)
-----------------------------------------------------------------------------
(* MCPClientPool.call_tool; without a session it raises at once.           *)
StartCall(c) ==
  /\ pc[c] = "idle" /\ pc[Startup] = "idle"
  /\ calls < MaxCalls
  /\ session # None
  /\ calls' = calls + 1
  /\ pc' = [pc EXCEPT ![c] = "first"]
  /\ at' = [at EXCEPT ![c] = session]
  /\ UNCHANGED <<task, stop, dead, host, session, lock, up>>

(* A result, or an exception call_tool passes on: on the second attempt    *)
(* that is any exception.                                                  *)
AttemptEnds(c) ==
  /\ pc[c] \in {"first", "retry"}
  /\ UNCHANGED stop
  /\ Leave(c)

(* _is_reconnectable(e) on the first attempt: the transport is gone, or    *)
(* the text of a legitimate error matches.                                 *)
AttemptLosesSession(c) ==
  /\ pc[c] = "first"
  /\ LegitErrorsMatch \/ ~Answers(at[c])
  /\ pc' = [pc EXCEPT ![c] = "queued"]
  /\ at' = [at EXCEPT ![c] = None]
  /\ UNCHANGED <<task, stop, dead, host, session, lock, calls, up>>

(* Mutant of TakeLock: a reconnect without the lock. *)
TakesLockAnyway(c) ==
  /\ pc[c] = "queued"
  /\ lock' = c
  /\ host' = None
  /\ stop' = stop \cup ({host} \ {None})
  /\ pc' = [pc EXCEPT ![c] = "stopping"]
  /\ at' = [at EXCEPT ![c] = host]
  /\ UNCHANGED <<task, dead, session, calls, up>>

(* _reconnect has the lock: it pops the published host and asks it to stop.*)
TakeLock(c) ==
  /\ pc[c] = "queued"
  /\ lock = None
  /\ lock' = c
  /\ host' = None
  /\ stop' = stop \cup ({host} \ {None})
  /\ pc' = [pc EXCEPT ![c] = "stopping"]
  /\ at' = [at EXCEPT ![c] = host]
  /\ UNCHANGED <<task, dead, session, calls, up>>

(* stale.stop() has returned (or there was nothing to stop): connect anew. *)
ConnectAnew(c) ==
  /\ pc[c] = "stopping"
  /\ StopReturns(c)
  /\ CreateHost(c)
  /\ UNCHANGED <<stop, dead, host, session, lock, calls, up>>

(* Mutant of Cancel: a cancelled connection does not stop its host. *)
CancelForgetsHost(p) ==
  /\ pc[p] \notin {"idle", "aborting"}
  /\ UNCHANGED stop
  /\ Leave(p)

(* CancelledError in whatever the process awaits: the per-call timeout of  *)
(* the tool wrapper (executor.py) or the client for a caller,              *)
(* CONNECTION_TIMEOUT for the startup connection.                          *)
Cancel(p) ==
  \/ /\ pc[p] = "opening"
     /\ stop' = stop \cup {at[p]}
     /\ pc' = [pc EXCEPT ![p] = "aborting"]
     /\ UNCHANGED <<task, dead, host, session, lock, at, calls, up>>
  \/ /\ pc[p] \in {"first", "queued", "stopping", "retry"}
     /\ UNCHANGED stop
     /\ Leave(p)

(* MCPClientPool.shutdown(): the dictionaries are emptied and every stop() *)
(* signals its host before the first suspension; the rest only waits.      *)
Shutdown ==
  /\ up /\ pc[Startup] = "idle"
  /\ up' = FALSE
  /\ stop' = stop \cup ({host} \ {None})
  /\ host' = None
  /\ session' = None
  /\ UNCHANGED <<task, dead, lock, pc, at, calls>>
-----------------------------------------------------------------------------
HostStep(h) ==
  \/ OpenerReturns(h) \/ OpenerRaises(h) \/ OpenerHangs(h)
  \/ HungOpenerRaises(h) \/ OpenerUnwound(h)
  \/ SeesStop(h) \/ Closes(h) \/ ServerDies(h)

ConnectStep(p) == Publish(p) \/ ConnectFails(p) \/ AbortEnds(p) \/ Cancel(p)

CallStep(c) ==
  \/ StartCall(c) \/ AttemptEnds(c) \/ AttemptLosesSession(c)
  \/ TakeLock(c) \/ ConnectAnew(c)

Next ==
  \/ \E h \in Hosts : HostStep(h)
  \/ \E p \in Procs : ConnectStep(p)
  \/ \E c \in Callers : CallStep(c)
  \/ Shutdown

Spec == Init /\ [][Next]_vars

(* What is sure to happen: an opener that does not hang settles, a closing *)
(* transport closes (anyio kills a stdio process that ignores the close),  *)
(* the event loop resumes a coroutine whose await is over, and the timers  *)
(* fire.  A hung server owes nothing; nothing says a call returns.         *)
Fairness ==
  /\ \A h \in Hosts :
       /\ WF_vars(OpenerReturns(h) \/ OpenerRaises(h) \/ OpenerHangs(h))
       /\ WF_vars(OpenerUnwound(h))
       /\ WF_vars(SeesStop(h))
       /\ WF_vars(Closes(h))
  /\ \A p \in Procs : WF_vars(AbortEnds(p)) /\ WF_vars(Cancel(p))

FairSpec == Spec /\ Fairness
-----------------------------------------------------------------------------
(* No orphan (client_pool.py:35-41, 1038 leaked processes): a host that    *)
(* may own a server process is published, or a coroutine is still waiting  *)
(* for it, or it has been told to stop.                                    *)
NoOrphan ==
  \A h \in Hosts : Live(h) =>
    \/ h = host
    \/ h \in stop
    \/ \E p \in Procs : pc[p] = "opening" /\ at[p] = h

(* Callers that fail together reconnect one by one: at most one host at a  *)
(* time may own a server process without having been told to stop.         *)
OneServerProcess ==
  \A g, h \in Hosts :
    Live(g) /\ Live(h) /\ g \notin stop /\ h \notin stop => g = h

(* sessions[name] and _hosts[name] agree: the session belongs to the       *)
(* published host; while no host is published (a reconnect holds the slot, *)
(* or was cancelled) it belongs to a host told to stop, so that the next   *)
(* call fails fast and reconnects.                                         *)
SessionMatchesHost ==
  IF host = None THEN session = None \/ session \in stop
                 ELSE session = host

(* The second attempt is sent on the session of the host that is published *)
(* at that moment and has not been told to stop: never on the session      *)
(* whose failure caused it.                                                *)
RetryUsesPublishedHost ==
  [][\A c \in Callers :
       pc[c] # "retry" /\ pc'[c] = "retry" =>
         at'[c] = host' /\ at'[c] \notin stop']_vars

(* How a call looks from outside the pool.                                 *)
Phase == [c \in Callers |->
  CASE pc[c] = "idle"  -> "idle"
    [] pc[c] = "first" -> "first"
    [] pc[c] = "retry" -> "second"
    [] OTHER           -> "lost"]

SentOn == [c \in Callers |-> IF pc[c] \in {"first", "retry"} THEN at[c] ELSE None]

Slot == INSTANCE ServerSlot WITH
  Connections <- Hosts, current <- host, last <- session, retired <- stop,
  phase <- Phase, on <- SentOn

(* The pool is a ServerSlot: the published host is the connection in       *)
(* service, the hosts told to stop are the retired ones.  However the      *)
(* calls, their cancellations and the shutdown interleave, a call sends at *)
(* most two attempts, the second on a host opened for it, and no host is   *)
(* published while another is or after it was told to stop.                *)
ImplementsServerSlot == Slot!Spec

(* A tool call ends, with a result or an error, even when its server hangs *)
(* while it reconnects.                                                    *)
CallsEnd == \A p \in Procs : pc[p] # "idle" ~> pc[p] = "idle"

(* client_pool.py:144-145: any wait for a host that is cut short must put  *)
(* the host out, or its process is orphaned: a host told to stop closes    *)
(* its transport.                                                          *)
StoppedHostsClose == \A h \in Hosts : h \in stop ~> Over(h)

(* What holds of it: all of them do but those whose server hangs in        *)
(* initialize(), wherever the stop meets the opening or the serving host.  *)
StoppedHostsCloseUnlessHung ==
  \A h \in Hosts : h \in stop ~> Over(h) \/ task[h] = "hung"
=============================================================================
