------------------------------- MODULE Server -------------------------------
(* The daemon's MCP sessions (server.py, late_response.py): the state all  *)
(* of them share, which the first one builds while the others wait, the    *)
(* cached roots of a session, and the replies to its requests, those the   *)
(* client has cancelled included.                                          *)
(*                                                                         *)
(* The global pool is a _PoolHost, seen as in ProjectPools; what a request *)
(* does once it has its project is the "working" of the other modules.     *)
EXTENDS Naturals, FiniteSets

CONSTANTS
  Sessions,    \* MCP client sessions
  Ids,         \* request ids: every session numbers its own
  Pools,       \* global pools the process may start
  None,
  MaxRequests  \* bound: requests of all sessions

ASSUME ServerAssumption ==
  /\ None \notin Pools \cup Sessions
  /\ MaxRequests \in Nat

VARIABLES
  shared,    \* _daemon_state, named by its global pool
  lock,      \* the session that holds _daemon_lock
  pool,      \* pool[i]: the task of _PoolHost i
  told,      \* pools whose _stop is set
  lost,      \* history: pools whose session was cancelled as it waited
  sess,      \* sess[s]: where the session's lifespan is
  mine,      \* mine[s]: the pool it waits for or works with
  roots,     \* roots[s]: what _session_roots holds for it
  overlap,   \* history: sessions that asked for roots twice at once
  req,       \* req[s][n]: request n of s
  gaveUp,    \* gaveUp[s]: requests the client has cancelled
  heard,     \* history: those whose cancellation the server has read
  cancelled  \* cancelled[s]: the set of late_response's filter

poolVars == <<shared, lock, pool, told, lost>>
sessVars == <<sess, mine>>
reqVars  == <<roots, overlap, req, gaveUp, heard, cancelled>>
vars == <<poolVars, sessVars, reqVars>>

PoolState == {"absent",
              "starting",  \* await pool.startup()
              "ready",     \* await _stop.wait()
              "closing",   \* await pool.shutdown()
              "closed",
              "cut"}       \* the task was cancelled, no shutdown
SessState == {"away",
              "queued",    \* await _daemon_lock
              "waiting",   \* in it: await host.ready.wait()
              "stopping",  \* in it: await host.stop()
              "open",
              "gone"}
ReqState == {"new",
             "sent",       \* on its way, or read and its handler not begun
             "asking",     \* await list_roots()
             "working",
             "sending",    \* through the filter: await inner.send()
             "answered",
             "refusing",   \* cancelled; the SDK's reply is to be sent
             "refused",    \* it was dropped; the handler may still answer
             "dropped"}

(* The types; who is in the lock holds it, and every open session works on *)
(* the shared state.                                                       *)
TypeOK ==
  /\ shared \in Pools \cup {None}
  /\ lock \in Sessions \cup {None}
  /\ pool \in [Pools -> PoolState]
  /\ told \subseteq Pools /\ lost \subseteq Pools
  /\ sess \in [Sessions -> SessState]
  /\ mine \in [Sessions -> Pools \cup {None}]
  /\ roots \in [Sessions -> {"unknown", "none", "project"}]
  /\ overlap \subseteq Sessions
  /\ req \in [Sessions -> [Ids -> ReqState]]
  /\ gaveUp \in [Sessions -> SUBSET Ids]
  /\ heard \in [Sessions -> SUBSET Ids]
  /\ cancelled \in [Sessions -> SUBSET Ids]
  /\ \A s \in Sessions :
       /\ sess[s] \in {"waiting", "stopping"} <=> lock = s
       /\ sess[s] = "open" => mine[s] = shared /\ shared # None
-----------------------------------------------------------------------------
Init ==
  /\ shared = None /\ lock = None
  /\ pool = [i \in Pools |-> "absent"]
  /\ told = {} /\ lost = {}
  /\ sess = [s \in Sessions |-> "away"]
  /\ mine = [s \in Sessions |-> None]
  /\ roots = [s \in Sessions |-> "unknown"]
  /\ overlap = {}
  /\ req = [s \in Sessions |-> [n \in Ids |-> "new"]]
  /\ gaveUp = [s \in Sessions |-> {}]
  /\ heard = [s \in Sessions |-> {}]
  /\ cancelled = [s \in Sessions |-> {}]

SessIs(s, state) == sess' = [sess EXCEPT ![s] = state]
PoolIs(i, state) == pool' = [pool EXCEPT ![i] = state]
-----------------------------------------------------------------------------
(* lifespan and _daemon_state_singleton                                    *)

Connect(s) ==
  /\ sess[s] = "away"
  /\ SessIs(s, "queued")
  /\ UNCHANGED <<poolVars, mine, reqVars>>

Reuse(s) ==
  /\ sess[s] = "queued" /\ lock = None /\ shared # None
  /\ SessIs(s, "open")
  /\ mine' = [mine EXCEPT ![s] = shared]
  /\ UNCHANGED <<poolVars, reqVars>>

StartGlobal(s) ==
  /\ sess[s] = "queued" /\ lock = None /\ shared = None
  /\ \E i \in Pools :
       /\ pool[i] = "absent"
       /\ PoolIs(i, "starting")
       /\ mine' = [mine EXCEPT ![s] = i]
  /\ lock' = s
  /\ SessIs(s, "waiting")
  /\ UNCHANGED <<shared, told, lost, reqVars>>

Share(s) ==
  /\ sess[s] = "waiting" /\ pool[mine[s]] # "starting"
  /\ shared' = mine[s]
  /\ lock' = None
  /\ SessIs(s, "open")
  /\ UNCHANGED <<pool, told, lost, mine, reqVars>>

(* Mutant of StartTimesOut: wait_for without STARTUP_TIMEOUT. *)
NeverTimesOut(s) ==
  /\ FALSE
  /\ UNCHANGED vars

(* Mutant of StartTimesOut: the timeout is propagated at once. *)
TimesOutUntold(s) ==
  /\ sess[s] = "waiting" /\ pool[mine[s]] = "starting"
  /\ lock' = None
  /\ SessIs(s, "gone")
  /\ UNCHANGED <<shared, pool, told, lost, mine, reqVars>>

(* STARTUP_TIMEOUT: "Tear the host down before propagating".               *)
StartTimesOut(s) ==
  /\ sess[s] = "waiting" /\ pool[mine[s]] = "starting"
  /\ told' = told \cup {mine[s]}
  /\ SessIs(s, "stopping")
  /\ UNCHANGED <<shared, lock, pool, lost, mine, reqVars>>

(* stop() returns: the task is over, or is cancelled after 15 s, if need   *)
(* be in the startup.                                                      *)
StopReturns(s) ==
  /\ sess[s] = "stopping" /\ pool[mine[s]] # "ready"
  /\ pool' = [pool EXCEPT ![mine[s]] = IF @ = "starting" THEN "cut" ELSE @]
  /\ lock' = None
  /\ SessIs(s, "gone")
  /\ UNCHANGED <<shared, told, lost, mine, reqVars>>

(* The session is cancelled in its lifespan. A wait for ready leaves the   *)
(* pool alone; a wait_for in stop() takes the pool's task with it.         *)
CancelStart(s) ==
  /\ sess[s] \in {"queued", "waiting", "stopping"}
  /\ SessIs(s, "gone")
  /\ lock' = IF lock = s THEN None ELSE lock
  /\ lost' = IF sess[s] = "waiting" THEN lost \cup {mine[s]} ELSE lost
  /\ pool' = IF sess[s] = "stopping" /\ pool[mine[s]] \in {"starting", "ready"}
             THEN [pool EXCEPT ![mine[s]] = "cut"] ELSE pool
  /\ UNCHANGED <<shared, told, mine, reqVars>>

(* _PoolHost._run                                                          *)
Started(i)  == pool[i] = "starting" /\ PoolIs(i, "ready")
SeesStop(i) == pool[i] = "ready" /\ i \in told /\ PoolIs(i, "closing")
Closed(i)   == pool[i] = "closing" /\ PoolIs(i, "closed")
PoolStep(i) ==
  /\ Started(i) \/ SeesStop(i) \/ Closed(i)
  /\ UNCHANGED <<shared, lock, told, lost, sessVars, reqVars>>
-----------------------------------------------------------------------------
(* The requests of an open session.                                        *)

ReqIs(s, n, state) == req' = [req EXCEPT ![s][n] = state]
Sent == {x \in Sessions \X Ids : req[x[1]][x[2]] # "new"}

Send(s, n) ==
  /\ sess[s] = "open" /\ req[s][n] = "new"
  /\ Cardinality(Sent) < MaxRequests
  /\ ReqIs(s, n, "sent")
  /\ UNCHANGED <<poolVars, sessVars, roots, overlap, gaveUp, heard, cancelled>>

Asking(s) == {n \in Ids : req[s][n] = "asking"}

(* Mutant of Read: the cached roots are not looked up. *)
AsksEachTime(s, n) ==
  /\ sess[s] = "open" /\ req[s][n] = "sent"
  /\ ReqIs(s, n, "asking")
  /\ overlap' = IF Asking(s) # {} THEN overlap \cup {s} ELSE overlap
  /\ UNCHANGED <<poolVars, sessVars, roots, gaveUp, heard, cancelled>>

(* The handler begins: _resolve_project_dir looks the session up, and asks *)
(* the client when it has no entry.                                        *)
Read(s, n) ==
  /\ sess[s] = "open" /\ req[s][n] = "sent"
  /\ ReqIs(s, n, IF roots[s] = "unknown" THEN "asking" ELSE "working")
  /\ overlap' = IF roots[s] = "unknown" /\ Asking(s) # {}
                THEN overlap \cup {s} ELSE overlap
  /\ UNCHANGED <<poolVars, sessVars, roots, gaveUp, heard, cancelled>>

(* The client names its project, or does not answer within ROOTS_TIMEOUT   *)
(* or raises: either is cached, over whatever is there by now.             *)
RootsEnd(s, n) ==
  /\ req[s][n] = "asking"
  /\ \E answer \in {"none", "project"} : roots' = [roots EXCEPT ![s] = answer]
  /\ ReqIs(s, n, "working")
  /\ UNCHANGED <<poolVars, sessVars, overlap, gaveUp, heard, cancelled>>

(* Mutant of Filtered: one set for all sessions. *)
FilteredByAny(s, n) == \E x \in Sessions : n \in cancelled[x]

(* _CancelledResponseFilter.send drops the reply.                          *)
Filtered(s, n) == n \in cancelled[s]

(* Where a reply is once it has met the filter.                            *)
Through(s, n, otherwise) == IF Filtered(s, n) THEN otherwise ELSE "sending"

(* The handler ends, cancelled or not: its reply meets the filter.         *)
Reply(s, n) ==
  /\ req[s][n] \in {"working", "refused"}
  /\ ReqIs(s, n, Through(s, n, "dropped"))
  /\ UNCHANGED <<poolVars, sessVars, roots, overlap, gaveUp, heard, cancelled>>

(* Mutant of Refuse: the id leaves the set with the reply it drops. *)
DropsOnce(s, n) ==
  /\ req[s][n] = "refusing"
  /\ ReqIs(s, n, Through(s, n, "refused"))
  /\ cancelled' = [cancelled EXCEPT ![s] = @ \ {n}]
  /\ UNCHANGED <<poolVars, sessVars, roots, overlap, gaveUp, heard>>

(* RequestResponder.cancel answers "Request cancelled" for the handler.    *)
Refuse(s, n) ==
  /\ req[s][n] = "refusing"
  /\ ReqIs(s, n, Through(s, n, "refused"))
  /\ UNCHANGED <<poolVars, sessVars, roots, overlap, gaveUp, heard, cancelled>>

Deliver(s, n) ==
  /\ req[s][n] = "sending"
  /\ ReqIs(s, n, "answered")
  /\ UNCHANGED <<poolVars, sessVars, roots, overlap, gaveUp, heard, cancelled>>

(* The client sends notifications/cancelled and forgets the id.            *)
GiveUp(s, n) ==
  /\ sess[s] = "open" /\ req[s][n] \in {"sent", "asking", "working", "sending", "answered"}
  /\ gaveUp' = [gaveUp EXCEPT ![s] = @ \cup {n}]
  /\ UNCHANGED <<poolVars, sessVars, roots, overlap, req, heard, cancelled>>

(* The notification arrives behind its request. The reader notes the id    *)
(* before the SDK sees the message. The SDK cancels a handler at work, or  *)
(* the sending of its reply; one that has not begun begins all the same,   *)
(* unless the SDK finds it in time.                                        *)
ReadCancel(s, n) ==
  /\ sess[s] = "open" /\ n \in gaveUp[s] \ heard[s]
  /\ heard' = [heard EXCEPT ![s] = @ \cup {n}]
  /\ cancelled' = [cancelled EXCEPT ![s] = @ \cup {n}]
  /\ \/ /\ req[s][n] \in {"sent", "asking", "working", "sending"}
        /\ ReqIs(s, n, "refusing")
     \/ req[s][n] \in {"sent", "sending", "answered"} /\ UNCHANGED req
  /\ UNCHANGED <<poolVars, sessVars, roots, overlap, gaveUp>>

(* The client closes the session: whatever it waits for ends.              *)
Disconnect(s) ==
  /\ sess[s] = "open"
  /\ SessIs(s, "gone")
  /\ req' = [req EXCEPT ![s] = [n \in Ids |->
       IF @[n] \in {"new", "answered"} THEN @[n] ELSE "dropped"]]
  /\ UNCHANGED <<poolVars, mine, roots, overlap, gaveUp, heard, cancelled>>
-----------------------------------------------------------------------------
StartStep(s) ==
  \/ Connect(s) \/ Reuse(s) \/ StartGlobal(s) \/ Share(s)
  \/ StartTimesOut(s) \/ StopReturns(s) \/ CancelStart(s) \/ Disconnect(s)

RequestStep(s, n) ==
  \/ Send(s, n) \/ Read(s, n) \/ RootsEnd(s, n) \/ Reply(s, n)
  \/ Deliver(s, n) \/ GiveUp(s, n) \/ ReadCancel(s, n) \/ Refuse(s, n)

Next ==
  \/ \E i \in Pools : PoolStep(i)
  \/ \E s \in Sessions : StartStep(s) \/ \E n \in Ids : RequestStep(s, n)

Spec == Init /\ [][Next]_vars

(* The loop serves the lock's waiters in turn, timers fire, a run ends     *)
(* (Broker's RunEnds) and the stream takes the reply. Nothing is assumed   *)
(* of a startup, nor of the client.                                        *)
Fairness ==
  /\ \A i \in Pools : WF_vars((SeesStop(i) \/ Closed(i)) /\ PoolStep(i))
  /\ \A s \in Sessions :
       /\ SF_vars(Reuse(s) \/ StartGlobal(s))
       /\ WF_vars(Share(s) \/ StartTimesOut(s))
       /\ WF_vars(StopReturns(s))
       /\ \A n \in Ids : WF_vars(Read(s, n) \/ RootsEnd(s, n) \/ Reply(s, n) \/ Deliver(s, n))

FairSpec == Spec /\ Fairness
-----------------------------------------------------------------------------
(* server.py:84-89: one copy of every global server for all sessions. A    *)
(* pool is live once it starts; two live ones are both the daemon's only   *)
(* if one was told to stop, or its session was cancelled as it waited      *)
(* (only TimeoutError tears the host down).                                *)
OneGlobalPool ==
  \A i, j \in Pools :
    /\ pool[i] # "absent" /\ i \notin told \cup lost
    /\ pool[j] # "absent" /\ j \notin told \cup lost
    => i = j

(* A session that waits for the shared state gets it or an error, even     *)
(* when the startup of the one before it never ends; this needs a pool     *)
(* left to start, a bound of the instance.                                 *)
SessionsStart ==
  \A s \in Sessions :
    sess[s] = "queued" ~> \/ sess[s] \in {"open", "gone"}
                          \/ \A i \in Pools : pool[i] # "absent"

(* server.py, _session_roots: "Roots запрашиваются у клиента один раз на   *)
(* MCP-сессию": a session that has its project keeps it, unless two of its *)
(* requests asked at once, when the slower answer may take it away.        *)
ProjectStays ==
  [][\A s \in Sessions :
       s \notin overlap /\ roots[s] = "project" => roots'[s] = "project"]_vars

(* late_response.py: after the server has read a cancellation it sends     *)
(* neither the SDK's "Request cancelled" nor, when the handler ends at all, *)
(* its late result; a reply to a request the client gave up can only have  *)
(* crossed the cancellation on the wire.                                   *)
NoReplyAfterCancel ==
  [][\A s \in Sessions, n \in Ids :
       req[s][n] # "sending" /\ req'[s][n] = "sending" => n \notin heard[s]]_vars

(* And every request its own client does not cancel is answered, whatever  *)
(* other sessions cancel under the same numbers.                           *)
UncancelledAnswered ==
  \A s \in Sessions, n \in Ids :
    req[s][n] = "sent" ~> \/ req[s][n] = "answered"
                          \/ n \in gaveUp[s]
                          \/ sess[s] = "gone"
=============================================================================
