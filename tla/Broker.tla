------------------------------- MODULE Broker -------------------------------
(***************************************************************************)
(* One execute_code run in subprocess isolation: the child that runs the   *)
(* user's code (subprocess_worker.py: _RpcBridge, _run, run_worker), the   *)
(* parent that performs its tool calls (executor.py: _run_in_subprocess)   *)
(* and the pipe between them.                                              *)
(*                                                                         *)
(* A request is named by the number _RpcBridge gives it.  Every request    *)
(* hands a blocking conn.recv to the thread pool (run_in_executor).  When  *)
(* the coroutine that awaits it is cancelled, a recv that no thread has    *)
(* begun is dropped with it, and a thread that has begun one goes on       *)
(* reading.  A thread is named by the request whose recv it runs.          *)
(***************************************************************************)
EXTENDS Naturals, Sequences

CONSTANTS
  Tasks,       \* coroutines of the user's code (asyncio.gather)
  None,        \* no task, no request, no verdict
  MaxRequests  \* bound: tool calls of the run

Verdict == {"report",     \* the body of ("done", body)
            "died",       \* EOF: "isolation worker died ..."
            "isolation",  \* the response could not be sent: OSError
            "timeout",    \* wait_for: "Execution timed out ..."
            "cancelled"}  \* CancelledError from the client

ASSUME BrokerAssumption ==
  /\ None \notin Tasks
  /\ None \notin Nat \cup Verdict
  /\ MaxRequests \in Nat

VARIABLES
  child,    \* the child process
  lock,     \* holder of _RpcBridge._lock
  counter,  \* _RpcBridge._counter
  pc,       \* pc[t]: where task t is in _RpcBridge.__call__
  req,      \* req[t]: number of the last request of t
  answer,   \* answer[t]: number of the request whose response t was given
  queued,   \* requests whose recv waits for a thread
  readers,  \* threads blocked in conn.recv
  abandoned, \* history: the code has cancelled a call that was sent
  up,       \* the pipe, child to parent
  down,     \* the pipe, parent to child
  parent,   \* where _run_in_subprocess is
  cur,      \* request whose wrapper the parent awaits
  verdict   \* how _serve ended

childVars  == <<lock, counter, pc, req, answer, queued, readers, abandoned>>
parentVars == <<parent, cur, verdict>>
vars == <<child, childVars, up, down, parentVars>>

ChildState == {"running",   \* the user's code runs
               "draining",  \* it ended: asyncio.run cancels what is left and
                            \* waits for the threads of the default executor
               "reported",  \* ("done", result) is sent
               "dead"}
ParentState == {"reading",    \* await run_in_executor(_recv)
                "executing",  \* await wrapper(**kwargs)
                "ended",      \* _serve returned, raised or was cancelled
                "joining",    \* await run_in_executor(proc.join)
                "done"}

Request == 1..MaxRequests
Done == 0                 \* the ("done", result) message on the pipe

(* Message m, sent by the child, is not read yet.                          *)
Unread(m) == \E i \in 1..Len(up) : up[i] = m

(* The requests on the pipe; the report, when it is sent, comes last.      *)
Requests == IF Unread(Done) THEN SubSeq(up, 1, Len(up) - 1) ELSE up

(* The types; a task that reads waits for a request it sent.               *)
TypeOK ==
  /\ child \in ChildState
  /\ lock \in Tasks \cup {None}
  /\ counter \in 0..MaxRequests
  /\ pc \in [Tasks -> {"idle", "waiting", "reading"}]
  /\ req \in [Tasks -> Request \cup {None}]
  /\ answer \in [Tasks -> Request \cup {None}]
  /\ queued \subseteq 1..counter
  /\ readers \subseteq 1..counter
  /\ abandoned \in BOOLEAN
  /\ up \in Seq(Request \cup {Done})
  /\ down \in Seq(Request)
  /\ parent \in ParentState
  /\ cur \in Request \cup {None}
  /\ parent = "executing" => cur # None
  /\ verdict \in Verdict \cup {None}
  /\ \A t \in Tasks : pc[t] = "reading" => lock = t /\ req[t] \in 1..counter

Init ==
  /\ child = "running" /\ lock = None /\ counter = 0
  /\ pc = [t \in Tasks |-> "idle"]
  /\ req = [t \in Tasks |-> None]
  /\ answer = [t \in Tasks |-> None]
  /\ queued = {} /\ readers = {} /\ abandoned = FALSE /\ up = <<>> /\ down = <<>>
  /\ parent = "reading" /\ cur = None /\ verdict = None
-----------------------------------------------------------------------------
(* The child.                                                              *)

(* The user's code calls a tool: `async with self._lock`.                  *)
UserCalls(t) ==
  /\ child = "running" /\ pc[t] = "idle"
  /\ counter < MaxRequests
  /\ pc' = [pc EXCEPT ![t] = "waiting"]
  /\ UNCHANGED <<child, lock, counter, req, answer, queued, readers, abandoned,
                 up, down, parentVars>>

(* The request of task t gets the next number.                             *)
Numbers(t) ==
  /\ counter < MaxRequests
  /\ counter' = counter + 1
  /\ req' = [req EXCEPT ![t] = counter']
  /\ answer' = [answer EXCEPT ![t] = None]

(* conn.send, then a conn.recv for the thread pool, in one step of the     *)
(* event loop.                                                             *)
Sends(t) ==
  /\ Numbers(t)
  /\ lock' = t
  /\ pc' = [pc EXCEPT ![t] = "reading"]
  /\ queued' = queued \cup {counter'}
  /\ up' = Append(up, counter')
  /\ UNCHANGED <<child, readers, abandoned, down, parentVars>>

(* Mutant of SendCall: the bridge without its lock. *)
SendsWithoutLock(t) ==
  /\ child = "running" /\ pc[t] = "waiting"
  /\ Sends(t)

(* Task t has the lock: its request goes out.                              *)
SendCall(t) ==
  /\ child = "running" /\ pc[t] = "waiting" /\ lock = None
  /\ Sends(t)

(* conn.send raises (an argument that does not pickle): the number is      *)
(* taken, nothing is on the pipe, and the lock is released.                *)
SendFails(t) ==
  /\ child = "running" /\ pc[t] = "waiting" /\ lock = None
  /\ Numbers(t)
  /\ pc' = [pc EXCEPT ![t] = "idle"]
  /\ UNCHANGED <<child, lock, queued, readers, abandoned, up, down, parentVars>>

(* A thread of the pool takes up the recv of request r.                    *)
Begin(r) ==
  /\ child = "running"
  /\ queued' = queued \ {r}
  /\ readers' = readers \cup {r}
  /\ UNCHANGED <<child, lock, counter, pc, req, answer, abandoned, up, down,
                 parentVars>>

(* Thread r takes the next response off the pipe.  The task that awaits    *)
(* the thread returns it without a look at its number (_rid is unused); an *)
(* abandoned thread drops it.                                              *)
Receive(r) ==
  /\ child \in {"running", "draining"} /\ down # <<>>
  /\ readers' = readers \ {r}
  /\ down' = Tail(down)
  /\ LET reader == {t \in Tasks : pc[t] = "reading" /\ req[t] = r}
     IN  /\ pc' = [t \in Tasks |-> IF t \in reader THEN "idle" ELSE pc[t]]
         /\ answer' = [t \in Tasks |->
                         IF t \in reader THEN Head(down) ELSE answer[t]]
         /\ lock' = IF reader = {} THEN lock ELSE None
  /\ UNCHANGED <<child, counter, req, queued, abandoned, up, parentVars>>

(* asyncio.wait_for of the user's code gives up on a call.  A recv that no *)
(* thread has begun is cancelled with it.                                  *)
CancelCall(t) ==
  /\ child = "running" /\ pc[t] # "idle"
  /\ abandoned' = (abandoned \/ pc[t] = "reading")
  /\ pc' = [pc EXCEPT ![t] = "idle"]
  /\ lock' = IF lock = t THEN None ELSE lock
  /\ queued' = IF pc[t] = "reading" THEN queued \ {req[t]} ELSE queued
  /\ UNCHANGED <<child, counter, req, answer, readers, up, down, parentVars>>

(* The top-level code returned or raised (a gather raises its first error  *)
(* and leaves the other calls pending): asyncio.run cancels every task.    *)
UserCodeEnds ==
  /\ child = "running"
  /\ child' = "draining"
  /\ pc' = [t \in Tasks |-> "idle"]
  /\ lock' = None
  /\ queued' = {}
  /\ UNCHANGED <<counter, req, answer, readers, abandoned, up, down, parentVars>>

(* asyncio.run has joined the threads that read; run_worker sends          *)
(* ("done", result) and the process exits.  The request of a recv that was *)
(* dropped may still be on the pipe, before the report.                    *)
Report ==
  /\ child = "draining" /\ readers = {}
  /\ child' = "reported"
  /\ up' = Append(up, Done)
  /\ UNCHANGED <<childVars, down, parentVars>>

(* The child exits after its report, or dies under it: rlimits, the OOM    *)
(* killer, a crash of the interpreter.                                     *)
ChildDies ==
  /\ child # "dead"
  /\ child' = "dead"
  /\ UNCHANGED <<childVars, up, down, parentVars>>
-----------------------------------------------------------------------------
(* The parent.                                                             *)

Serving == parent \in {"reading", "executing"}

Ends(v) ==
  /\ parent' = "ended"
  /\ verdict' = v
  /\ UNCHANGED cur

(* Mutant of ReadMessage: calls are served without waiting for their end. *)
ServesWithoutWaiting ==
  /\ Serving /\ up # <<>>
  /\ up' = Tail(up)
  /\ \/ /\ Head(up) = Done
        /\ Ends("report")
     \/ /\ Head(up) # Done
        /\ parent' = "executing" /\ cur' = Head(up)
        /\ UNCHANGED verdict
  /\ UNCHANGED <<child, childVars, down>>

(* _serve: the next message, in the order the child sent them.             *)
ReadMessage ==
  /\ parent = "reading" /\ up # <<>>
  /\ up' = Tail(up)
  /\ \/ /\ Head(up) = Done
        /\ Ends("report")
     \/ /\ Head(up) # Done
        /\ parent' = "executing" /\ cur' = Head(up)
        /\ UNCHANGED verdict
  /\ UNCHANGED <<child, childVars, down>>

(* What a dead child left in the pipe is read before EOF.                  *)
ReadEOF ==
  /\ parent = "reading" /\ up = <<>> /\ child = "dead"
  /\ Ends("died")
  /\ UNCHANGED <<child, childVars, up, down>>

(* The wrapper returned or raised: one response either way.  When the      *)
(* child is gone, send raises inside the try, the error response raises    *)
(* again, and that ends _serve.                                            *)
CallReturns ==
  /\ parent = "executing"
  /\ \/ /\ child # "dead"
        /\ parent' = "reading"
        /\ down' = Append(down, cur)
        /\ UNCHANGED <<cur, verdict>>
     \/ /\ child = "dead"
        /\ Ends("isolation")
        /\ UNCHANGED down
  /\ UNCHANGED <<child, childVars, up>>

(* Mutant of TimesOut: the cancellation of a wrapper is swallowed. *)
TimesOutReading ==
  /\ parent = "reading"
  /\ Ends("timeout")
  /\ UNCHANGED <<child, childVars, up, down>>

(* wait_for's timer, or the cancellation of the whole request.             *)
TimesOut ==
  /\ Serving
  /\ Ends("timeout")
  /\ UNCHANGED <<child, childVars, up, down>>

ClientCancels ==
  /\ Serving
  /\ Ends("cancelled")
  /\ UNCHANGED <<child, childVars, up, down>>

(* finally: kill the child if it still lives, and join it.                 *)
Kill ==
  /\ parent = "ended"
  /\ parent' = "joining"
  /\ child' = "dead"
  /\ UNCHANGED <<childVars, up, down, cur, verdict>>

Join ==
  /\ parent = "joining" /\ child = "dead"
  /\ parent' = "done"
  /\ UNCHANGED <<child, childVars, up, down, cur, verdict>>
-----------------------------------------------------------------------------
ChildStep ==
  \/ \E t \in Tasks : UserCalls(t) \/ SendCall(t) \/ SendFails(t) \/ CancelCall(t)
  \/ \E r \in queued : Begin(r)
  \/ \E r \in readers : Receive(r)
  \/ UserCodeEnds \/ Report \/ ChildDies

ParentStep ==
  \/ ReadMessage \/ ReadEOF \/ CallReturns
  \/ TimesOut \/ ClientCancels \/ Kill \/ Join

Next == ChildStep \/ ParentStep

Spec == Init /\ [][Next]_vars

(* The run's timer fires, a killed process is joined.  Nothing is assumed  *)
(* of the child, which may loop, nor of the tool a wrapper waits for.      *)
Fairness == WF_vars(TimesOut) /\ WF_vars(Kill) /\ WF_vars(Join)

FairSpec == Spec /\ Fairness
-----------------------------------------------------------------------------
(* subprocess_worker.py:151-152: "A lock keeps exactly one request in      *)
(* flight, so the blocking recv can be offloaded to a thread without two   *)
(* threads reading the pipe at once."                                      *)
OneReader == \A r, s \in readers : r = s

(* That holds until the user's code cancels a call in flight.              *)
OneReaderUnlessAbandoned == ~abandoned => OneReader

(* A call returns the result of its own request, although the bridge never *)
(* compares the numbers (executor.py:2006-2009: the call is executed in    *)
(* the parent "and the parsed result returned").                           *)
AnswersMatch == \A t \in Tasks : answer[t] # None => answer[t] = req[t]

(* That too holds until the user's code cancels a call in flight, however  *)
(* many calls are gathered and cancelled before they are sent.             *)
AnswersMatchUnlessAbandoned == ~abandoned => AnswersMatch

(* The run as seen from outside: the calls that were sent are performed    *)
(* one at a time, in their order, and the result is read when all of them  *)
(* were, the abandoned ones included, whose recv may never have begun;     *)
(* with the child and the parent free to die, be cancelled or time out     *)
(* between any two steps.  Every run comes to an outcome.                  *)
Calls == INSTANCE RemoteCalls WITH
  MaxCalls <- MaxRequests, Undecided <- None,
  made <- counter,
  queue <- Requests,
  performed <- IF cur = None THEN 0 ELSE cur,
  busy <- (parent = "executing"),
  sealed <- (Unread(Done) \/ verdict = "report"),
  outcome <- verdict

ImplementsRemoteCalls == Calls!Spec

(* The run ends, and its process is gone, whatever the user's code, the    *)
(* tools and the client do.                                                *)
RunEnds == <>(parent = "done" /\ child = "dead")
=============================================================================
