--------------------------- MODULE Broker_proofs ---------------------------
(***************************************************************************)
(* Proofs about Broker for runs of any size: the types, and, until the     *)
(* user's code cancels a call in flight, that one thread reads the pipe at *)
(* a time and that every call gets its own answer.                         *)
(*                                                                         *)
(* The bridge matches answers to calls by nothing but the order of the     *)
(* pipe.  PipeInv is why that is enough while the code runs: the request   *)
(* of the one recv is in exactly one place, on its way up, in the parent's *)
(* hands or on its way down, and nothing else is anywhere.                 *)
(***************************************************************************)
EXTENDS Broker, TLAPS

(* The recvs, begun or not; of a running child, those of the lock's        *)
(* holder.                                                                 *)
Recvs == queued \cup readers

ReaderInv ==
  /\ OneReader
  /\ child = "running" =>
       /\ queued \cap readers = {}
       /\ \A r, s \in Recvs : r = s
       /\ \A r \in Recvs : \E t \in Tasks : pc[t] = "reading" /\ req[t] = r
  /\ child = "draining" => \A t \in Tasks : pc[t] = "idle"

(* Where the request of a recv may be.                                     *)
Sent(r) == up = <<r>> /\ down = <<>> /\ parent # "executing"
Taken(r) == up = <<>> /\ down = <<>> /\ (parent = "executing" => cur = r)
Answered(r) == up = <<>> /\ down = <<r>> /\ parent # "executing"

(* Without a recv nothing is under way.                                    *)
Quiet == up = <<>> /\ down = <<>> /\ parent # "executing"

PipeInv ==
  child = "running" =>
    /\ Recvs = {} => Quiet
    /\ \A r \in Recvs : Sent(r) \/ Taken(r) \/ Answered(r)

IInv == ReaderInv /\ PipeInv /\ AnswersMatch

(* The invariant: IInv lasts as long as no call in flight is abandoned.    *)
IInvUnlessAbandoned == ~abandoned => IInv
-----------------------------------------------------------------------------
LEMMA ReceiveType ==
  ASSUME TypeOK, NEW r \in readers, Receive(r)
  PROVE  TypeOK'
<1> DEFINE reader == {t \in Tasks : pc[t] = "reading" /\ req[t] = r}
<1>1. /\ readers' = readers \ {r}
      /\ down' = Tail(down)
      /\ pc' = [t \in Tasks |-> IF t \in reader THEN "idle" ELSE pc[t]]
      /\ answer' = [t \in Tasks |-> IF t \in reader THEN Head(down) ELSE answer[t]]
      /\ lock' = IF reader = {} THEN lock ELSE None
      /\ UNCHANGED <<child, counter, req, queued, abandoned, up, parent, cur, verdict>>
  BY DEF Receive, parentVars
<1>2. Head(down) \in Request /\ Tail(down) \in Seq(Request)
  BY DEF TypeOK, Receive
<1>3. answer' \in [Tasks -> Request \cup {None}]
  BY <1>1, <1>2 DEF TypeOK
<1>4. pc' \in [Tasks -> {"idle", "waiting", "reading"}]
  BY <1>1 DEF TypeOK
<1>5. \A t \in Tasks : pc'[t] = "reading" => lock' = t /\ req[t] \in 1..counter
  BY <1>1 DEF TypeOK
<1>6. lock' \in Tasks \cup {None}
  BY <1>1 DEF TypeOK
<1> HIDE DEF reader
<1> QED BY <1>1, <1>2, <1>3, <1>4, <1>5, <1>6 DEF TypeOK

LEMMA SendType ==
  ASSUME TypeOK, NEW t \in Tasks, SendCall(t)
  PROVE  TypeOK'
<1> USE DEF SendCall, Sends, Numbers, parentVars
<1>1. /\ counter' \in Request /\ counter' \in 0..MaxRequests
      /\ readers' \subseteq 1..counter' /\ queued' \subseteq 1..counter'
  BY BrokerAssumption DEF TypeOK, Request
<1>2. up' \in Seq(Request \cup {Done})
  BY <1>1 DEF TypeOK
<1>3. /\ pc' \in [Tasks -> {"idle", "waiting", "reading"}]
      /\ req' \in [Tasks -> Request \cup {None}]
      /\ answer' \in [Tasks -> Request \cup {None}]
  BY <1>1 DEF TypeOK
<1>4. \A u \in Tasks : pc'[u] = "reading" => lock' = u /\ req'[u] \in 1..counter'
  BY <1>1, BrokerAssumption DEF TypeOK, Request
<1> QED BY <1>1, <1>2, <1>3, <1>4 DEF TypeOK

LEMMA FailType ==
  ASSUME TypeOK, NEW t \in Tasks, SendFails(t)
  PROVE  TypeOK'
<1> USE DEF SendFails, Numbers, parentVars
<1>1. /\ counter' \in Request /\ counter' \in 0..MaxRequests
      /\ readers' \subseteq 1..counter' /\ queued' \subseteq 1..counter'
  BY BrokerAssumption DEF TypeOK, Request
<1>2. /\ pc' \in [Tasks -> {"idle", "waiting", "reading"}]
      /\ req' \in [Tasks -> Request \cup {None}]
      /\ answer' \in [Tasks -> Request \cup {None}]
  BY <1>1 DEF TypeOK
<1>3. \A u \in Tasks : pc'[u] = "reading" => lock' = u /\ req'[u] \in 1..counter'
  BY <1>1, BrokerAssumption DEF TypeOK, Request
<1> QED BY <1>1, <1>2, <1>3 DEF TypeOK

(* Every variable of a run keeps its type; a task that reads holds the     *)
(* bridge's lock.                                                          *)
THEOREM TypeCorrect == Spec => []TypeOK
<1>1. Init => TypeOK
  <2>1. Init => abandoned \in BOOLEAN
    BY DEF Init
  <2> QED BY <2>1, BrokerAssumption DEF Init, TypeOK, ChildState, ParentState
<1>2. TypeOK /\ [Next]_vars => TypeOK'
  <2> SUFFICES ASSUME TypeOK, [Next]_vars
               PROVE  TypeOK'
    OBVIOUS
  <2>1. CASE ChildStep
    <3>1. ASSUME NEW t \in Tasks, UserCalls(t)
          PROVE  TypeOK'
      BY <3>1 DEF TypeOK, UserCalls, parentVars
    <3>2. ASSUME NEW t \in Tasks, SendCall(t)
          PROVE  TypeOK'
      BY <3>2, SendType
    <3>3. ASSUME NEW t \in Tasks, CancelCall(t)
          PROVE  TypeOK'
      BY <3>3 DEF TypeOK, CancelCall, parentVars
    <3>8. ASSUME NEW t \in Tasks, SendFails(t)
          PROVE  TypeOK'
      BY <3>8, FailType
    <3>9. ASSUME NEW r \in queued, Begin(r)
          PROVE  TypeOK'
      BY <3>9 DEF TypeOK, Begin, parentVars
    <3>4. ASSUME NEW r \in readers, Receive(r)
          PROVE  TypeOK'
      BY <3>4, ReceiveType
    <3>5. CASE UserCodeEnds
      BY <3>5 DEF TypeOK, UserCodeEnds, ChildState, parentVars
    <3>6. CASE Report
      BY <3>6 DEF TypeOK, Report, ChildState, childVars, parentVars
    <3>7. CASE ChildDies
      BY <3>7 DEF TypeOK, ChildDies, ChildState, childVars, parentVars
    <3> QED BY <2>1, <3>1, <3>2, <3>3, <3>4, <3>5, <3>6, <3>7, <3>8, <3>9 DEF ChildStep
  <2>2. CASE ParentStep
    <3> USE DEF TypeOK, ParentState, Verdict, Ends, Serving, childVars
    <3>1. CASE ReadMessage
      <4>1. Head(up) \in Request \cup {Done} /\ Tail(up) \in Seq(Request \cup {Done})
        BY <3>1 DEF ReadMessage
      <4>2. cur' \in Request \cup {None} /\ (parent' = "executing" => cur' # None)
        BY <3>1, <4>1, BrokerAssumption DEF ReadMessage, Request
      <4> QED BY <3>1, <4>1, <4>2 DEF ReadMessage
    <3>2. CASE ReadEOF
      BY <3>2 DEF ReadEOF
    <3>3. CASE CallReturns
      <4>1. down' \in Seq(Request)
        <5>1. cur \in Request
          BY <3>3 DEF CallReturns
        <5>2. down' = Append(down, cur) \/ down' = down
          BY <3>3 DEF CallReturns
        <5> QED BY <5>1, <5>2
      <4>2. /\ UNCHANGED <<child, lock, counter, pc, req, answer, queued, readers, abandoned, up, cur>>
            /\ parent' \in {"reading", "ended"}
            /\ verdict' \in Verdict \cup {None}
        BY <3>3 DEF CallReturns
      <4> QED BY <4>1, <4>2
    <3>4. CASE TimesOut
      BY <3>4 DEF TimesOut
    <3>5. CASE ClientCancels
      BY <3>5 DEF ClientCancels
    <3>6. CASE Kill
      BY <3>6 DEF Kill, ChildState
    <3>7. CASE Join
      BY <3>7 DEF Join
    <3> QED BY <2>2, <3>1, <3>2, <3>3, <3>4, <3>5, <3>6, <3>7 DEF ParentStep
  <2>3. CASE UNCHANGED vars
    BY <2>3 DEF TypeOK, vars, childVars, parentVars
  <2> QED BY <2>1, <2>2, <2>3 DEF Next
<1> QED BY <1>1, <1>2, PTL DEF Spec
-----------------------------------------------------------------------------
(* With the lock free no recv is left, and nothing is under way.           *)
LEMMA FreeLock ==
  ASSUME TypeOK, IInv, child = "running", lock = None
  PROVE  Recvs = {} /\ Quiet
BY BrokerAssumption DEF TypeOK, IInv, ReaderInv, PipeInv

LEMMA SendIInv ==
  ASSUME TypeOK, IInv, NEW t \in Tasks, SendCall(t)
  PROVE  IInv'
<1> USE DEF SendCall, Sends, Numbers, parentVars
<1>1. queued = {} /\ readers = {}
  BY FreeLock DEF Recvs
<1>2. up = <<>> /\ down = <<>> /\ parent # "executing"
  BY FreeLock DEF Quiet
<1>3. Recvs' = {counter'} /\ readers' = {} /\ up' = <<counter'>>
  BY <1>1, <1>2 DEF Recvs
<1>4. ReaderInv'
  <2>1. pc'[t] = "reading" /\ req'[t] = counter'
    BY DEF TypeOK
  <2> QED BY <1>3, <2>1 DEF ReaderInv, OneReader
<1>5. PipeInv'
  BY <1>2, <1>3 DEF PipeInv, Sent
<1>6. AnswersMatch'
  BY DEF TypeOK, IInv, AnswersMatch
<1> QED BY <1>4, <1>5, <1>6 DEF IInv

LEMMA FailIInv ==
  ASSUME TypeOK, IInv, NEW t \in Tasks, SendFails(t)
  PROVE  IInv'
<1> USE DEF SendFails, Numbers, parentVars
<1>1. Recvs = {} /\ Quiet
  BY FreeLock
<1>2. Recvs' = {} /\ Quiet' /\ readers' = {}
  BY <1>1 DEF Recvs, Quiet
<1>3. AnswersMatch'
  BY DEF TypeOK, IInv, AnswersMatch
<1> QED BY <1>2, <1>3 DEF IInv, ReaderInv, OneReader, PipeInv

LEMMA BeginIInv ==
  ASSUME TypeOK, IInv, NEW r \in queued, Begin(r)
  PROVE  IInv'
<1> USE DEF Begin, parentVars
<1>1. Recvs' = Recvs
  BY DEF Recvs
<1>2. ReaderInv'
  BY <1>1 DEF IInv, ReaderInv, OneReader, Recvs
<1>3. PipeInv'
  BY <1>1 DEF IInv, PipeInv, Quiet, Sent, Taken, Answered
<1> QED BY <1>2, <1>3 DEF IInv, AnswersMatch

LEMMA ReceiveIInv ==
  ASSUME TypeOK, IInv, NEW r \in readers, Receive(r)
  PROVE  IInv'
<1> DEFINE reader == {t \in Tasks : pc[t] = "reading" /\ req[t] = r}
<1>1. /\ down # <<>> /\ child \in {"running", "draining"}
      /\ readers' = readers \ {r}
      /\ down' = Tail(down)
      /\ pc' = [t \in Tasks |-> IF t \in reader THEN "idle" ELSE pc[t]]
      /\ answer' = [t \in Tasks |-> IF t \in reader THEN Head(down) ELSE answer[t]]
      /\ UNCHANGED <<child, counter, req, queued, abandoned, up, parent, cur, verdict>>
  BY DEF Receive, parentVars
<1>2. readers' = {}
  BY <1>1 DEF IInv, ReaderInv, OneReader
<1>3. CASE child = "running"
  <2>1. Recvs' = {}
    BY <1>1, <1>2, <1>3 DEF IInv, ReaderInv, Recvs
  <2>2. up = <<>> /\ down = <<r>> /\ parent # "executing"
    BY <1>1, <1>3 DEF IInv, PipeInv, Sent, Taken, Answered, Recvs
  <2>3. Head(down) = r /\ Tail(down) = <<>>
    BY <2>2
  <2>4. ReaderInv' /\ PipeInv'
    BY <1>1, <1>2, <1>3, <2>1, <2>2, <2>3 DEF ReaderInv, OneReader, PipeInv, Quiet
  <2>5. AnswersMatch'
    BY <1>1, <2>3 DEF IInv, AnswersMatch
  <2> QED BY <2>4, <2>5 DEF IInv
<1>4. CASE child = "draining"
  <2>1. reader = {} /\ \A t \in Tasks : pc[t] = "idle"
    BY <1>4 DEF IInv, ReaderInv
  <2>2. AnswersMatch'
    BY <1>1, <2>1 DEF IInv, AnswersMatch
  <2>3. ReaderInv'
    <3>1. \A t \in Tasks : pc'[t] = "idle"
      BY <1>1, <2>1
    <3> QED BY <1>1, <1>2, <1>4, <3>1 DEF ReaderInv, OneReader
  <2> QED BY <1>1, <1>4, <2>2, <2>3 DEF IInv, PipeInv
<1> QED BY <1>1, <1>3, <1>4

LEMMA ParentIInv ==
  ASSUME TypeOK, IInv, ParentStep
  PROVE  IInv'
<1>1. UNCHANGED <<lock, counter, pc, req, answer, queued, readers>>
  BY DEF ParentStep, ReadMessage, ReadEOF, CallReturns, TimesOut, ClientCancels,
         Kill, Join, childVars
<1>2. child' = child \/ child' = "dead"
  BY DEF ParentStep, ReadMessage, ReadEOF, CallReturns, TimesOut, ClientCancels,
         Kill, Join
<1>3. ReaderInv' /\ AnswersMatch' /\ Recvs' = Recvs
  BY <1>1, <1>2 DEF IInv, ReaderInv, OneReader, AnswersMatch, Recvs
<1>4. PipeInv'
  <2> SUFFICES ASSUME child = "running"
               PROVE  /\ Recvs = {} => Quiet'
                      /\ \A r \in Recvs : Sent(r)' \/ Taken(r)' \/ Answered(r)'
    BY <1>2, <1>3 DEF PipeInv
  <2> USE DEF IInv, PipeInv, Quiet, Sent, Taken, Answered
  <2>1. CASE ReadMessage
    <3>1. up # <<>> /\ up' = Tail(up) /\ parent = "reading" /\ UNCHANGED <<child, down>>
      BY <2>1 DEF ReadMessage
    <3>2. Recvs # {}
      BY <3>1
    <3>3. ASSUME NEW r \in Recvs
          PROVE  Taken(r)'
      <4>1. up = <<r>> /\ Head(up) = r /\ Tail(up) = <<>> /\ down = <<>>
        BY <3>1
      <4>2. r # Done
        BY DEF TypeOK, Done, Recvs
      <4> QED BY <2>1, <3>1, <4>1, <4>2 DEF ReadMessage
    <3> QED BY <3>2, <3>3
  <2>2. CASE ReadEOF \/ TimesOut \/ ClientCancels \/ Kill \/ Join
    BY <2>2 DEF ReadEOF, TimesOut, ClientCancels, Kill, Join, Ends, childVars
  <2>3. CASE CallReturns
    <3>1. parent = "executing" /\ parent' # "executing" /\ UNCHANGED <<child, up>>
      BY <2>3 DEF CallReturns, Ends
    <3>2. Recvs # {}
      BY <3>1
    <3>3. ASSUME NEW r \in Recvs
          PROVE  Taken(r)' \/ Answered(r)'
      <4>1. up = <<>> /\ down = <<>> /\ cur = r
        BY <3>1
      <4>2. down' = <<>> \/ down' = <<r>>
        BY <2>3, <4>1 DEF CallReturns
      <4> QED BY <3>1, <4>1, <4>2
    <3> QED BY <3>2, <3>3
  <2> QED BY <2>1, <2>2, <2>3 DEF ParentStep
<1> QED BY <1>3, <1>4 DEF IInv

LEMMA CancelIInv ==
  ASSUME TypeOK, IInv, NEW t \in Tasks, CancelCall(t), ~abandoned'
  PROVE  IInv'
<1>1. /\ pc[t] # "reading" /\ child = "running"
      /\ pc' = [pc EXCEPT ![t] = "idle"]
      /\ UNCHANGED <<child, counter, req, answer, queued, readers, up, down, parent, cur>>
  BY DEF CancelCall, parentVars
<1>2. ReaderInv'
  <2>1. ASSUME NEW r \in Recvs
        PROVE  \E u \in Tasks : pc'[u] = "reading" /\ req'[u] = r
    <3>1. PICK u \in Tasks : pc[u] = "reading" /\ req[u] = r
      BY <1>1, <2>1 DEF IInv, ReaderInv
    <3>2. pc'[u] = "reading"
      BY <1>1, <3>1 DEF TypeOK
    <3> QED BY <1>1, <3>1, <3>2
  <2> QED BY <1>1, <2>1 DEF IInv, ReaderInv, OneReader, Recvs
<1>3. PipeInv' /\ AnswersMatch'
  BY <1>1 DEF IInv, PipeInv, Quiet, Sent, Taken, Answered, AnswersMatch, Recvs
<1> QED BY <1>2, <1>3 DEF IInv

(* An abandoned call stays abandoned, so a step before which none was, and *)
(* after which none is, preserves IInv.                                    *)
LEMMA Inductive == TypeOK /\ IInvUnlessAbandoned /\ [Next]_vars => IInvUnlessAbandoned'
<1> SUFFICES ASSUME TypeOK, IInvUnlessAbandoned, [Next]_vars, ~abandoned'
             PROVE  IInv'
  BY DEF IInvUnlessAbandoned
<1>a. ~abandoned
  BY DEF Next, ChildStep, ParentStep, UserCalls, SendCall, Sends, SendFails, Begin,
         CancelCall, Receive, UserCodeEnds, Report, ChildDies, ReadMessage, ReadEOF,
         CallReturns, TimesOut, ClientCancels, Kill, Join, vars, childVars
<1>b. IInv
  BY <1>a DEF IInvUnlessAbandoned
<1>1. CASE ChildStep
  <2>1. ASSUME NEW t \in Tasks, UserCalls(t)
        PROVE  IInv'
    <3>1. /\ pc[t] = "idle" /\ child = "running" /\ pc' = [pc EXCEPT ![t] = "waiting"]
          /\ UNCHANGED <<child, counter, req, answer, queued, readers, up, down, parent, cur>>
      BY <2>1 DEF UserCalls, parentVars
    <3>2. \A u \in Tasks : pc[u] = "reading" => pc'[u] = "reading"
      BY <3>1 DEF TypeOK
    <3> QED BY <1>b, <3>1, <3>2 DEF IInv, ReaderInv, OneReader, PipeInv, Quiet, Sent,
                Taken, Answered, AnswersMatch, Recvs
  <2>2. ASSUME NEW t \in Tasks, SendCall(t)
        PROVE  IInv'
    BY <1>b, <2>2, SendIInv
  <2>3. ASSUME NEW t \in Tasks, SendFails(t)
        PROVE  IInv'
    BY <1>b, <2>3, FailIInv
  <2>4. ASSUME NEW t \in Tasks, CancelCall(t)
        PROVE  IInv'
    BY <1>b, <2>4, CancelIInv
  <2>5. ASSUME NEW r \in queued, Begin(r)
        PROVE  IInv'
    BY <1>b, <2>5, BeginIInv
  <2>6. ASSUME NEW r \in readers, Receive(r)
        PROVE  IInv'
    BY <1>b, <2>6, ReceiveIInv
  <2>7. CASE UserCodeEnds
    BY <1>b, <2>7 DEF UserCodeEnds, parentVars, IInv, ReaderInv, OneReader, PipeInv,
                AnswersMatch
  <2>8. CASE Report
    BY <1>b, <2>8 DEF Report, childVars, parentVars, IInv, ReaderInv, OneReader,
                PipeInv, AnswersMatch
  <2>9. CASE ChildDies
    BY <1>b, <2>9 DEF ChildDies, childVars, parentVars, IInv, ReaderInv, OneReader,
                PipeInv, AnswersMatch
  <2> QED BY <1>1, <2>1, <2>2, <2>3, <2>4, <2>5, <2>6, <2>7, <2>8, <2>9 DEF ChildStep
<1>2. CASE ParentStep
  BY <1>b, <1>2, ParentIInv
<1>3. CASE UNCHANGED vars
  BY <1>b, <1>3 DEF vars, childVars, parentVars, IInv, ReaderInv, OneReader, PipeInv, Quiet,
              Sent, Taken, Answered, AnswersMatch, Recvs
<1> QED BY <1>1, <1>2, <1>3 DEF Next

LEMMA Invariance == Spec => []IInvUnlessAbandoned
<1>1. Init => IInvUnlessAbandoned
  BY DEF Init, IInvUnlessAbandoned, IInv, ReaderInv, OneReader, PipeInv, Quiet, AnswersMatch, Recvs
<1>2. TypeOK /\ IInvUnlessAbandoned /\ [Next]_vars => IInvUnlessAbandoned'
  BY Inductive
<1> QED BY <1>1, <1>2, TypeCorrect, PTL DEF Spec

(* Two threads never read the pipe at once (the docstring of _RpcBridge),  *)
(* until the code cancels a call in flight.                                *)
THEOREM SingleReader == Spec => []OneReaderUnlessAbandoned
<1>1. IInvUnlessAbandoned => OneReaderUnlessAbandoned
  BY DEF IInvUnlessAbandoned, IInv, ReaderInv, OneReaderUnlessAbandoned
<1> QED BY <1>1, Invariance, PTL

(* And every call gets the answer to its own request, for as long.         *)
THEOREM OwnAnswer == Spec => []AnswersMatchUnlessAbandoned
<1>1. IInvUnlessAbandoned => AnswersMatchUnlessAbandoned
  BY DEF IInvUnlessAbandoned, IInv, AnswersMatchUnlessAbandoned
<1> QED BY <1>1, Invariance, PTL
-----------------------------------------------------------------------------
(* The refinement.  The parent takes the messages in the order they were   *)
(* sent and answers one before it takes the next; the report is the last   *)
(* message the child sends.  That is all it takes: nothing is assumed of   *)
(* the threads, so calls may be abandoned and answers go astray.           *)
Performed == IF cur = None THEN 0 ELSE cur
Sealed == Unread(Done) \/ verdict = "report"

RunInv ==
  /\ verdict = None <=> Serving
  /\ Sealed => child \in {"reported", "dead"}
  /\ \A i \in 1..Len(up) : up[i] = Done => i = Len(up)

LEMMA RunTypes ==
  ASSUME TypeOK
  PROVE  counter \in Nat /\ Len(up) \in Nat
BY BrokerAssumption DEF TypeOK

(* The run as seen from outside: a step that touches none of it is no step *)
(* of it.                                                                  *)
LEMMA Unseen ==
  ASSUME UNCHANGED <<counter, cur, up, verdict>>,
         (parent' = "executing") <=> (parent = "executing")
  PROVE  UNCHANGED Calls!vars
BY DEF Calls!vars, Unread, Requests

LEMMA QuietSteps ==
  ASSUME TypeOK, RunInv,
         \/ \E t \in Tasks : UserCalls(t) \/ CancelCall(t)
         \/ \E r \in queued : Begin(r)
         \/ \E r \in readers : Receive(r)
         \/ UserCodeEnds \/ ChildDies \/ Kill \/ Join \/ UNCHANGED vars
  PROVE  RunInv' /\ UNCHANGED Calls!vars
<1>1. /\ UNCHANGED <<counter, cur, up, verdict>>
      /\ (parent' = "executing") <=> (parent = "executing")
      /\ (parent' = "reading") <=> (parent = "reading")
      /\ child' = child \/ child' = "dead" \/ (child = "running" /\ child' = "draining")
  BY DEF UserCalls, CancelCall, Begin, Receive, UserCodeEnds, ChildDies, Kill, Join,
         childVars, parentVars, vars
<1>2. (Serving' <=> Serving) /\ (Unread(Done)' <=> Unread(Done))
  BY <1>1 DEF Serving, Unread
<1>3. RunInv'
  BY <1>1, <1>2 DEF RunInv, Sealed
<1>. QED  BY <1>1, <1>3, Unseen

(* A child that still runs has sent requests only.                         *)
LEMMA RequestsOnly ==
  ASSUME TypeOK, RunInv, child \notin {"reported", "dead"}
  PROVE  ~Sealed /\ Requests = up /\ \A i \in 1..Len(up) : up[i] # Done
BY DEF RunInv, Sealed, Requests, Unread

LEMMA SendRun ==
  ASSUME TypeOK, RunInv, NEW t \in Tasks, SendCall(t)
  PROVE  RunInv' /\ Calls!Make
<1>1. /\ counter' = counter + 1 /\ counter < MaxRequests
      /\ up' = Append(up, counter') /\ child = "running"
      /\ UNCHANGED <<child, parent, cur, verdict>>
  BY DEF SendCall, Sends, Numbers, parentVars
<1>2. ~Sealed /\ Requests = up /\ \A i \in 1..Len(up) : up[i] # Done
  BY <1>1, RequestsOnly
<1>3. /\ Len(up') = Len(up) + 1 /\ up'[Len(up) + 1] = counter + 1
      /\ \A i \in 1..Len(up) : up'[i] = up[i]
  BY <1>1 DEF TypeOK
<1>4. \A i \in 1..Len(up') : up'[i] # Done
  <2>1. counter + 1 # Done
    BY RunTypes DEF Done
  <2>. QED  BY <1>2, <1>3, <2>1, RunTypes
<1>5. ~Unread(Done)' /\ Requests' = up'
  BY <1>4 DEF Unread, Requests
<1>6. RunInv'
  BY <1>1, <1>2, <1>4, <1>5 DEF RunInv, Sealed, Serving
<1>. QED  BY <1>1, <1>2, <1>5, <1>6 DEF Sealed, Calls!Make

LEMMA FailRun ==
  ASSUME TypeOK, RunInv, NEW t \in Tasks, SendFails(t)
  PROVE  RunInv' /\ Calls!Refuse
<1>1. /\ counter' = counter + 1 /\ counter < MaxRequests /\ child = "running"
      /\ UNCHANGED <<child, up, parent, cur, verdict>>
  BY DEF SendFails, Numbers, parentVars
<1>2. ~Sealed
  BY <1>1, RequestsOnly
<1>3. (Unread(Done)' <=> Unread(Done)) /\ Requests' = Requests /\ (Serving' <=> Serving)
  BY <1>1 DEF Unread, Requests, Serving
<1>4. RunInv'
  BY <1>1, <1>3 DEF RunInv, Sealed
<1>. QED  BY <1>1, <1>2, <1>3, <1>4 DEF Sealed, Calls!Refuse

LEMMA ReportRun ==
  ASSUME TypeOK, RunInv, Report
  PROVE  RunInv' /\ Calls!Seal
<1>1. /\ child = "draining" /\ child' = "reported" /\ up' = Append(up, Done)
      /\ UNCHANGED <<counter, parent, cur, verdict>>
  BY DEF Report, childVars, parentVars
<1>2. ~Sealed /\ Requests = up /\ \A i \in 1..Len(up) : up[i] # Done
  BY <1>1, RequestsOnly
<1>3. /\ Len(up') = Len(up) + 1 /\ up'[Len(up) + 1] = Done
      /\ \A i \in 1..Len(up) : up'[i] = up[i]
  BY <1>1 DEF TypeOK
<1>4. Unread(Done)'
  <2>1. Len(up) + 1 \in 1..Len(up')
    BY <1>3, RunTypes
  <2>. QED  BY <1>3, <2>1 DEF Unread
<1>5. Requests' = up
  <2>1. Requests' = SubSeq(up', 1, Len(up') - 1)
    BY <1>4 DEF Requests
  <2>2. SubSeq(Append(up, Done), 1, Len(up)) = up
    BY DEF TypeOK
  <2>3. Len(up') - 1 = Len(up)
    BY <1>3, RunTypes
  <2>. QED  BY <1>1, <2>1, <2>2, <2>3
<1>6. \A i \in 1..Len(up') : up'[i] = Done => i = Len(up')
  BY <1>2, <1>3, RunTypes
<1>7. RunInv'
  BY <1>1, <1>6 DEF RunInv, Sealed, Serving
<1>. QED  BY <1>1, <1>2, <1>4, <1>5, <1>7 DEF Sealed, Calls!Seal

LEMMA ReadRun ==
  ASSUME TypeOK, RunInv, ReadMessage
  PROVE  RunInv' /\ (Calls!Perform \/ Calls!Report)
<1>1. /\ parent = "reading" /\ up # <<>> /\ up' = Tail(up) /\ verdict = None
      /\ UNCHANGED <<child, counter>>
  BY DEF ReadMessage, childVars, RunInv, Serving
<1>2. /\ Len(up') = Len(up) - 1 /\ \A i \in 1..Len(up') : up'[i] = up[i + 1]
      /\ Head(up) = up[1] /\ 1 \in 1..Len(up)
  BY <1>1 DEF TypeOK
<1>3. \A i \in 1..Len(up') : up'[i] = Done => i = Len(up')
  BY <1>2, RunTypes DEF RunInv
<1>4. CASE Head(up) = Done
  <2>1. parent' = "ended" /\ verdict' = "report" /\ cur' = cur
    BY <1>1, <1>4 DEF ReadMessage, Ends
  <2>2. Unread(Done) /\ Len(up) = 1
    BY <1>2, <1>4 DEF Unread, RunInv
  <2>3. up' = <<>> /\ ~Unread(Done)'
    BY <1>1, <1>2, <2>2 DEF Unread, TypeOK
  <2>4. Requests = <<>> /\ Requests' = <<>>
    <3>1. SubSeq(up, 1, 0) = <<>>
      BY DEF TypeOK
    <3>. QED  BY <2>2, <2>3, <3>1 DEF Requests
  <2>5. "report" # None
    BY BrokerAssumption DEF Verdict
  <2>6. RunInv'
    BY <1>1, <1>3, <2>1, <2>2, <2>5 DEF RunInv, Sealed, Serving
  <2>. QED  BY <1>1, <2>1, <2>2, <2>4, <2>6 DEF Calls!Report
<1>5. CASE Head(up) # Done
  <2>1. parent' = "executing" /\ cur' = Head(up) /\ verdict' = None
    BY <1>1, <1>5 DEF ReadMessage, Ends
  <2>2. Unread(Done)' <=> Unread(Done)
    <3>1. ASSUME NEW i \in 1..Len(up), up[i] = Done
          PROVE  i - 1 \in 1..Len(up') /\ up'[i - 1] = Done
      BY <1>2, <1>5, <3>1, RunTypes
    <3>2. \A i \in 1..Len(up') : i + 1 \in 1..Len(up)
      BY <1>2, RunTypes
    <3>. QED  BY <1>2, <3>1, <3>2 DEF Unread
  <2>3. Requests # <<>> /\ Head(Requests) = Head(up) /\ Requests' = Tail(Requests)
    <3>1. CASE ~Unread(Done)
      BY <1>1, <2>2, <3>1 DEF Requests
    <3>2. CASE Unread(Done)
      <4>1. Requests = SubSeq(up, 1, Len(up) - 1) /\ Requests' = SubSeq(up', 1, Len(up') - 1)
        BY <2>2, <3>2 DEF Requests
      <4>2. Len(up) >= 2
        BY <1>2, <1>5, <3>2, RunTypes DEF Unread, RunInv
      <4>3. SubSeq(up, 1, Len(up) - 1) # <<>> /\ Head(SubSeq(up, 1, Len(up) - 1)) = Head(up)
        <5>. DEFINE q == SubSeq(up, 1, Len(up) - 1)
        <5>1. Len(q) = Len(up) - 1 /\ q[1] = up[1] /\ q \in Seq(Request \cup {Done})
          BY <4>2 DEF TypeOK
        <5>2. Len(q) >= 1
          BY <4>2, <5>1, RunTypes
        <5>3. q # <<>> /\ Head(q) = q[1]
          <6>. HIDE DEF q
          <6>. QED  BY <5>1, <5>2
        <5>. QED  BY <1>2, <5>1, <5>3
      <4>4. SubSeq(Tail(up), 1, Len(up) - 2) = Tail(SubSeq(up, 1, Len(up) - 1))
        BY <1>1, <4>2 DEF TypeOK
      <4>5. Len(up') - 1 = Len(up) - 2
        BY <1>2, RunTypes
      <4>. QED  BY <1>1, <4>1, <4>3, <4>4, <4>5
    <3>. QED  BY <3>1, <3>2
  <2>4. Performed' = Head(up)
    <3>1. cur' # None
      BY <2>1, <1>1, BrokerAssumption DEF TypeOK, Request, Done
    <3>. QED  BY <2>1, <3>1 DEF Performed
  <2>5. verdict' # "report" /\ verdict # "report"
    BY <1>1, <2>1, BrokerAssumption DEF Verdict
  <2>6. RunInv'
    BY <1>1, <1>3, <2>1, <2>2, <2>5 DEF RunInv, Sealed, Serving
  <2>. QED  BY <1>1, <2>1, <2>2, <2>3, <2>4, <2>5, <2>6 DEF Performed, Calls!Perform
<1>. QED  BY <1>4, <1>5

LEMMA BreakRun ==
  ASSUME TypeOK, RunInv, ReadEOF \/ TimesOut \/ ClientCancels \/ (CallReturns /\ child = "dead")
  PROVE  RunInv' /\ Calls!Break
<1>1. /\ Serving /\ parent' = "ended" /\ verdict' \in {"died", "timeout", "cancelled", "isolation"}
      /\ UNCHANGED <<child, counter, up, cur>>
  BY DEF ReadEOF, TimesOut, ClientCancels, CallReturns, Ends, childVars, Serving
<1>2. verdict = None /\ verdict' # None /\ verdict' # "report" /\ verdict # "report"
  BY <1>1, BrokerAssumption DEF RunInv, Verdict
<1>3. (Unread(Done)' <=> Unread(Done)) /\ Requests' = Requests
  BY <1>1 DEF Unread, Requests
<1>4. RunInv'
  BY <1>1, <1>2, <1>3 DEF RunInv, Sealed, Serving
<1>. QED  BY <1>1, <1>2, <1>3, <1>4 DEF Calls!Break

LEMMA ReturnRun ==
  ASSUME TypeOK, RunInv, CallReturns, child # "dead"
  PROVE  RunInv' /\ Calls!Return
<1>1. /\ parent = "executing" /\ parent' = "reading"
      /\ UNCHANGED <<child, counter, up, cur, verdict>>
  BY DEF CallReturns, childVars
<1>2. (Unread(Done)' <=> Unread(Done)) /\ Requests' = Requests /\ Serving /\ Serving'
  BY <1>1 DEF Unread, Requests, Serving
<1>3. RunInv'
  BY <1>1, <1>2 DEF RunInv, Sealed
<1>. QED  BY <1>1, <1>2, <1>3 DEF Calls!Return

LEMMA RunStep ==
  TypeOK /\ RunInv /\ [Next]_vars => RunInv' /\ [Calls!Next]_(Calls!vars)
BY QuietSteps, SendRun, FailRun, ReportRun, ReadRun, BreakRun, ReturnRun
   DEF Next, ChildStep, ParentStep, Calls!Next

(* A run in isolation performs the tool calls it sent one at a time, in    *)
(* their order, each at most once, and its result is read when all of them *)
(* were performed: the safety of ImplementsRemoteCalls, however many calls *)
(* are made, refused, abandoned or cut short, and wherever the child or    *)
(* the parent stops.                                                       *)
THEOREM RunPerformsItsCalls == Spec => Calls!Init /\ [][Calls!Next]_(Calls!vars)
<1>1. Init => RunInv /\ Calls!Init
  <2>. SUFFICES ASSUME Init
                PROVE  RunInv /\ Calls!Init
    OBVIOUS
  <2>1. Serving /\ ~Sealed
    BY BrokerAssumption DEF Init, Serving, Sealed, Unread, Verdict
  <2>2. Requests = <<>>
    BY DEF Init, Requests, Unread
  <2>. QED  BY <2>1, <2>2 DEF Init, RunInv, Sealed, Calls!Init
<1>. QED  BY <1>1, RunStep, TypeCorrect, PTL DEF Spec
=============================================================================
