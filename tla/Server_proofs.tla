---------------------------- MODULE Server_proofs ----------------------------
(***************************************************************************)
(* Proofs about Server, for any sessions, request ids and pools.           *)
(*                                                                         *)
(* OneGlobalPool is not inductive: what makes a second pool impossible is  *)
(* that a pool nobody gave up is either the shared one, or awaited by the  *)
(* session that holds the lock while there is none to share (OwnerInv).    *)
(* For the roots, two requests of a session are never asking without the   *)
(* history saying so, and one that asks alone finds nothing cached yet     *)
(* (RootsInv); the filter's set holds every id whose cancellation was read *)
(* (HeardInv), so that both replies to such a request end at the filter.   *)
(***************************************************************************)
EXTENDS Server, TLAPS

LockInv ==
  /\ lock # None => shared = None
  /\ \A s \in Sessions : sess[s] \in {"waiting", "stopping"} => mine[s] \in Pools
  /\ \A s \in Sessions : sess[s] = "stopping" => mine[s] \in told

OwnerInv ==
  \A i \in Pools : pool[i] # "absent" /\ i \notin told \cup lost =>
    \/ shared = i
    \/ \E s \in Sessions : lock = s /\ sess[s] = "waiting" /\ mine[s] = i

RootsInv ==
  \A s \in Sessions : s \notin overlap =>
    \A n, k \in Ids : req[s][n] = "asking" =>
      /\ roots[s] = "unknown"
      /\ req[s][k] = "asking" => n = k

HeardInv == \A s \in Sessions : heard[s] \subseteq cancelled[s]

-----------------------------------------------------------------------------
LEMMA InitTypes == Init => TypeOK
BY ServerAssumption DEF Init, TypeOK, PoolState, SessState, ReqState

(* The lifespan of a session.                                              *)
LEMMA StartTypes ==
  ASSUME TypeOK, LockInv, NEW s \in Sessions, StartStep(s)
  PROVE  TypeOK' /\ LockInv'
<1>. USE ServerAssumption DEF TypeOK, LockInv, PoolState, SessState, SessIs, PoolIs
<1>1. CASE Connect(s)
  BY <1>1 DEF Connect, poolVars, reqVars
<1>2. CASE Reuse(s)
  BY <1>2 DEF Reuse, poolVars, reqVars
<1>3. CASE StartGlobal(s)
  BY <1>3 DEF StartGlobal, reqVars
<1>4. CASE Share(s)
  BY <1>4 DEF Share, reqVars
<1>5. CASE StartTimesOut(s)
  BY <1>5 DEF StartTimesOut, reqVars
<1>6. CASE StopReturns(s)
  BY <1>6 DEF StopReturns, reqVars
<1>7. CASE CancelStart(s)
  BY <1>7 DEF CancelStart, reqVars
<1>8. CASE Disconnect(s)
  BY <1>8 DEF Disconnect, poolVars, ReqState
<1>. QED  BY <1>1, <1>2, <1>3, <1>4, <1>5, <1>6, <1>7, <1>8 DEF StartStep

LEMMA PoolTypes ==
  ASSUME TypeOK, LockInv, NEW i \in Pools, PoolStep(i)
  PROVE  TypeOK' /\ LockInv'
BY DEF TypeOK, LockInv, PoolState, PoolStep, Started, SeesStop, Closed, PoolIs,
       sessVars, reqVars

(* The requests of a session.                                              *)
LEMMA RequestTypes ==
  ASSUME TypeOK, LockInv, NEW s \in Sessions, NEW n \in Ids, RequestStep(s, n)
  PROVE  TypeOK' /\ LockInv'
<1>. USE DEF TypeOK, LockInv, ReqState, ReqIs, poolVars, sessVars
<1>1. CASE Send(s, n)
  BY <1>1 DEF Send
<1>2. CASE Read(s, n)
  BY <1>2 DEF Read
<1>3. CASE RootsEnd(s, n)
  BY <1>3 DEF RootsEnd
<1>4. CASE Reply(s, n)
  BY <1>4 DEF Reply, Through
<1>5. CASE Deliver(s, n)
  BY <1>5 DEF Deliver
<1>6. CASE GiveUp(s, n)
  BY <1>6 DEF GiveUp
<1>7. CASE ReadCancel(s, n)
  <2>1. CASE ReqIs(s, n, "refusing")
    BY <1>7, <2>1 DEF ReadCancel
  <2>2. CASE UNCHANGED req
    BY <1>7, <2>2 DEF ReadCancel
  <2>. QED  BY <1>7, <2>1, <2>2 DEF ReadCancel
<1>8. CASE Refuse(s, n)
  BY <1>8 DEF Refuse, Through
<1>. QED  BY <1>1, <1>2, <1>3, <1>4, <1>5, <1>6, <1>7, <1>8 DEF RequestStep

LEMMA StutterTypes == TypeOK /\ LockInv /\ UNCHANGED vars => TypeOK' /\ LockInv'
BY DEF TypeOK, LockInv, vars, poolVars, sessVars, reqVars

(* The types hold, and the lock is held exactly by the session that starts *)
(* the global pool or tears it down; every open session works on the one   *)
(* shared state (server.py, _daemon_state_singleton).                      *)
THEOREM TypeCorrect == Spec => [](TypeOK /\ LockInv)
<1>1. Init => TypeOK /\ LockInv
  BY InitTypes DEF Init, LockInv
<1>2. TypeOK /\ LockInv /\ [Next]_vars => TypeOK' /\ LockInv'
  BY StartTypes, PoolTypes, RequestTypes, StutterTypes DEF Next
<1>. QED  BY <1>1, <1>2, PTL DEF Spec
-----------------------------------------------------------------------------
(* One copy of every global server for all sessions (server.py:84-89),     *)
(* however many connect at once and wherever they are cancelled or time    *)
(* out.                                                                    *)
LEMMA StartOwner ==
  ASSUME TypeOK, LockInv, OwnerInv, NEW s \in Sessions, StartStep(s)
  PROVE  OwnerInv'
<1>. USE ServerAssumption DEF TypeOK, LockInv, OwnerInv, PoolState, SessState, SessIs, PoolIs
<1>1. CASE Connect(s)
  BY <1>1 DEF Connect, poolVars
<1>2. CASE Reuse(s)
  BY <1>2 DEF Reuse, poolVars
<1>3. CASE StartGlobal(s)
  BY <1>3 DEF StartGlobal
<1>4. CASE Share(s)
  BY <1>4 DEF Share
<1>5. CASE StartTimesOut(s)
  BY <1>5 DEF StartTimesOut
<1>6. CASE StopReturns(s)
  BY <1>6 DEF StopReturns
<1>7. CASE CancelStart(s)
  BY <1>7 DEF CancelStart
<1>8. CASE Disconnect(s)
  BY <1>8 DEF Disconnect, poolVars
<1>. QED  BY <1>1, <1>2, <1>3, <1>4, <1>5, <1>6, <1>7, <1>8 DEF StartStep

LEMMA OtherOwner ==
  ASSUME TypeOK, OwnerInv,
         \/ \E i \in Pools : PoolStep(i)
         \/ \E s \in Sessions, n \in Ids : RequestStep(s, n)
         \/ UNCHANGED vars
  PROVE  OwnerInv'
<1>1. CASE \E i \in Pools : PoolStep(i)
  BY <1>1 DEF PoolStep, Started, SeesStop, Closed, PoolIs, OwnerInv, TypeOK, sessVars
<1>2. CASE \E s \in Sessions, n \in Ids : RequestStep(s, n)
  BY <1>2 DEF RequestStep, Send, Read, RootsEnd, Reply, Deliver, GiveUp, ReadCancel, Refuse,
              OwnerInv, poolVars, sessVars
<1>3. CASE UNCHANGED vars
  BY <1>3 DEF vars, poolVars, sessVars, OwnerInv
<1>. QED  BY <1>1, <1>2, <1>3

LEMMA OwnerIsOne == TypeOK /\ LockInv /\ OwnerInv => OneGlobalPool
BY ServerAssumption DEF TypeOK, LockInv, OwnerInv, OneGlobalPool

THEOREM GlobalPoolIsOne == Spec => []OneGlobalPool
<1>1. Init => OwnerInv
  BY DEF Init, OwnerInv
<1>2. TypeOK /\ LockInv /\ OwnerInv /\ [Next]_vars => OwnerInv'
  BY StartOwner, OtherOwner DEF Next
<1>. QED  BY <1>1, <1>2, TypeCorrect, OwnerIsOne, PTL DEF Spec
-----------------------------------------------------------------------------
(* What a request does to the roots of its session.                        *)
LEMMA RequestRoots ==
  ASSUME TypeOK, RootsInv, NEW s \in Sessions, NEW n \in Ids, RequestStep(s, n)
  PROVE  /\ RootsInv'
         /\ \A x \in Sessions :
              x \notin overlap /\ roots[x] = "project" => roots'[x] = "project"
<1>. USE DEF TypeOK, RootsInv, ReqState, ReqIs, Asking
<1>1. CASE Send(s, n)
  BY <1>1 DEF Send
<1>2. CASE Read(s, n)
  <2>1. roots' = roots /\ overlap \subseteq overlap'
    BY <1>2 DEF Read
  <2>2. ASSUME NEW x \in Sessions, x \notin overlap', NEW m \in Ids, NEW k \in Ids,
               req'[x][m] = "asking"
        PROVE  roots'[x] = "unknown" /\ (req'[x][k] = "asking" => m = k)
    BY <1>2, <2>2, <2>1 DEF Read
  <2>. QED  BY <2>1, <2>2
<1>3. CASE RootsEnd(s, n)
  BY <1>3 DEF RootsEnd
<1>4. CASE Reply(s, n)
  BY <1>4 DEF Reply, Through
<1>5. CASE Deliver(s, n)
  BY <1>5 DEF Deliver
<1>6. CASE GiveUp(s, n)
  BY <1>6 DEF GiveUp
<1>7. CASE ReadCancel(s, n)
  <2>1. CASE ReqIs(s, n, "refusing")
    BY <1>7, <2>1 DEF ReadCancel
  <2>2. CASE UNCHANGED req
    BY <1>7, <2>2 DEF ReadCancel
  <2>. QED  BY <1>7, <2>1, <2>2 DEF ReadCancel
<1>8. CASE Refuse(s, n)
  BY <1>8 DEF Refuse, Through
<1>. QED  BY <1>1, <1>2, <1>3, <1>4, <1>5, <1>6, <1>7, <1>8 DEF RequestStep

(* What the other steps do to them.                                        *)
LEMMA StartRoots ==
  ASSUME TypeOK, RootsInv, NEW s \in Sessions, StartStep(s)
  PROVE  RootsInv' /\ roots' = roots
<1>1. CASE Disconnect(s)
  BY <1>1 DEF Disconnect, TypeOK, RootsInv, ReqState
<1>2. CASE ~Disconnect(s)
  BY <1>2 DEF StartStep, Connect, Reuse, StartGlobal, Share, StartTimesOut, StopReturns,
              CancelStart, reqVars, RootsInv
<1>. QED  BY <1>1, <1>2

LEMMA IdleRoots ==
  ASSUME RootsInv, (\E i \in Pools : PoolStep(i)) \/ UNCHANGED vars
  PROVE  RootsInv' /\ roots' = roots
BY DEF PoolStep, vars, reqVars, RootsInv

(* server.py, _session_roots: a session that has its project keeps it,     *)
(* unless two of its requests asked for the roots at once.                 *)
THEOREM SessionKeepsProject == Spec => ProjectStays
<1>1. Init => RootsInv
  BY DEF Init, RootsInv
<1>2. TypeOK /\ RootsInv /\ [Next]_vars =>
        /\ RootsInv'
        /\ [\A s \in Sessions :
              s \notin overlap /\ roots[s] = "project" => roots'[s] = "project"]_vars
  BY RequestRoots, StartRoots, IdleRoots DEF Next
<1>. QED  BY <1>1, <1>2, TypeCorrect, PTL DEF Spec, ProjectStays
-----------------------------------------------------------------------------
(* Nothing but a request puts a reply on its way.                          *)
LEMMA StartRefused ==
  ASSUME TypeOK, HeardInv, NEW s \in Sessions, StartStep(s)
  PROVE  /\ HeardInv'
         /\ \A x \in Sessions, k \in Ids :
              req'[x][k] = "sending" => req[x][k] = "sending"
<1>1. CASE Disconnect(s)
  BY <1>1 DEF Disconnect, TypeOK, HeardInv, ReqState
<1>2. CASE ~Disconnect(s)
  BY <1>2 DEF StartStep, Connect, Reuse, StartGlobal, Share, StartTimesOut, StopReturns,
              CancelStart, reqVars, HeardInv
<1>. QED  BY <1>1, <1>2

LEMMA RequestRefused ==
  ASSUME TypeOK, HeardInv, NEW s \in Sessions, NEW n \in Ids, RequestStep(s, n)
  PROVE  /\ HeardInv'
         /\ \A x \in Sessions, k \in Ids :
              req[x][k] # "sending" /\ req'[x][k] = "sending" => k \notin heard[x]
<1>. USE DEF TypeOK, HeardInv, ReqState, ReqIs
<1>1. CASE Send(s, n)
  BY <1>1 DEF Send
<1>2. CASE Read(s, n)
  BY <1>2 DEF Read
<1>3. CASE RootsEnd(s, n)
  BY <1>3 DEF RootsEnd
<1>4. CASE Reply(s, n)
  BY <1>4 DEF Reply, Through, Filtered
<1>5. CASE Deliver(s, n)
  BY <1>5 DEF Deliver
<1>6. CASE GiveUp(s, n)
  BY <1>6 DEF GiveUp
<1>7. CASE ReadCancel(s, n)
  <2>1. CASE ReqIs(s, n, "refusing")
    BY <1>7, <2>1 DEF ReadCancel
  <2>2. CASE UNCHANGED req
    BY <1>7, <2>2 DEF ReadCancel
  <2>. QED  BY <1>7, <2>1, <2>2 DEF ReadCancel
<1>8. CASE Refuse(s, n)
  BY <1>8 DEF Refuse, Through, Filtered
<1>. QED  BY <1>1, <1>2, <1>3, <1>4, <1>5, <1>6, <1>7, <1>8 DEF RequestStep

LEMMA IdleRefused ==
  ASSUME HeardInv, (\E i \in Pools : PoolStep(i)) \/ UNCHANGED vars
  PROVE  HeardInv' /\ req' = req
BY DEF PoolStep, vars, reqVars, HeardInv

(* late_response.py: once the server has read a cancellation no reply to   *)
(* to that request leaves it: neither the SDK's own nor its handler's,     *)
(* however late that ends.                                                 *)
THEOREM CancelledStaySilent == Spec => NoReplyAfterCancel
<1>1. Init => HeardInv
  BY DEF Init, HeardInv
<1>2. TypeOK /\ HeardInv /\ [Next]_vars =>
        /\ HeardInv'
        /\ [\A s \in Sessions, n \in Ids :
              req[s][n] # "sending" /\ req'[s][n] = "sending" => n \notin heard[s]]_vars
  BY StartRefused, RequestRefused, IdleRefused DEF Next
<1>. QED  BY <1>1, <1>2, TypeCorrect, PTL DEF Spec, NoReplyAfterCancel
=============================================================================
