---------------------------- MODULE Skills_proofs ----------------------------
(***************************************************************************)
(* Proofs about Skills, for any skills, saves, trials and runs.            *)
(*                                                                         *)
(* A run keeps the files and the tools its skills were bound to because    *)
(* the lock is not released between the bind and its last call (HomeInv).  *)
(* An untried version stays out because only the lock's holder can have    *)
(* swapped its own staged set in, what it swapped out was never a staged   *)
(* set (SwapInv), and nothing is written for a trial that has not passed   *)
(* (TriedInv).                                                             *)
(***************************************************************************)
EXTENDS Skills, SequenceTheorems, TLAPS

LEMMA ObjectsAre ==
  /\ \A s \in Saves : <<s, "live">> \in Objects
  /\ <<Boot, "live">> \in Objects
  /\ \A s \in Tried : <<s, "staged">> \in Objects
  /\ \A a \in Actors : <<a, "child">> \in Objects
  /\ \A o \in Objects : o[2] = "staged" => o[1] \in Tried
  /\ \A o \in Objects : o = <<o[1], o[2]>> /\ o[2] \in {"live", "staged", "child"}
BY DEF Objects

LEMMA InitTypes == Init => TypeOK
<1>. SUFFICES ASSUME Init PROVE TypeOK
  OBVIOUS
<1>. USE SkillsAssumption, ObjectsAre DEF Init
<1>1. Discovered \in [Names -> Versions \cup {Absent}]
  BY DEF Discovered, Versions
<1>2. Nothing \in [Names -> Versions \cup {Absent}]
  BY DEF Nothing
<1>3. holds \in [Objects -> [Names -> Versions \cup {Absent}]]
  BY <1>1, <1>2
<1>4. log \in [Objects -> SUBSET Actors] /\ drained \in [Actors -> SUBSET Actors]
  OBVIOUS
<1>5. script \in [Names -> Versions \cup {Absent}]
  BY DEF Versions
<1>6. queue \in Seq(Actors)
  OBVIOUS
<1>7. md \in [Names -> BOOLEAN]
  <2>1. \A n \in Names : (n \in Old) \in BOOLEAN
    OBVIOUS
  <2>. QED  BY <2>1, Zenon
<1>. QED  BY <1>3, <1>4, <1>5, <1>6, <1>7 DEF TypeOK

LEMMA DiscoveredType == TypeOK => Discovered \in [Names -> Versions \cup {Absent}]
BY DEF TypeOK, Discovered

LEMMA RemoveIs ==
  ASSUME NEW S, NEW q \in Seq(S), NEW i \in DOMAIN q
  PROVE  /\ RemoveAt(q, i) \in Seq(S)
         /\ Len(RemoveAt(q, i)) = Len(q) - 1
         /\ \A j \in 1 .. Len(q) - 1 :
              RemoveAt(q, i)[j] = IF j < i THEN q[j] ELSE q[j + 1]
<1>. DEFINE l == SubSeq(q, 1, i - 1)
            r == SubSeq(q, i + 1, Len(q))
<1>1. /\ l \in Seq(S) /\ Len(l) = i - 1
      /\ \A j \in 1 .. i - 1 : l[j] = q[j]
  OBVIOUS
<1>2. /\ r \in Seq(S) /\ Len(r) = Len(q) - i
      /\ \A j \in 1 .. Len(q) - i : r[j] = q[i + j]
  OBVIOUS
<1>3. Len(q) \in Nat /\ i \in 1 .. Len(q)
  OBVIOUS
<1>. HIDE DEF l, r
<1>4. /\ l \o r \in Seq(S) /\ Len(l \o r) = Len(l) + Len(r)
      /\ \A j \in 1 .. Len(l) + Len(r) :
           (l \o r)[j] = IF j <= Len(l) THEN l[j] ELSE r[j - Len(l)]
  <2>1. l \in Seq(S) /\ r \in Seq(S)
    BY <1>1, <1>2
  <2>. QED  BY <2>1, ConcatProperties, Zenon
<1>5. ASSUME NEW j \in 1 .. Len(q) - 1
      PROVE  (l \o r)[j] = IF j < i THEN q[j] ELSE q[j + 1]
  <2>1. CASE j < i
    <3>1. Len(l) = i - 1 /\ Len(r) = Len(q) - i
      BY <1>1, <1>2
    <3>2. j \in 1 .. Len(l) + Len(r) /\ j <= Len(l) /\ j \in 1 .. i - 1
      BY <3>1, <1>3, <2>1
    <3>3. (l \o r)[j] = l[j]
      BY <1>4, <3>2, Zenon
    <3>4. l[j] = q[j]
      BY <1>1, <3>2, Zenon
    <3>. QED  BY <2>1, <3>3, <3>4, Zenon
  <2>2. CASE j >= i
    <3>1. /\ j \in 1 .. Len(l) + Len(r) /\ ~(j <= Len(l)) /\ j - Len(l) = j - (i - 1)
          /\ j - (i - 1) \in 1 .. Len(q) - i /\ i + (j - (i - 1)) = j + 1
      <4>1. Len(l) = i - 1 /\ Len(r) = Len(q) - i
        BY <1>1, <1>2
      <4>. QED  BY <4>1, <1>3, <2>2
    <3>2. (l \o r)[j] = r[j - Len(l)]
      BY <1>4, <3>1, Zenon
    <3>3. r[j - (i - 1)] = q[i + (j - (i - 1))]
      BY <1>2, <3>1, Zenon
    <3>4. (l \o r)[j] = q[j + 1]
      BY <3>1, <3>2, <3>3, Zenon
    <3>5. ~(j < i)
      BY <1>3, <2>2
    <3>. QED  BY <3>4, <3>5, Zenon
  <2>3. j < i \/ j >= i
    BY <1>3
  <2>. QED  BY <2>1, <2>2, <2>3, Zenon
<1>6. Len(l \o r) = Len(q) - 1
  BY <1>1, <1>2, <1>3, <1>4
<1>7. RemoveAt(q, i) = l \o r
  BY DEF RemoveAt, l, r
<1>8. l \o r \in Seq(S)
  BY <1>4
<1>. QED  BY <1>5, <1>6, <1>7, <1>8, Zenon

LEMMA WaitTypes ==
  ASSUME TypeOK, NEW a \in Actors,
         (a \in Saves /\ (Stage(a) \/ SaveUntried(a))) \/ Arrive(a) \/ GiveUp(a)
  PROVE  TypeOK'
<1>. USE DEF disk, calls
<1>1. CASE a \in Saves /\ Stage(a)
  <2>1. holds' \in [Objects -> [Names -> Versions \cup {Absent}]]
    BY <1>1, DiscoveredType, ObjectsAre DEF Stage, TypeOK, Versions
  <2>. QED  BY <1>1, <2>1 DEF Stage, TypeOK
<1>2. CASE a \in Saves /\ SaveUntried(a)
  BY <1>2 DEF SaveUntried, TypeOK, Writes
<1>3. CASE Arrive(a)
  BY <1>3 DEF Arrive, TypeOK
<1>4. CASE GiveUp(a)
  <2>1. queue' \in Seq(Actors)
    BY <1>4, RemoveIs DEF GiveUp, TypeOK
  <2>. QED  BY <1>4, <2>1 DEF GiveUp, TypeOK
<1>. QED  BY <1>1, <1>2, <1>3, <1>4

LEMMA EnterTypes == TypeOK /\ Begin => TypeOK'
<1>. SUFFICES ASSUME TypeOK, Begin PROVE TypeOK'
  OBVIOUS
<1>. USE SkillsAssumption, ObjectsAre DEF TypeOK, Begin, Enter, disk
<1>1. Head(queue) \in Actors /\ queue' \in Seq(Actors)
  OBVIOUS
<1>2. skills' \in Objects
  BY <1>1 DEF SwappedIn
<1>3. bound' \in [Objects -> Actors \cup {NoOne}]
  BY <1>1, <1>2 DEF Binds
<1>. QED  BY <1>1, <1>2, <1>3

LEMMA OwnType == TypeOK => \A a \in Actors : Own(a) \in Objects
BY ObjectsAre DEF TypeOK, Own

LEMMA ChildReadsType ==
  ASSUME TypeOK, NEW a \in Actors, NEW n \in Names
  PROVE  ChildReads(a, n) \in Versions \cup {Absent}
BY DiscoveredType, ObjectsAre, SkillsAssumption DEF TypeOK, ChildReads, Versions

LEMMA RunTypes ==
  ASSUME TypeOK, NEW a \in Actors,
         \/ Call(a)
         \/ \E o \in Objects : CallRelic(a, o) \/ LateCall(a, o)
         \/ \E n \in Names : ChildLoads(a, n)
  PROVE  TypeOK'
<1>. USE DEF disk, calls, TypeOK
<1>1. CASE Call(a)
  BY <1>1, OwnType DEF Call, Logs, Goes
<1>2. ASSUME NEW o \in Objects, CallRelic(a, o) \/ LateCall(a, o)
      PROVE  TypeOK'
  BY <1>2 DEF CallRelic, LateCall, Logs, Goes
<1>3. CASE \E n \in Names : ChildLoads(a, n)
  <2>1. PICK n \in Names : ChildLoads(a, n)
    BY <1>3
  <2>. HIDE DEF TypeOK
  <2>2. holds' \in [Objects -> [Names -> Versions \cup {Absent}]]
    BY <2>1, ChildReadsType, ObjectsAre DEF ChildLoads, TypeOK
  <2>. QED  BY <2>1, <2>2 DEF ChildLoads, TypeOK
<1>. QED  BY <1>1, <1>2, <1>3

LEMMA EndTypes ==
  ASSUME TypeOK, NEW a \in Actors, Succeed(a) \/ Fail(a) \/ ChildDies(a) \/ Cancel(a)
  PROVE  TypeOK'
<1>. USE DEF TypeOK, Leave, disk, Restored
<1>1. CASE Succeed(a)
  BY <1>1, OwnType DEF Succeed, Drains, Writes, LeavesBehind
<1>2. CASE Fail(a)
  BY <1>2, OwnType DEF Fail, Drains, LeavesBehind
<1>3. CASE ChildDies(a)
  BY <1>3, OwnType DEF ChildDies, Drains
<1>4. CASE Cancel(a)
  BY <1>4 DEF Cancel, LeavesBehind
<1>. QED  BY <1>1, <1>2, <1>3, <1>4

LEMMA WriteTypes ==
  ASSUME TypeOK, NEW s \in Saves, Truncate(s) \/ Write(s) \/ Describe(s) \/ Reload(s)
  PROVE  TypeOK'
<1>. USE SkillsAssumption, ObjectsAre DEF TypeOK, WriteStep, disk, Actors
<1>1. CASE Truncate(s)
  BY <1>1 DEF Truncate, Versions, Writes
<1>2. CASE Write(s)
  BY <1>2 DEF Write, Versions, Writes
<1>3. CASE Describe(s)
  BY <1>3 DEF Describe, Writes
<1>4. CASE Reload(s)
  BY <1>4, DiscoveredType DEF Reload
<1>. QED  BY <1>1, <1>2, <1>3, <1>4

LEMMA NextTypes == TypeOK /\ [Next]_vars => TypeOK'
<1>. SUFFICES ASSUME TypeOK, [Next]_vars PROVE TypeOK'
  OBVIOUS
<1>1. CASE UNCHANGED vars
  BY <1>1 DEF TypeOK, vars
<1>. QED  BY <1>1, WaitTypes, EnterTypes, RunTypes, EndTypes, WriteTypes DEF Next, Actors

(* The types.                                                              *)
THEOREM TypeCorrect == Spec => []TypeOK
BY InitTypes, NextTypes, PTL DEF Spec
-----------------------------------------------------------------------------
HomeInv ==
  /\ left \subseteq astray
  /\ inProcess /\ lock # NoOne => bound[uses[lock]] = lock
  /\ abroad \subseteq astray \cup relics

LEMMA HomeNext == TypeOK /\ HomeInv /\ [Next]_vars => HomeInv'
<1>. SUFFICES ASSUME TypeOK, HomeInv, [Next]_vars PROVE HomeInv'
  OBVIOUS
<1>. USE DEF HomeInv
<1>1. CASE UNCHANGED vars
  BY <1>1 DEF vars, calls
<1>2. CASE Begin
  <2>1. Head(queue) \in Actors
    BY <1>2 DEF Begin, TypeOK
  <2>2. skills' \in Objects
    BY <1>2, EnterTypes DEF TypeOK
  <2>. QED  BY <1>2, <2>1, <2>2 DEF Begin, Enter, Binds, TypeOK
<1>3. ASSUME NEW a \in Actors, Call(a) \/ \E o \in Objects : CallRelic(a, o) \/ LateCall(a, o)
      PROVE  HomeInv'
  <2>1. CASE Call(a)
    BY <2>1, SkillsAssumption DEF Call, Logs, Goes, Holder, Own
  <2>2. ASSUME NEW o \in Objects, CallRelic(a, o) \/ LateCall(a, o)
        PROVE  HomeInv'
    BY <2>2 DEF CallRelic, LateCall, Logs, Goes
  <2>. QED  BY <1>3, <2>1, <2>2
<1>4. ASSUME NEW a \in Actors, Succeed(a) \/ Fail(a) \/ ChildDies(a) \/ Cancel(a)
      PROVE  HomeInv'
  BY <1>4 DEF Succeed, Fail, ChildDies, Cancel, Leave, LeavesBehind, TypeOK
<1>5. ASSUME NEW s \in Saves, Truncate(s) \/ Write(s) \/ Describe(s) \/ Reload(s)
      PROVE  HomeInv'
  BY <1>5 DEF Truncate, Write, Describe, Reload, WriteStep
<1>6. ASSUME NEW a \in Actors, \/ Stage(a) \/ SaveUntried(a) \/ Arrive(a) \/ GiveUp(a)
                               \/ \E n \in Names : ChildLoads(a, n)
      PROVE  HomeInv'
  <2>1. UNCHANGED <<inProcess, uses, lock, left, astray, relics, bound, abroad>>
    BY <1>6 DEF Stage, SaveUntried, Arrive, GiveUp, ChildLoads, calls
  <2>. QED  BY <2>1
<1>. QED  BY <1>1, <1>2, <1>3, <1>4, <1>5, <1>6 DEF Next, Actors

(* executor.py, _build_namespace: whatever trials and saves come between,  *)
(* a skill that a run calls of the set it started with works in that run's *)
(* workspace and through that run's tool proxies; only a call that         *)
(* outlives its run, or one of a set replaced before, does not.            *)
THEOREM SkillsStayHome == Spec => []CallsStayHome
<1>1. Init => HomeInv
  BY DEF Init, HomeInv
<1>2. HomeInv => CallsStayHome
  BY DEF HomeInv, CallsStayHome
<1>. QED  BY <1>1, <1>2, HomeNext, TypeCorrect, PTL DEF Spec
-----------------------------------------------------------------------------
SwapInv ==
  /\ kept[2] = "live"
  /\ skills[2] \in {"live", "staged"}
  /\ skills[2] = "staged" => lock = skills[1]
  /\ \A a \in Actors : uses[a][2] = "staged" => uses[a][1] = a

TriedInv ==
  \A s \in Tried :
    /\ pc[s] \in Writes \cup {"saved"} => s \in passed
    /\ s \notin passed =>
         /\ script[NameOf[s]] # s
         /\ \A o \in Objects \ {<<s, "staged">>, <<s, "child">>} : holds[o][NameOf[s]] # s

LEMMA SwapNext == TypeOK /\ SwapInv /\ [Next]_vars => SwapInv'
<1>. SUFFICES ASSUME TypeOK, SwapInv, [Next]_vars PROVE SwapInv'
  OBVIOUS
<1>. USE DEF SwapInv
<1>1. CASE UNCHANGED vars
  BY <1>1 DEF vars
<1>2. CASE Begin
  <2>1. Head(queue) \in Actors /\ lock = NoOne /\ Enter(Head(queue))
    BY <1>2 DEF Begin, TypeOK
  <2>2. skills[2] = "live"
    BY <2>1, ObjectsAre, SkillsAssumption DEF TypeOK, Actors
  <2>. QED  BY <2>1, <2>2 DEF Enter, SwappedIn, TypeOK
<1>3. ASSUME NEW a \in Actors, Succeed(a) \/ Fail(a) \/ ChildDies(a) \/ Cancel(a)
      PROVE  SwapInv'
  <2>1. Holder(a) /\ Leave(a)
    BY <1>3 DEF Succeed, Fail, ChildDies, Cancel
  <2>2. skills[2] = "staged" => skills = <<a, "staged">>
    BY <2>1, ObjectsAre DEF TypeOK, Holder
  <2>. QED  BY <2>1, <2>2 DEF Leave, Restored
<1>4. ASSUME NEW s \in Saves, Truncate(s) \/ Write(s) \/ Describe(s) \/ Reload(s)
      PROVE  SwapInv'
  BY <1>4 DEF Truncate, Write, Describe, Reload, WriteStep
<1>5. ASSUME NEW a \in Actors, \/ Stage(a) \/ SaveUntried(a) \/ Arrive(a) \/ GiveUp(a)
                               \/ Call(a) \/ \E n \in Names : ChildLoads(a, n)
                               \/ \E o \in Objects : CallRelic(a, o) \/ LateCall(a, o)
      PROVE  SwapInv'
  BY <1>5 DEF Stage, SaveUntried, Arrive, GiveUp, Call, CallRelic, LateCall, Logs, ChildLoads
<1>. QED  BY <1>1, <1>2, <1>3, <1>4, <1>5 DEF Next, Actors

(* What a loader finds is not an untried version.                          *)
LEMMA DiscoveredTried ==
  ASSUME TypeOK, TriedInv, NEW s \in Tried, s \notin passed
  PROVE  Discovered[NameOf[s]] # s
BY SkillsAssumption DEF TypeOK, TriedInv, Discovered, Versions

LEMMA TriedNext == TypeOK /\ SwapInv /\ TriedInv /\ [Next]_vars => TriedInv'
<1>. SUFFICES ASSUME TypeOK, SwapInv, TriedInv, [Next]_vars,
                     NEW s \in Tried
              PROVE  /\ pc'[s] \in Writes \cup {"saved"} => s \in passed'
                     /\ s \notin passed' =>
                          /\ script'[NameOf[s]] # s
                          /\ \A o \in Objects \ {<<s, "staged">>, <<s, "child">>} :
                               holds'[o][NameOf[s]] # s
  BY DEF TriedInv
<1>. USE SkillsAssumption DEF Writes, disk, calls
<1>1. CASE UNCHANGED vars
  BY <1>1 DEF vars, TriedInv
<1>2. CASE Begin
  <2>1. Head(queue) \in Actors
    BY <1>2 DEF Begin, TypeOK
  <2>. QED  BY <1>2, <2>1 DEF Begin, Enter, TypeOK, TriedInv
<1>3. ASSUME NEW a \in Actors, Succeed(a) \/ Fail(a) \/ ChildDies(a) \/ Cancel(a)
      PROVE  /\ pc'[s] \in Writes \cup {"saved"} => s \in passed'
             /\ passed \subseteq passed' /\ UNCHANGED <<script, holds>>
  <2>1. CASE Succeed(a)
    BY <2>1 DEF Succeed, Leave, TypeOK, TriedInv
  <2>2. CASE Fail(a)
    BY <2>2 DEF Fail, Leave, TypeOK, TriedInv
  <2>3. CASE ChildDies(a)
    BY <2>3 DEF ChildDies, Leave, TypeOK, TriedInv
  <2>4. CASE Cancel(a)
    BY <2>4 DEF Cancel, Leave, TypeOK, TriedInv
  <2>. QED  BY <1>3, <2>1, <2>2, <2>3, <2>4
<1>4. ASSUME NEW t \in Saves, Truncate(t) \/ Write(t) \/ Describe(t)
      PROVE  /\ pc'[s] \in Writes \cup {"saved"} => s \in passed'
             /\ s \notin passed' => script'[NameOf[s]] # s
             /\ passed \subseteq passed' /\ UNCHANGED holds
  <2>1. CASE Truncate(t)
    BY <2>1 DEF Truncate, WriteStep, TypeOK, TriedInv, Actors
  <2>2. CASE Write(t)
    BY <2>2 DEF Write, WriteStep, TypeOK, TriedInv, Actors
  <2>3. CASE Describe(t)
    BY <2>3 DEF Describe, WriteStep, TypeOK, TriedInv, Actors
  <2>. QED  BY <1>4, <2>1, <2>2, <2>3
<1>5. ASSUME NEW t \in Saves, Reload(t)
      PROVE  /\ pc'[s] \in Writes \cup {"saved"} => s \in passed'
             /\ s \notin passed' =>
                  /\ script'[NameOf[s]] # s
                  /\ \A o \in Objects \ {<<s, "staged">>, <<s, "child">>} :
                       holds'[o][NameOf[s]] # s
  <2>1. pc'[s] \in Writes \cup {"saved"} => s \in passed'
    BY <1>5 DEF Reload, WriteStep, TypeOK, TriedInv, Actors
  <2>. QED  BY <1>5, <2>1, DiscoveredTried DEF Reload, WriteStep, TypeOK, TriedInv
<1>6. ASSUME NEW t \in Saves, Stage(t)
      PROVE  /\ pc'[s] \in Writes \cup {"saved"} => s \in passed'
             /\ s \notin passed' =>
                  /\ script'[NameOf[s]] # s
                  /\ \A o \in Objects \ {<<s, "staged">>, <<s, "child">>} :
                       holds'[o][NameOf[s]] # s
  <2>1. pc'[s] \in Writes \cup {"saved"} => s \in passed'
    BY <1>6 DEF Stage, TypeOK, TriedInv, Actors
  <2>2. ASSUME s \notin passed, t # s
        PROVE  [Discovered EXCEPT ![NameOf[t]] = t][NameOf[s]] # s
    BY <2>2, DiscoveredTried, DiscoveredType
  <2>. QED  BY <1>6, <2>1, <2>2 DEF Stage, TypeOK, TriedInv
<1>7. ASSUME NEW a \in Actors, NEW n \in Names, ChildLoads(a, n)
      PROVE  /\ UNCHANGED <<script, passed, pc>>
             /\ s \notin passed =>
                  \A o \in Objects \ {<<s, "staged">>, <<s, "child">>} :
                    holds'[o][NameOf[s]] # s
  <2>1. ASSUME s \notin passed, n = NameOf[s], a # s
        PROVE  ChildReads(a, n) # s
    <3>1. uses[a] \in Objects /\ (uses[a][2] = "staged" => uses[a][1] = a)
      BY DEF TypeOK, SwapInv
    <3>. QED  BY <2>1, <3>1, DiscoveredTried DEF ChildReads, Versions
  <2>. QED  BY <1>7, <2>1, ObjectsAre DEF ChildLoads, TypeOK, TriedInv
<1>8. ASSUME NEW a \in Actors, \/ a \in Saves /\ SaveUntried(a)
                               \/ Arrive(a) \/ GiveUp(a) \/ Call(a)
                               \/ \E o \in Objects : CallRelic(a, o) \/ LateCall(a, o)
      PROVE  /\ pc'[s] \in Writes \cup {"saved"} => s \in passed'
             /\ UNCHANGED <<script, holds, passed>>
  BY <1>8 DEF SaveUntried, Arrive, GiveUp, Call, CallRelic, LateCall, Logs, disk, calls,
              TypeOK, TriedInv, Actors
<1>. QED  BY <1>1, <1>2, <1>3, <1>4, <1>5, <1>6, <1>7, <1>8 DEF Next, Actors, TriedInv

(* save_skill: a version whose example has not passed is neither on disk   *)
(* nor in any set but that of its own trial, which is the executor's only  *)
(* while the trial holds the lock.                                         *)
THEOREM UntriedIsOut == Spec => []UntriedStaysOut
<1>1. Init => SwapInv /\ TriedInv
  <2>. SUFFICES ASSUME Init PROVE SwapInv /\ TriedInv
    OBVIOUS
  <2>1. SwapInv
    BY DEF Init, SwapInv
  <2>2. \A n \in Names : Discovered[n] \in {Boot, Absent}
    BY DEF Init, Discovered
  <2>3. \A o \in Objects, n \in Names : holds[o][n] \in {Boot, Absent}
    BY <2>2 DEF Init, Nothing
  <2>4. TriedInv
    BY <2>3, SkillsAssumption DEF Init, TriedInv, Versions, Writes, Actors
  <2>. QED  BY <2>1, <2>4
<1>2. SwapInv /\ TriedInv => UntriedStaysOut
  BY DEF SwapInv, TriedInv, UntriedStaysOut
<1>. QED  BY <1>1, <1>2, SwapNext, TriedNext, TypeCorrect, PTL DEF Spec
-----------------------------------------------------------------------------
ServeInv == LoopFree => holds[IF skills[2] = "live" THEN skills ELSE kept] = Discovered

LEMMA LoopTaken ==
  ASSUME TypeOK, NEW s \in Saves, pc'[s] \in Writes
  PROVE  ServeInv'
BY DEF ServeInv, LoopFree, Writes

LEMMA ServeNext == TypeOK /\ SwapInv /\ ServeInv /\ [Next]_vars => ServeInv'
<1>. SUFFICES ASSUME TypeOK, SwapInv, ServeInv, [Next]_vars PROVE ServeInv'
  OBVIOUS
<1>. DEFINE served == IF skills[2] = "live" THEN skills ELSE kept
<1>1. ASSUME LoopFree, UNCHANGED disk, served' = served, holds'[served] = holds[served]
      PROVE  ServeInv'
  BY <1>1 DEF ServeInv, disk, Discovered
<1>2. served \in Objects /\ served[2] = "live"
  BY DEF TypeOK, SwapInv
<1>3. CASE UNCHANGED vars
  BY <1>3 DEF vars, ServeInv, disk, Discovered, LoopFree
<1>4. CASE Begin
  <2>1. Head(queue) \in Actors /\ lock = NoOne /\ LoopFree
    BY <1>4 DEF Begin, TypeOK
  <2>2. skills[2] = "live"
    BY <2>1, ObjectsAre, SkillsAssumption DEF TypeOK, SwapInv, Actors
  <2>3. kept' = skills /\ skills' \in {skills, <<Head(queue), "staged">>}
    BY <1>4 DEF Begin, Enter, SwappedIn
  <2>. QED  BY <1>1, <1>4, <2>1, <2>2, <2>3 DEF Begin, Enter, disk
<1>5. ASSUME NEW a \in Actors, Succeed(a) \/ Fail(a) \/ ChildDies(a) \/ Cancel(a)
      PROVE  ServeInv'
  <2>1. Leave(a) /\ LoopFree
    BY <1>5 DEF Succeed, Fail, ChildDies, Cancel
  <2>2. served' = served
    BY <2>1 DEF SwapInv, Leave, Restored
  <2>. QED  BY <1>1, <2>1, <2>2 DEF Leave
<1>6. ASSUME NEW s \in Saves, Truncate(s) \/ Write(s) \/ Describe(s)
      PROVE  ServeInv'
  BY <1>6, LoopTaken DEF Truncate, Write, Describe, WriteStep, TypeOK, Writes, Actors
<1>7. ASSUME NEW s \in Saves, Reload(s)
      PROVE  ServeInv'
  <2>1. skills' = <<s, "live">> /\ holds'[<<s, "live">>] = Discovered
    BY <1>7, ObjectsAre DEF Reload, TypeOK
  <2>2. Discovered' = Discovered
    BY <1>7 DEF Reload, disk, Discovered
  <2>. QED  BY <2>1, <2>2 DEF ServeInv
<1>8. ASSUME NEW s \in Saves, Stage(s)
      PROVE  ServeInv'
  <2>1. holds'[served] = holds[served]
    BY <1>2, <1>8 DEF Stage, TypeOK
  <2>. QED  BY <1>1, <1>8, <2>1 DEF Stage
<1>9. ASSUME NEW s \in Saves, SaveUntried(s)
      PROVE  ServeInv'
  BY <1>9, LoopTaken DEF SaveUntried, TypeOK, Writes, Actors
<1>10. ASSUME NEW a \in Actors, NEW n \in Names, ChildLoads(a, n)
       PROVE  ServeInv'
  <2>1. holds'[served] = holds[served]
    BY <1>2, <1>10 DEF ChildLoads, TypeOK
  <2>2. LoopFree' = LoopFree
    BY <1>10 DEF ChildLoads, LoopFree
  <2>. QED  BY <1>10, <2>1, <2>2 DEF ChildLoads, ServeInv, disk, Discovered
<1>11. ASSUME NEW a \in Actors, Arrive(a) \/ GiveUp(a)
       PROVE  ServeInv'
  BY <1>1, <1>11 DEF Arrive, GiveUp
<1>12. ASSUME NEW a \in Actors, Call(a) \/ \E o \in Objects : CallRelic(a, o) \/ LateCall(a, o)
       PROVE  ServeInv'
  BY <1>12 DEF Call, CallRelic, LateCall, Logs, ServeInv, disk, Discovered, LoopFree
<1>. QED  BY <1>3, <1>4, <1>5, <1>6, <1>7, <1>8, <1>9, <1>10, <1>11, <1>12 DEF Next

(* save_skill: what it says it saved is what runs call, and what runs call *)
(* is what is on disk: a trial that ends after a save does not bring back  *)
(* the set it swapped out.                                                 *)
THEOREM SavedIsServed == Spec => []ServesTheSaved
<1>1. Init => SwapInv /\ ServeInv
  BY ObjectsAre DEF Init, SwapInv, ServeInv, Discovered
<1>2. ServeInv => ServesTheSaved
  BY DEF ServeInv, ServesTheSaved
<1>. QED  BY <1>1, <1>2, SwapNext, ServeNext, TypeCorrect, PTL DEF Spec
-----------------------------------------------------------------------------
(* Who waits for the lock has not run yet and waits once; who runs has it. *)
QueueInv ==
  /\ \A i \in DOMAIN queue : pc[queue[i]] = "queued"
  /\ \A i, j \in DOMAIN queue : queue[i] = queue[j] => i = j
  /\ lock # NoOne => pc[lock] = "running"
  /\ \A a \in Actors : pc[a] = "running" => lock = a
  /\ \A a \in made : pc[a] \notin {"new", "staged", "queued"}

LEMMA QueueNext == TypeOK /\ QueueInv /\ [Next]_vars => QueueInv'
<1>. SUFFICES ASSUME TypeOK, QueueInv, [Next]_vars PROVE QueueInv'
  OBVIOUS
<1>. USE SkillsAssumption DEF Writes
<1>0. \A i \in DOMAIN queue : queue[i] \in Actors
  BY DEF TypeOK
<1>1. ASSUME NEW a \in Actors, UNCHANGED <<queue, lock, made>>,
             NEW to \in {"staged", "cancelled", "saved"} \cup Writes,
             pc[a] \notin {"queued", "running"}, pc' = [pc EXCEPT ![a] = to],
             a \in made => to # "staged"
      PROVE  QueueInv'
  BY <1>0, <1>1 DEF QueueInv, TypeOK
<1>2. CASE UNCHANGED vars
  BY <1>2 DEF vars, calls, QueueInv
<1>3. ASSUME NEW a \in Actors, Arrive(a)
      PROVE  QueueInv'
  <2>1. pc[a] \in {"new", "staged"} /\ pc' = [pc EXCEPT ![a] = "queued"]
        /\ UNCHANGED <<lock, made>>
    BY <1>3 DEF Arrive, calls
  <2>2. /\ DOMAIN queue' = 1 .. Len(queue) + 1
        /\ queue'[Len(queue) + 1] = a
        /\ \A i \in DOMAIN queue : queue'[i] = queue[i]
    BY <1>3 DEF Arrive, TypeOK
  <2>3. DOMAIN queue = 1 .. Len(queue) /\ Len(queue) \in Nat
    BY DEF TypeOK
  <2>4. \A i \in DOMAIN queue : queue[i] # a
    BY <2>1 DEF QueueInv
  <2>5. \A i \in DOMAIN queue' : i \in DOMAIN queue \/ i = Len(queue) + 1
    BY <2>2, <2>3
  <2>6. \A i \in DOMAIN queue' : pc'[queue'[i]] = "queued"
    BY <1>0, <2>1, <2>2, <2>5 DEF QueueInv, TypeOK
  <2>7. \A i, j \in DOMAIN queue' : queue'[i] = queue'[j] => i = j
    BY <2>2, <2>4, <2>5 DEF QueueInv
  <2>. QED  BY <2>1, <2>6, <2>7 DEF QueueInv, TypeOK
<1>4. ASSUME NEW a \in Actors, GiveUp(a)
      PROVE  QueueInv'
  <2>1. CASE pc[a] = "staged" /\ UNCHANGED queue
    BY <1>1, <1>4, <2>1 DEF GiveUp, QueueInv, calls
  <2>2. ASSUME pc[a] = "queued", NEW k \in DOMAIN queue, queue[k] = a,
               queue' = RemoveAt(queue, k)
        PROVE  QueueInv'
    <3>1. pc' = [pc EXCEPT ![a] = "cancelled"] /\ UNCHANGED <<lock, made>>
      BY <1>4 DEF GiveUp, calls
    <3>2. /\ DOMAIN queue' = 1 .. Len(queue) - 1
          /\ \A i \in 1 .. Len(queue) - 1 :
               queue'[i] = IF i < k THEN queue[i] ELSE queue[i + 1]
      BY <2>2, RemoveIs DEF TypeOK
    <3>3. DOMAIN queue = 1 .. Len(queue) /\ Len(queue) \in Nat
      BY DEF TypeOK
    <3>4. ASSUME NEW i \in DOMAIN queue'
          PROVE  \E m \in DOMAIN queue : /\ queue'[i] = queue[m] /\ m # k
                                         /\ m = IF i < k THEN i ELSE i + 1
      BY <3>2, <3>3
    <3>5. \A i \in DOMAIN queue' : pc'[queue'[i]] = "queued"
      BY <1>0, <2>2, <3>1, <3>4 DEF QueueInv, TypeOK
    <3>6. ASSUME NEW i \in DOMAIN queue', NEW j \in DOMAIN queue', queue'[i] = queue'[j]
          PROVE  i = j
      <4>1. PICK m \in DOMAIN queue : queue'[i] = queue[m] /\ m = IF i < k THEN i ELSE i + 1
        BY <3>4
      <4>2. PICK n \in DOMAIN queue : queue'[j] = queue[n] /\ n = IF j < k THEN j ELSE j + 1
        BY <3>4
      <4>3. m = n
        BY <3>6, <4>1, <4>2 DEF QueueInv
      <4>. QED  BY <3>2, <3>3, <4>1, <4>2, <4>3
    <3>. QED  BY <2>2, <3>1, <3>5, <3>6 DEF QueueInv, TypeOK
  <2>. QED  BY <1>4, <2>1, <2>2 DEF GiveUp
<1>5. CASE Begin
  <2>1. PICK a \in Actors : /\ a = queue[1] /\ pc[a] = "queued" /\ lock = NoOne
                            /\ lock' = a /\ pc' = [pc EXCEPT ![a] = "running"]
                            /\ made' = made /\ queue' = Tail(queue)
    <3>1. 1 \in DOMAIN queue /\ Head(queue) = queue[1]
      BY <1>5 DEF Begin, TypeOK
    <3>2. queue[1] \in Actors /\ pc[queue[1]] = "queued"
      BY <1>0, <3>1 DEF QueueInv
    <3>. QED  BY <1>5, <3>1, <3>2 DEF Begin, Enter
  <2>2. /\ DOMAIN queue' = 1 .. Len(queue) - 1
        /\ \A i \in 1 .. Len(queue) - 1 : queue'[i] = queue[i + 1]
        /\ DOMAIN queue = 1 .. Len(queue) /\ Len(queue) \in Nat
    BY <1>5, <2>1 DEF Begin, TypeOK
  <2>3. \A i \in DOMAIN queue' : i + 1 \in DOMAIN queue /\ i + 1 # 1 /\ queue'[i] # a
    BY <1>5, <2>1, <2>2 DEF QueueInv, Begin
  <2>4. \A i \in DOMAIN queue' : pc'[queue'[i]] = "queued"
    BY <1>0, <2>1, <2>2, <2>3 DEF QueueInv, TypeOK
  <2>5. \A i, j \in DOMAIN queue' : queue'[i] = queue'[j] => i = j
    BY <2>2, <2>3 DEF QueueInv
  <2>. QED  BY <2>1, <2>4, <2>5 DEF QueueInv, TypeOK
<1>6. ASSUME NEW a \in Actors, Call(a)
      PROVE  QueueInv'
  BY <1>6 DEF Call, Logs, Holder, QueueInv
<1>7. ASSUME NEW a \in Actors, Succeed(a) \/ Fail(a) \/ ChildDies(a) \/ Cancel(a)
      PROVE  QueueInv'
  <2>1. PICK to \in {"over", "cancelled", "truncate"} : pc' = [pc EXCEPT ![a] = to]
    BY <1>7 DEF Succeed, Fail, ChildDies, Cancel
  <2>2. lock = a /\ pc[a] = "running" /\ lock' = NoOne /\ UNCHANGED <<queue, made>>
    BY <1>7 DEF Succeed, Fail, ChildDies, Cancel, Leave, Holder
  <2>. QED  BY <1>0, <2>1, <2>2 DEF QueueInv, TypeOK
<1>8. ASSUME NEW s \in Saves, \/ Truncate(s) \/ Write(s) \/ Describe(s) \/ Reload(s)
                              \/ SaveUntried(s) \/ Stage(s)
      PROVE  QueueInv'
  <2>1. CASE SaveUntried(s)
    <3>1. s \in Actors /\ pc[s] = "new" /\ pc' = [pc EXCEPT ![s] = "truncate"]
          /\ UNCHANGED <<queue, lock, made>>
      BY <2>1 DEF SaveUntried, calls, Actors
    <3>. QED  BY <1>1, <3>1
  <2>2. CASE Stage(s)
    BY <1>1, <2>2 DEF Stage, calls, Actors, QueueInv
  <2>3. CASE Truncate(s) \/ Write(s) \/ Describe(s) \/ Reload(s)
    BY <1>1, <2>3 DEF Truncate, Write, Describe, Reload, WriteStep, Actors
  <2>. QED  BY <1>8, <2>1, <2>2, <2>3
<1>9. ASSUME NEW a \in Actors, \/ \E n \in Names : ChildLoads(a, n)
                               \/ \E o \in Objects : CallRelic(a, o) \/ LateCall(a, o)
      PROVE  QueueInv'
  BY <1>9 DEF CallRelic, LateCall, Logs, ChildLoads, QueueInv, calls
<1>. QED  BY <1>2, <1>3, <1>4, <1>5, <1>6, <1>7, <1>8, <1>9 DEF Next, Actors

(* A staged set has its version from when it was staged; a trial runs it.  *)
TrialInv ==
  \A s \in Tried :
    /\ pc[s] # "new" => holds[<<s, "staged">>][NameOf[s]] = s
    /\ lock = s => uses[s] = <<s, "staged">>
    /\ lock = s /\ ~inProcess /\ NameOf[s] \notin toLoad
         => holds[<<s, "child">>][NameOf[s]] = s

LEMMA TrialNext == TypeOK /\ QueueInv /\ TrialInv /\ [Next]_vars => TrialInv'
<1>. SUFFICES ASSUME TypeOK, QueueInv, TrialInv, [Next]_vars, NEW s \in Tried
              PROVE  /\ pc'[s] # "new" => holds'[<<s, "staged">>][NameOf[s]] = s
                     /\ lock' = s => uses'[s] = <<s, "staged">>
                     /\ lock' = s /\ ~inProcess' /\ NameOf[s] \notin toLoad'
                          => holds'[<<s, "child">>][NameOf[s]] = s
  BY DEF TrialInv
<1>. USE SkillsAssumption
<1>0. /\ s \in Actors /\ s \in Saves /\ NameOf[s] \in Names
      /\ <<s, "staged">> \in Objects /\ <<s, "child">> \in Objects
      /\ pc[s] # "new" => holds[<<s, "staged">>][NameOf[s]] = s
      /\ lock = s => uses[s] = <<s, "staged">>
      /\ lock = s /\ ~inProcess /\ NameOf[s] \notin toLoad
           => holds[<<s, "child">>][NameOf[s]] = s
  BY ObjectsAre DEF TrialInv, Actors
<1>1. ASSUME UNCHANGED <<inProcess, lock, uses, toLoad>>, pc'[s] # "new" => pc[s] # "new",
             holds'[<<s, "staged">>] = holds[<<s, "staged">>],
             holds'[<<s, "child">>] = holds[<<s, "child">>]
      PROVE  /\ pc'[s] # "new" => holds'[<<s, "staged">>][NameOf[s]] = s
             /\ lock' = s => uses'[s] = <<s, "staged">>
             /\ lock' = s /\ ~inProcess' /\ NameOf[s] \notin toLoad'
                  => holds'[<<s, "child">>][NameOf[s]] = s
  BY <1>0, <1>1
<1>2. CASE UNCHANGED vars
  BY <1>1, <1>2 DEF vars
<1>3. CASE Begin
  <2>1. Head(queue) \in Actors /\ pc[Head(queue)] = "queued"
    BY <1>3 DEF Begin, TypeOK, QueueInv
  <2>2. lock' = Head(queue) /\ UNCHANGED <<inProcess, holds>>
        /\ pc' = [pc EXCEPT ![Head(queue)] = "running"]
    BY <1>3 DEF Begin, Enter
  <2>3. lock' = s => uses'[s] = <<s, "staged">>
    BY <1>0, <1>3, <2>1, <2>2 DEF Begin, Enter, SwappedIn, TypeOK
  <2>4. ~inProcess => toLoad' = Names
    BY <1>3 DEF Begin, Enter
  <2>. QED  BY <1>0, <2>1, <2>2, <2>3, <2>4 DEF TypeOK
<1>4. ASSUME NEW a \in Actors, Succeed(a) \/ Fail(a) \/ ChildDies(a) \/ Cancel(a)
      PROVE  /\ pc'[s] # "new" => holds'[<<s, "staged">>][NameOf[s]] = s
             /\ lock' # s
  <2>1. lock' = NoOne /\ holds' = holds /\ pc[a] = "running"
    BY <1>4 DEF Succeed, Fail, ChildDies, Cancel, Leave, Holder
  <2>2. pc'[s] # "new" => pc[s] # "new"
    BY <1>0, <1>4, <2>1 DEF Succeed, Fail, ChildDies, Cancel, TypeOK
  <2>. QED  BY <1>0, <2>1, <2>2
<1>5. ASSUME NEW t \in Saves, Stage(t)
      PROVE  /\ pc'[s] # "new" => holds'[<<s, "staged">>][NameOf[s]] = s
             /\ lock' = s => uses'[s] = <<s, "staged">>
             /\ lock' = s /\ ~inProcess' /\ NameOf[s] \notin toLoad'
                  => holds'[<<s, "child">>][NameOf[s]] = s
  <2>1. CASE t = s
    <3>1. holds'[<<s, "staged">>][NameOf[s]] = s
      BY <1>0, <1>5, <2>1, DiscoveredType DEF Stage, TypeOK
    <3>2. lock' # s
      BY <1>0, <1>5, <2>1 DEF Stage, QueueInv, Actors
    <3>. QED  BY <3>1, <3>2
  <2>2. CASE t # s
    BY <1>0, <1>1, <1>5, <2>2 DEF Stage, TypeOK, Actors
  <2>. QED  BY <2>1, <2>2
<1>6. ASSUME NEW t \in Saves, Truncate(t) \/ Write(t) \/ Describe(t) \/ SaveUntried(t)
      PROVE  /\ UNCHANGED <<inProcess, lock, uses, toLoad, holds>>
             /\ pc'[s] # "new" => pc[s] # "new"
  BY <1>0, <1>6 DEF Truncate, Write, Describe, SaveUntried, WriteStep, TypeOK, Actors
<1>7. ASSUME NEW t \in Saves, Reload(t)
      PROVE  /\ UNCHANGED <<inProcess, lock, uses, toLoad>>
             /\ pc'[s] # "new" => pc[s] # "new"
             /\ holds'[<<s, "staged">>] = holds[<<s, "staged">>]
             /\ holds'[<<s, "child">>] = holds[<<s, "child">>]
  BY <1>0, <1>7 DEF Reload, WriteStep, TypeOK, Actors
<1>8. ASSUME NEW a \in Actors, NEW n \in Names, ChildLoads(a, n)
      PROVE  /\ pc'[s] # "new" => holds'[<<s, "staged">>][NameOf[s]] = s
             /\ lock' = s => uses'[s] = <<s, "staged">>
             /\ lock' = s /\ ~inProcess' /\ NameOf[s] \notin toLoad'
                  => holds'[<<s, "child">>][NameOf[s]] = s
  <2>1. /\ UNCHANGED <<inProcess, lock, uses, pc>> /\ lock = a
        /\ holds'[<<s, "staged">>] = holds[<<s, "staged">>]
    BY <1>0, <1>8 DEF ChildLoads, Holder, TypeOK
  <2>2. CASE a = s /\ n = NameOf[s]
    <3>1. ChildReads(a, n) = s
      <4>1. uses[s] = <<s, "staged">> /\ holds[uses[s]][NameOf[s]] = s
        BY <1>0, <1>8, <2>1, <2>2 DEF ChildLoads, Holder
      <4>2. s # Absent /\ Nothing[NameOf[s]] = Absent
        BY <1>0 DEF Versions, Nothing
      <4>3. holds[uses[s]] # Nothing /\ holds[uses[s]][NameOf[s]] # Absent
        BY <4>1, <4>2
      <4>. QED  BY <2>2, <4>1, <4>3 DEF ChildReads
    <3>2. holds'[<<s, "child">>][NameOf[s]] = s
      BY <1>0, <1>8, <2>2, <3>1 DEF ChildLoads, TypeOK
    <3>. QED  BY <1>0, <2>1, <3>2
  <2>3. CASE a # s
    BY <1>0, <2>1, <2>3
  <2>4. CASE a = s /\ n # NameOf[s]
    <3>1. holds'[<<s, "child">>][NameOf[s]] = holds[<<s, "child">>][NameOf[s]]
      BY <1>0, <1>8, <2>4 DEF ChildLoads, TypeOK
    <3>2. NameOf[s] \in toLoad' <=> NameOf[s] \in toLoad
      BY <1>8, <2>4 DEF ChildLoads
    <3>. QED  BY <1>0, <2>1, <3>1, <3>2
  <2>. QED  BY <2>2, <2>3, <2>4
<1>9. ASSUME NEW a \in Actors, \/ Arrive(a) \/ GiveUp(a) \/ Call(a)
                               \/ \E o \in Objects : CallRelic(a, o) \/ LateCall(a, o)
      PROVE  /\ UNCHANGED <<inProcess, lock, uses, toLoad, holds>>
             /\ pc'[s] # "new" => pc[s] # "new"
  <2>1. CASE Arrive(a)
    BY <1>0, <2>1 DEF Arrive, TypeOK
  <2>2. CASE GiveUp(a)
    BY <1>0, <2>2 DEF GiveUp, TypeOK
  <2>3. CASE Call(a) \/ \E o \in Objects : CallRelic(a, o) \/ LateCall(a, o)
    BY <2>3 DEF Call, CallRelic, LateCall, Logs
  <2>. QED  BY <1>9, <2>1, <2>2, <2>3
<1>. QED  BY <1>1, <1>2, <1>3, <1>4, <1>5, <1>6, <1>7, <1>8, <1>9 DEF Next, Actors

LEMMA QueueCorrect == Spec => []QueueInv
<1>1. Init => QueueInv
  BY DEF Init, QueueInv
<1>. QED  BY <1>1, QueueNext, TypeCorrect, PTL DEF Spec

LEMMA TrialCorrect == Spec => []TrialInv
<1>1. Init => TrialInv
  BY SkillsAssumption DEF Init, TrialInv, Actors
<1>. QED  BY <1>1, TrialNext, QueueCorrect, TypeCorrect, PTL DEF Spec

(* save_skill, stage_skills: a trial runs the version it is for, in the    *)
(* process and in a child, whatever is saved under the same name between   *)
(* the staging and the trial.                                              *)
THEOREM TrialsAreOfTheirVersion == Spec => []TrialTriesItsVersion
<1>1. TypeOK /\ TrialInv /\ QueueInv => TrialTriesItsVersion
  BY SkillsAssumption DEF TrialInv, TrialTriesItsVersion, Holder, Own, QueueInv, Actors
<1>. QED  BY <1>1, TrialCorrect, QueueCorrect, TypeCorrect, PTL
-----------------------------------------------------------------------------
(* Nothing has been called in the set of a save that is not yet reloaded,  *)
(* and no run is bound to it.                                              *)
FreshInv ==
  \A s \in Saves : pc[s] # "saved" =>
    /\ skills # <<s, "live">> /\ kept # <<s, "live">>
    /\ \A a \in Actors : uses[a] # <<s, "live">>
    /\ log[<<s, "live">>] = {} /\ bound[<<s, "live">>] = NoOne

(* The set of the run that has the lock is the executor's, until a save    *)
(* brings one that no run is bound to.                                     *)
CurrentInv ==
  inProcess /\ lock # NoOne => skills = uses[lock] \/ bound[skills] = NoOne

(* A child's set logs its own run, a staged one its trial, and with child  *)
(* processes nothing is logged in the server's.                            *)
OwnLogInv ==
  /\ \A a \in Actors : uses[a][2] # "child" /\ log[<<a, "child">>] \subseteq {a}
  /\ \A s \in Tried : log[<<s, "staged">>] \subseteq {s}
  /\ ~inProcess => left = {} /\ \A o \in Objects : o[2] # "child" => log[o] = {}

(* The executor's set logs the run that has the lock and those gone astray,*)
(* the set it will go back to only these.                                  *)
LogInv ==
  /\ \A o \in Objects : o[2] = "staged" => log[o] \subseteq made \cup astray
  /\ log[skills] \subseteq astray \cup (made \cap {lock})
  /\ skills[2] = "staged" => log[kept] \subseteq astray

(* What a run has called is where its end will look for it.                *)
MadeInv ==
  /\ \A a \in made : ~inProcess => a \in log[<<a, "child">>]
  /\ inProcess /\ lock # NoOne /\ lock \notin missing =>
       skills = uses[lock] /\ (lock \in made => lock \in log[skills])

(* The end of a run: who it was, and what became of its log.               *)
Reports(a) ==
  \E sent \in BOOLEAN : /\ Drains(a, sent) /\ (sent => ~inProcess)
                        /\ sent \/ inProcess \/ a \in missing'

Ends(a) ==
  /\ Holder(a) /\ Leave(a)
  /\ pc' = [pc EXCEPT ![a] = pc'[a]] /\ pc'[a] \in {"over", "cancelled", "truncate"}
  /\ \/ /\ log' = [log EXCEPT ![skills] = {}] /\ astray \subseteq astray'
        /\ Reports(a)
     \/ /\ UNCHANGED <<log, drained>> /\ pc'[a] = "cancelled"
        /\ astray \subseteq astray' /\ (inProcess /\ a \in made => a \in astray')
  /\ missing \subseteq missing' /\ missing' \subseteq missing \cup {a}
  /\ left' # left => inProcess

LEMMA EndsIs ==
  ASSUME TypeOK, NEW a \in Actors, Succeed(a) \/ Fail(a) \/ ChildDies(a) \/ Cancel(a)
  PROVE  Ends(a)
<1>. USE DEF Ends, Reports
<1>1. CASE Succeed(a)
  BY <1>1 DEF Succeed, Drains, LeavesBehind, TypeOK
<1>2. CASE Fail(a)
  BY <1>2 DEF Fail, Drains, LeavesBehind, TypeOK
<1>3. CASE ChildDies(a)
  BY <1>3 DEF ChildDies, Drains, TypeOK
<1>4. CASE Cancel(a)
  BY <1>4 DEF Cancel, LeavesBehind, TypeOK
<1>. QED  BY <1>1, <1>2, <1>3, <1>4

LEMMA EndsAlone ==
  ASSUME TypeOK, NEW a \in Actors, Ends(a)
  PROVE  /\ \A o \in Objects : log'[o] \subseteq log[o]
         /\ \A b \in Actors \ {a} : drained'[b] = drained[b] /\ pc'[b] = pc[b]
<1>1. \A b \in Actors \ {a} : pc'[b] = pc[b]
  <2>1. pc' = [pc EXCEPT ![a] = pc'[a]]
    BY DEF Ends
  <2>. QED  BY <2>1 DEF TypeOK
<1>2. CASE UNCHANGED <<log, drained>>
  BY <1>1, <1>2
<1>3. ASSUME NEW sent \in BOOLEAN, Drains(a, sent)
      PROVE  /\ \A o \in Objects : log'[o] \subseteq log[o]
             /\ \A b \in Actors \ {a} : drained'[b] = drained[b]
  BY <1>3 DEF Drains, TypeOK
<1>4. CASE Reports(a)
  BY <1>1, <1>3, <1>4 DEF Reports
<1>. QED  BY <1>2, <1>4 DEF Ends

(* A step that neither begins a run, nor ends one, nor calls, nor reloads, *)
(* leaves the logs alone.                                                  *)
LEMMA Aside ==
  ASSUME TypeOK,
         \/ UNCHANGED vars
         \/ \E a \in Actors : Arrive(a) \/ GiveUp(a) \/ \E n \in Names : ChildLoads(a, n)
         \/ \E s \in Saves : \/ Stage(s) \/ SaveUntried(s)
                             \/ Truncate(s) \/ Write(s) \/ Describe(s)
  PROVE  /\ UNCHANGED <<inProcess, skills, kept, uses, lock, log, left, made, drained,
                        astray, missing, bound>>
         /\ \A s \in Saves : pc'[s] # "saved" => pc[s] # "saved"
<1>1. CASE UNCHANGED vars
  BY <1>1 DEF vars
<1>2. ASSUME NEW a \in Actors, Arrive(a) \/ GiveUp(a) \/ \E n \in Names : ChildLoads(a, n)
      PROVE  /\ UNCHANGED <<inProcess, skills, kept, uses, lock, log, left, made, drained,
                            astray, missing, bound>>
             /\ \A s \in Saves : pc'[s] # "saved" => pc[s] # "saved"
  BY <1>2 DEF Arrive, GiveUp, ChildLoads, calls, TypeOK, Actors
<1>3. ASSUME NEW s \in Saves, Stage(s) \/ SaveUntried(s)
      PROVE  /\ UNCHANGED <<inProcess, skills, kept, uses, lock, log, left, made, drained,
                            astray, missing, bound>>
             /\ \A t \in Saves : pc'[t] # "saved" => pc[t] # "saved"
  BY <1>3 DEF Stage, SaveUntried, calls, TypeOK, Actors
<1>4. ASSUME NEW s \in Saves, Truncate(s) \/ Write(s) \/ Describe(s)
      PROVE  /\ UNCHANGED <<inProcess, skills, kept, uses, lock, log, left, made, drained,
                            astray, missing, bound>>
             /\ \A t \in Saves : pc'[t] # "saved" => pc[t] # "saved"
  BY <1>4 DEF Truncate, Write, Describe, WriteStep, TypeOK, Actors
<1>. QED  BY <1>1, <1>2, <1>3, <1>4

LEMMA FreshNext == TypeOK /\ QueueInv /\ FreshInv /\ [Next]_vars => FreshInv'
<1>. SUFFICES ASSUME TypeOK, QueueInv, FreshInv, [Next]_vars,
                     NEW s \in Saves, pc'[s] # "saved"
              PROVE  /\ skills' # <<s, "live">> /\ kept' # <<s, "live">>
                     /\ \A a \in Actors : uses'[a] # <<s, "live">>
                     /\ log'[<<s, "live">>] = {} /\ bound'[<<s, "live">>] = NoOne
  BY DEF FreshInv
<1>0. s \in Actors /\ <<s, "live">> \in Objects
  BY ObjectsAre DEF Actors
<1>1. ASSUME pc[s] # "saved"
      PROVE  /\ skills # <<s, "live">> /\ kept # <<s, "live">>
             /\ \A a \in Actors : uses[a] # <<s, "live">>
             /\ log[<<s, "live">>] = {} /\ bound[<<s, "live">>] = NoOne
  BY <1>1 DEF FreshInv
<1>2. CASE Begin
  <2>1. Head(queue) \in Actors /\ pc[Head(queue)] = "queued"
    BY <1>2 DEF Begin, TypeOK, QueueInv
  <2>2. pc[s] # "saved"
    BY <1>0, <1>2, <2>1 DEF Begin, Enter, TypeOK
  <2>3. skills' # <<s, "live">> /\ kept' # <<s, "live">> /\ log' = log
    BY <1>1, <1>2, <2>2 DEF Begin, Enter, SwappedIn
  <2>4. uses' = [uses EXCEPT ![Head(queue)] = skills']
    BY <1>2 DEF Begin, Enter
  <2>5. bound' = [bound EXCEPT ![skills'] = Head(queue)] \/ bound' = bound
    BY <1>2 DEF Begin, Enter, Binds
  <2>. QED  BY <1>0, <1>1, <2>1, <2>2, <2>3, <2>4, <2>5 DEF TypeOK
<1>3. ASSUME NEW a \in Actors, Succeed(a) \/ Fail(a) \/ ChildDies(a) \/ Cancel(a)
      PROVE  /\ skills' # <<s, "live">> /\ kept' # <<s, "live">>
             /\ \A b \in Actors : uses'[b] # <<s, "live">>
             /\ log'[<<s, "live">>] = {} /\ bound'[<<s, "live">>] = NoOne
  <2>1. Ends(a)
    BY <1>3, EndsIs
  <2>2. pc[s] # "saved"
    <3>1. pc[a] = "running" /\ pc' = [pc EXCEPT ![a] = pc'[a]]
      BY <2>1 DEF Ends, Holder
    <3>. QED  BY <1>0, <3>1 DEF TypeOK
  <2>3. log'[<<s, "live">>] \subseteq log[<<s, "live">>]
    BY <1>0, <2>1 DEF Ends, TypeOK
  <2>. QED  BY <1>1, <2>1, <2>2, <2>3 DEF Ends, Leave, Restored
<1>4. ASSUME NEW t \in Saves, Reload(t)
      PROVE  /\ skills' # <<s, "live">> /\ kept' # <<s, "live">>
             /\ \A a \in Actors : uses'[a] # <<s, "live">>
             /\ log'[<<s, "live">>] = {} /\ bound'[<<s, "live">>] = NoOne
  <2>1. s # t /\ pc[s] # "saved"
    BY <1>0, <1>4 DEF Reload, WriteStep, TypeOK
  <2>. QED  BY <1>1, <1>4, <2>1 DEF Reload, WriteStep
<1>5. ASSUME NEW a \in Actors, NEW o \in Objects, UNCHANGED <<skills, kept, uses, pc>>,
             Logs(a, o), o # <<s, "live">>
      PROVE  /\ skills' # <<s, "live">> /\ kept' # <<s, "live">>
             /\ \A b \in Actors : uses'[b] # <<s, "live">>
             /\ log'[<<s, "live">>] = {} /\ bound'[<<s, "live">>] = NoOne
  <2>1. pc[s] # "saved" /\ log'[<<s, "live">>] = log[<<s, "live">>] /\ bound' = bound
    BY <1>0, <1>5 DEF Logs, TypeOK
  <2>. QED  BY <1>1, <1>5, <2>1
<1>7. ASSUME NEW a \in Actors, Call(a)
      PROVE  UNCHANGED <<skills, kept, uses, pc>> /\ Logs(a, Own(a)) /\ Own(a) # <<s, "live">>
             /\ Own(a) \in Objects
  <2>1. UNCHANGED <<skills, kept, uses, pc>> /\ pc[s] # "saved" /\ Logs(a, Own(a))
    BY <1>7 DEF Call, Logs
  <2>2. Own(a) # <<s, "live">>
    BY <1>1, <2>1 DEF Own
  <2>. QED  BY <2>1, <2>2, OwnType
<1>8. ASSUME NEW a \in Actors, NEW o \in Objects, CallRelic(a, o) \/ LateCall(a, o)
      PROVE  UNCHANGED <<skills, kept, uses, pc>> /\ Logs(a, o) /\ o # <<s, "live">>
  <2>1. UNCHANGED <<skills, kept, uses, pc>> /\ pc[s] # "saved" /\ Logs(a, o)
    BY <1>8 DEF CallRelic, LateCall, Logs
  <2>2. uses[a] # <<s, "live">> /\ bound[<<s, "live">>] = NoOne
    BY <1>1, <2>1
  <2>3. o \in Remembered(a) \cup {uses[a]}
    BY <1>8 DEF CallRelic, LateCall
  <2>. QED  BY <2>1, <2>2, <2>3 DEF Remembered
<1>6. ASSUME UNCHANGED <<skills, kept, uses, log, bound>>, pc[s] # "saved"
      PROVE  /\ skills' # <<s, "live">> /\ kept' # <<s, "live">>
             /\ \A a \in Actors : uses'[a] # <<s, "live">>
             /\ log'[<<s, "live">>] = {} /\ bound'[<<s, "live">>] = NoOne
  BY <1>1, <1>6
<1>. QED  BY <1>2, <1>3, <1>4, <1>5, <1>6, <1>7, <1>8, Aside DEF Next, Actors

LEMMA CurrentNext ==
  TypeOK /\ SwapInv /\ QueueInv /\ FreshInv /\ CurrentInv /\ [Next]_vars => CurrentInv'
<1>. SUFFICES ASSUME TypeOK, SwapInv, QueueInv, FreshInv, CurrentInv, [Next]_vars
              PROVE  CurrentInv'
  OBVIOUS
<1>. USE DEF CurrentInv
<1>1. CASE Begin
  <2>1. PICK a \in Actors : a = Head(queue)
    BY <1>1 DEF Begin, TypeOK
  <2>2. lock' = a /\ uses' = [uses EXCEPT ![a] = skills']
    BY <1>1, <2>1 DEF Begin, Enter
  <2>. QED  BY <2>1, <2>2 DEF TypeOK
<1>2. ASSUME NEW a \in Actors, Succeed(a) \/ Fail(a) \/ ChildDies(a) \/ Cancel(a)
      PROVE  CurrentInv'
  BY <1>2 DEF Succeed, Fail, ChildDies, Cancel, Leave
<1>3. ASSUME NEW a \in Actors, Call(a) \/ \E o \in Objects : CallRelic(a, o) \/ LateCall(a, o)
      PROVE  CurrentInv'
  BY <1>3 DEF Call, CallRelic, LateCall, Logs
<1>4. ASSUME NEW s \in Saves, Reload(s)
      PROVE  CurrentInv'
  BY <1>4 DEF Reload, WriteStep, FreshInv
<1>5. ASSUME UNCHANGED <<inProcess, lock, skills, uses, bound>>
      PROVE  CurrentInv'
  BY <1>5
<1>. QED  BY <1>1, <1>2, <1>3, <1>4, <1>5, Aside DEF Next, Actors

LEMMA OwnLogNext ==
  TypeOK /\ SwapInv /\ OwnLogInv /\ [Next]_vars => OwnLogInv'
<1>. SUFFICES ASSUME TypeOK, SwapInv, OwnLogInv, [Next]_vars PROVE OwnLogInv'
  OBVIOUS
<1>. USE ObjectsAre, SkillsAssumption DEF Actors
<1>1. ASSUME UNCHANGED <<inProcess, uses, left>>, \A o \in Objects : log'[o] \subseteq log[o]
      PROVE  OwnLogInv'
  BY <1>1 DEF OwnLogInv
<1>2. CASE Begin
  <2>1. PICK a \in Actors : a = Head(queue)
    BY <1>2 DEF Begin, TypeOK
  <2>2. skills'[2] # "child"
    BY <1>2, <2>1 DEF Begin, Enter, SwappedIn, SwapInv
  <2>3. uses' = [uses EXCEPT ![a] = skills'] /\ UNCHANGED <<inProcess, left, log>>
    BY <1>2, <2>1 DEF Begin, Enter
  <2>. QED  BY <2>2, <2>3 DEF OwnLogInv, TypeOK
<1>3. ASSUME NEW a \in Actors, Succeed(a) \/ Fail(a) \/ ChildDies(a) \/ Cancel(a)
      PROVE  OwnLogInv'
  <2>1. UNCHANGED <<inProcess, uses>> /\ (left' # left => inProcess)
    BY <1>3, EndsIs DEF Ends, Leave
  <2>2. \A o \in Objects : log'[o] \subseteq log[o]
    BY <1>3, EndsIs, EndsAlone
  <2>3. ~inProcess => left' = {}
    BY <2>1 DEF OwnLogInv
  <2>. QED  BY <2>1, <2>2, <2>3 DEF OwnLogInv
<1>4. ASSUME NEW a \in Actors, NEW o \in Objects, Logs(a, o), inProcess, o[2] # "child",
             o[2] = "staged" => o[1] = a, ~inProcess => left' = {}
      PROVE  OwnLogInv'
  <2>1. UNCHANGED <<inProcess, uses>> /\ log' = [log EXCEPT ![o] = @ \cup {a}]
    BY <1>4 DEF Logs
  <2>2. \A b \in Actors : log'[<<b, "child">>] = log[<<b, "child">>]
    BY <1>4, <2>1 DEF TypeOK
  <2>3. ASSUME NEW s \in Tried
        PROVE  log'[<<s, "staged">>] \subseteq {s}
    <3>1. CASE o = <<s, "staged">>
      BY <1>4, <2>1, <3>1 DEF OwnLogInv, TypeOK
    <3>2. CASE o # <<s, "staged">>
      BY <2>1, <3>2 DEF OwnLogInv, TypeOK
    <3>. QED  BY <3>1, <3>2
  <2>. QED  BY <1>4, <2>1, <2>2, <2>3 DEF OwnLogInv
<1>5. ASSUME NEW a \in Actors
      PROVE  uses[a] \in Objects /\ uses[a][2] # "child" /\ (uses[a][2] = "staged" => uses[a][1] = a)
  BY DEF TypeOK, OwnLogInv, SwapInv
<1>7. ASSUME NEW a \in Actors, Call(a), ~inProcess
      PROVE  OwnLogInv'
  <2>1. /\ UNCHANGED <<inProcess, uses, left>> /\ Own(a) = <<a, "child">>
        /\ log' = [log EXCEPT ![Own(a)] = @ \cup {a}]
    BY <1>7 DEF Call, Logs, Own
  <2>2. \A o \in Objects : o[2] # "child" => log'[o] = log[o]
    BY <2>1 DEF TypeOK
  <2>3. ASSUME NEW b \in Actors
        PROVE  log'[<<b, "child">>] \subseteq {b}
    <3>1. log[<<b, "child">>] \subseteq {b} /\ <<b, "child">> \in Objects
      BY DEF OwnLogInv
    <3>2. log'[<<b, "child">>] = IF b = a THEN log[<<b, "child">>] \cup {a}
                                 ELSE log[<<b, "child">>]
      <4>1. b # a => <<b, "child">> # <<a, "child">>
        OBVIOUS
      <4>. QED  BY <2>1, <3>1, <4>1 DEF TypeOK
    <3>. QED  BY <3>1, <3>2
  <2>. QED  BY <2>1, <2>2, <2>3 DEF OwnLogInv
<1>8. ASSUME NEW a \in Actors, Call(a), inProcess
      PROVE  OwnLogInv'
  <2>1. Logs(a, uses[a])
    BY <1>8 DEF Call, Own
  <2>. QED  BY <1>4, <1>5, <1>8, <2>1
<1>9. ASSUME NEW a \in Actors, NEW o \in Objects, CallRelic(a, o) \/ LateCall(a, o)
      PROVE  OwnLogInv'
  <2>1. Logs(a, o) /\ o \in Remembered(a) \cup {uses[a]}
    BY <1>9 DEF CallRelic, LateCall
  <2>2. inProcess
    BY <1>9 DEF CallRelic, LateCall, Remembered, OwnLogInv
  <2>3. o[2] # "child" /\ (o[2] = "staged" => o[1] = a)
    BY <1>5, <2>1 DEF Remembered
  <2>. QED  BY <1>4, <2>1, <2>2, <2>3
<1>6. ASSUME NEW s \in Saves, Reload(s)
      PROVE  OwnLogInv'
  BY <1>1, <1>6 DEF Reload, WriteStep
<1>. QED  BY <1>1, <1>2, <1>3, <1>6, <1>7, <1>8, <1>9, Aside DEF Next

(* A run does not call into the set that was swapped out for it.           *)
LEMMA OwnIsNotKept ==
  ASSUME TypeOK, SwapInv, TrialInv, NEW a \in Actors, lock = a
  PROVE  /\ Own(a) \in Objects
         /\ skills[2] = "staged" => Own(a) # kept
<1>1. Own(a) \in Objects
  BY OwnType
<1>2. ASSUME skills[2] = "staged"
      PROVE  Own(a) # kept
  <2>1. a = skills[1] /\ a \in Tried
    BY <1>2, ObjectsAre DEF SwapInv, TypeOK
  <2>2. uses[a] = <<a, "staged">> /\ kept[2] = "live"
    BY <2>1 DEF TrialInv, SwapInv
  <2>. QED  BY <2>2 DEF Own
<1>. QED  BY <1>1, <1>2

LEMMA LogNext ==
  TypeOK /\ HomeInv /\ SwapInv /\ QueueInv /\ TrialInv /\ FreshInv /\ CurrentInv
    /\ OwnLogInv /\ LogInv /\ [Next]_vars
  => LogInv'
<1>. SUFFICES ASSUME TypeOK, HomeInv, SwapInv, QueueInv, TrialInv, FreshInv, CurrentInv,
                     OwnLogInv, LogInv, [Next]_vars
              PROVE  LogInv'
  OBVIOUS
<1>. USE SkillsAssumption
<1>1. CASE Begin
  <2>1. PICK a \in Actors : a = Head(queue)
    BY <1>1 DEF Begin, TypeOK
  <2>2. /\ lock = NoOne /\ lock' = a /\ kept' = skills
        /\ skills' = (IF a \in Tried THEN <<a, "staged">> ELSE skills)
        /\ UNCHANGED <<log, made, astray>>
    BY <1>1, <2>1 DEF Begin, Enter, SwappedIn
  <2>3. log[skills] \subseteq astray
    <3>1. made \subseteq Actors
      BY DEF TypeOK
    <3>. QED  BY <2>2, <3>1 DEF LogInv
  <2>4. a \in Tried => log[<<a, "staged">>] \subseteq astray \cup (made \cap {a})
    <3>1. a \in Tried => <<a, "staged">> \in Objects /\ <<a, "staged">>[2] = "staged"
      BY ObjectsAre
    <3>. QED  BY <3>1 DEF OwnLogInv, LogInv
  <2>. QED  BY <2>2, <2>3, <2>4 DEF LogInv
<1>2. ASSUME NEW a \in Actors, Succeed(a) \/ Fail(a) \/ ChildDies(a) \/ Cancel(a)
      PROVE  LogInv'
  <2>1. /\ Ends(a) /\ lock = a /\ kept' = kept /\ made' = made
        /\ skills' = IF skills = <<a, "staged">> THEN kept ELSE skills
    BY <1>2, EndsIs DEF Ends, Leave, Holder, Restored
  <2>2. skills[2] = "staged" => skills = <<a, "staged">>
    BY <2>1, ObjectsAre DEF TypeOK, SwapInv
  <2>3. skills'[2] # "staged"
    <3>1. CASE skills = <<a, "staged">>
      BY <2>1, <3>1 DEF SwapInv
    <3>2. CASE skills # <<a, "staged">>
      BY <2>1, <2>2, <3>2
    <3>. QED  BY <3>1, <3>2
  <2>4. CASE log' = [log EXCEPT ![skills] = {}] /\ astray \subseteq astray'
    <3>1. \A o \in Objects : log'[o] \subseteq log[o]
      BY <2>4 DEF TypeOK
    <3>2. skills' = skills => log'[skills'] = {}
      BY <2>4 DEF TypeOK
    <3>3. skills' # skills => log'[skills'] \subseteq astray
      BY <2>1, <3>1 DEF LogInv, TypeOK
    <3>. QED  BY <2>1, <2>3, <2>4, <3>1, <3>2, <3>3 DEF LogInv
  <2>5. CASE log' = log /\ astray \subseteq astray' /\ (inProcess /\ a \in made => a \in astray')
    <3>1. skills' = skills => log[skills] \subseteq astray'
      <4>1. CASE inProcess
        BY <2>1, <2>5, <4>1 DEF LogInv, TypeOK
      <4>2. CASE ~inProcess /\ skills' = skills
        <5>1. skills[2] # "child"
          BY DEF SwapInv
        <5>. QED  BY <4>2, <5>1 DEF OwnLogInv, TypeOK
      <4>. QED  BY <4>1, <4>2
    <3>2. skills' # skills => log[skills'] \subseteq astray
      BY <2>1 DEF LogInv
    <3>. QED  BY <2>1, <2>3, <2>5, <3>1, <3>2 DEF LogInv
  <2>. QED  BY <2>1, <2>4, <2>5 DEF Ends
<1>3. ASSUME NEW a \in Actors, Call(a)
      PROVE  LogInv'
  <2>1. /\ lock = a /\ UNCHANGED <<lock, skills, kept, astray>> /\ made' = made \cup {a}
        /\ log' = [log EXCEPT ![Own(a)] = @ \cup {a}]
    BY <1>3 DEF Call, Logs, Holder
  <2>2. \A o \in Objects : log'[o] \subseteq log[o] \cup {a}
    BY <2>1 DEF TypeOK
  <2>3. skills[2] = "staged" => log'[kept] = log[kept]
    BY <2>1, OwnIsNotKept DEF TypeOK
  <2>. QED  BY <2>1, <2>2, <2>3 DEF LogInv, TypeOK
<1>4. ASSUME NEW a \in Actors, NEW o \in Objects, LateCall(a, o)
      PROVE  LogInv'
  <2>1. /\ a \in astray /\ UNCHANGED <<lock, skills, kept, astray, made>>
        /\ log' = [log EXCEPT ![o] = @ \cup {a}]
    BY <1>4 DEF LateCall, Logs, HomeInv
  <2>2. \A p \in Objects : log'[p] \subseteq log[p] \cup {a}
    BY <2>1 DEF TypeOK
  <2>. QED  BY <2>1, <2>2 DEF LogInv, TypeOK
<1>7. ASSUME NEW a \in Actors, NEW o \in Objects, CallRelic(a, o)
      PROVE  LogInv'
  <2>1. /\ lock = a /\ a \in Runs /\ UNCHANGED <<lock, skills, kept, astray, made>>
        /\ log' = [log EXCEPT ![o] = @ \cup {a}]
        /\ inProcess /\ o[2] = "live" /\ bound[o] # NoOne /\ o # uses[a]
    BY <1>7 DEF CallRelic, Logs, Remembered, Holder
  <2>2. o # skills
    BY <2>1 DEF CurrentInv
  <2>3. skills[2] # "staged"
    BY <2>1, ObjectsAre DEF SwapInv, TypeOK
  <2>4. \A p \in Objects : p # o => log'[p] = log[p]
    BY <2>1 DEF TypeOK
  <2>. QED  BY <2>1, <2>2, <2>3, <2>4 DEF LogInv, TypeOK
<1>5. ASSUME NEW s \in Saves, Reload(s)
      PROVE  LogInv'
  <2>1. /\ pc[s] = "reload" /\ skills' = <<s, "live">>
        /\ UNCHANGED <<lock, kept, astray, made, log>>
    BY <1>5 DEF Reload, WriteStep
  <2>. QED  BY <2>1 DEF LogInv, FreshInv
<1>6. ASSUME UNCHANGED <<skills, kept, lock, log, made, astray>>
      PROVE  LogInv'
  BY <1>6 DEF LogInv
<1>. QED  BY <1>1, <1>2, <1>3, <1>4, <1>5, <1>6, <1>7, Aside DEF Next, Actors

LEMMA MadeNext ==
  TypeOK /\ SwapInv /\ QueueInv /\ MadeInv /\ [Next]_vars => MadeInv'
<1>. SUFFICES ASSUME TypeOK, SwapInv, QueueInv, MadeInv, [Next]_vars PROVE MadeInv'
  OBVIOUS
<1>. USE SkillsAssumption
<1>0. \A a \in Actors : <<a, "child">> \in Objects /\ skills # <<a, "child">>
  BY ObjectsAre DEF SwapInv
<1>1. CASE Begin
  <2>1. PICK a \in Actors : a = Head(queue) /\ pc[a] = "queued"
    BY <1>1 DEF Begin, TypeOK, QueueInv
  <2>2. /\ lock' = a /\ uses' = [uses EXCEPT ![a] = skills']
        /\ UNCHANGED <<inProcess, log, made, missing>>
    BY <1>1, <2>1 DEF Begin, Enter
  <2>3. a \notin made
    BY <2>1 DEF QueueInv
  <2>. QED  BY <2>1, <2>2, <2>3 DEF MadeInv, TypeOK
<1>2. ASSUME NEW a \in Actors, Succeed(a) \/ Fail(a) \/ ChildDies(a) \/ Cancel(a)
      PROVE  MadeInv'
  <2>1. lock' = NoOne /\ UNCHANGED <<inProcess, made>>
    BY <1>2, EndsIs DEF Ends, Leave
  <2>2. \A b \in Actors : log'[<<b, "child">>] = log[<<b, "child">>]
    <3>1. log' = [log EXCEPT ![skills] = {}] \/ log' = log
      BY <1>2, EndsIs DEF Ends
    <3>. QED  BY <1>0, <3>1 DEF TypeOK
  <2>. QED  BY <2>1, <2>2 DEF MadeInv, TypeOK
<1>3. ASSUME NEW a \in Actors, Call(a)
      PROVE  MadeInv'
  <2>1. /\ lock = a /\ UNCHANGED <<inProcess, lock, skills, uses, missing>>
        /\ made' = made \cup {a} /\ log' = [log EXCEPT ![Own(a)] = @ \cup {a}]
    BY <1>3 DEF Call, Logs, Holder
  <2>2. \A o \in Objects : log[o] \subseteq log'[o]
    BY <2>1 DEF TypeOK
  <2>3. a \in log'[Own(a)]
    BY <2>1, OwnType DEF TypeOK
  <2>. QED  BY <1>0, <2>1, <2>2, <2>3 DEF MadeInv, Own, TypeOK
<1>4. ASSUME NEW a \in Actors, NEW p \in Objects, CallRelic(a, p) \/ LateCall(a, p)
      PROVE  MadeInv'
  <2>1. /\ UNCHANGED <<inProcess, lock, skills, uses, missing, made>>
        /\ log' = [log EXCEPT ![p] = @ \cup {a}]
    BY <1>4 DEF CallRelic, LateCall, Logs
  <2>2. \A o \in Objects : log[o] \subseteq log'[o]
    BY <2>1 DEF TypeOK
  <2>. QED  BY <1>0, <2>1, <2>2 DEF MadeInv, TypeOK
<1>5. ASSUME NEW s \in Saves, Reload(s)
      PROVE  MadeInv'
  BY <1>5 DEF Reload, WriteStep, MadeInv
<1>6. ASSUME UNCHANGED <<inProcess, skills, uses, lock, log, made, missing>>
      PROVE  MadeInv'
  BY <1>6 DEF MadeInv
<1>. QED  BY <1>1, <1>2, <1>3, <1>4, <1>5, <1>6, Aside DEF Next, Actors

LEMMA DrainNext ==
  TypeOK /\ SwapInv /\ QueueInv /\ OwnLogInv /\ LogInv /\ MadeInv /\ DrainsItsCalls
    /\ [Next]_vars
  => DrainsItsCalls'
<1>. SUFFICES ASSUME TypeOK, SwapInv, QueueInv, OwnLogInv, LogInv, MadeInv,
                     DrainsItsCalls, [Next]_vars, NEW b \in Actors
              PROVE  /\ drained'[b] \subseteq {b} \cup astray'
                     /\ b \in made' \ missing' /\ pc'[b] \in {"over", "saved"} \cup Writes
                          => b \in drained'[b]
  BY DEF DrainsItsCalls
<1>. USE SkillsAssumption DEF Writes
<1>0. /\ drained[b] \subseteq {b} \cup astray
      /\ b \in made \ missing /\ pc[b] \in {"over", "saved"} \cup Writes => b \in drained[b]
  BY DEF DrainsItsCalls
<1>1. ASSUME drained'[b] = drained[b], astray \subseteq astray', missing \subseteq missing',
             b \in made' /\ pc'[b] \in {"over", "saved"} \cup Writes
               => b \in made /\ pc[b] \in {"over", "saved"} \cup Writes
      PROVE  /\ drained'[b] \subseteq {b} \cup astray'
             /\ b \in made' \ missing' /\ pc'[b] \in {"over", "saved"} \cup Writes
                  => b \in drained'[b]
  BY <1>0, <1>1
<1>2. CASE Begin
  <2>1. PICK a \in Actors : a = Head(queue)
    BY <1>2 DEF Begin, TypeOK
  <2>2. pc' = [pc EXCEPT ![a] = "running"] /\ UNCHANGED <<drained, astray, missing, made>>
    BY <1>2, <2>1 DEF Begin, Enter
  <2>. QED  BY <1>1, <2>2 DEF TypeOK
<1>3. ASSUME NEW a \in Actors, Succeed(a) \/ Fail(a) \/ ChildDies(a) \/ Cancel(a)
      PROVE  /\ drained'[b] \subseteq {b} \cup astray'
             /\ b \in made' \ missing' /\ pc'[b] \in {"over", "saved"} \cup Writes
                  => b \in drained'[b]
  <2>1. /\ Ends(a) /\ lock = a /\ UNCHANGED <<made, inProcess>>
        /\ astray \subseteq astray' /\ missing \subseteq missing'
        /\ pc' = [pc EXCEPT ![a] = pc'[a]]
    BY <1>3, EndsIs DEF Ends, Leave, Holder
  <2>2. CASE b # a
    <3>1. drained'[b] = drained[b] /\ pc'[b] = pc[b]
      BY <2>1, <2>2, EndsAlone
    <3>. QED  BY <1>1, <2>1, <3>1
  <2>3. ASSUME b = a, NEW sent \in BOOLEAN, Drains(a, sent), sent => ~inProcess,
               sent \/ inProcess \/ a \in missing'
        PROVE  /\ drained'[b] \subseteq {b} \cup astray'
               /\ b \in made' \ missing' => b \in drained'[b]
    <3>1. drained'[a] = log[skills] \cup IF sent THEN log[Own(a)] ELSE {}
      BY <2>3 DEF Drains, TypeOK
    <3>2. sent => log[Own(a)] \subseteq {a}
      BY <2>3 DEF Own, OwnLogInv
    <3>3. log[skills] \subseteq {a} \cup astray'
      BY <2>1 DEF LogInv
    <3>4. a \in made \ missing' => a \in drained'[a]
      <4>1. CASE sent
        BY <2>3, <3>1, <4>1 DEF MadeInv, Own
      <4>2. CASE ~sent /\ inProcess
        BY <2>1, <3>1, <4>2 DEF MadeInv
      <4>. QED  BY <2>3, <4>1, <4>2
    <3>. QED  BY <2>1, <2>3, <3>1, <3>2, <3>3, <3>4
  <2>4. ASSUME b = a, UNCHANGED drained, pc'[a] = "cancelled"
        PROVE  /\ drained'[b] \subseteq {b} \cup astray'
               /\ pc'[b] \notin {"over", "saved"} \cup Writes
    BY <1>0, <2>1, <2>4
  <2>5. CASE b = a /\ UNCHANGED drained /\ pc'[a] = "cancelled"
    BY <2>4, <2>5
  <2>6. CASE b = a /\ Reports(a)
    BY <2>3, <2>6 DEF Reports
  <2>7. (UNCHANGED drained /\ pc'[a] = "cancelled") \/ Reports(a)
    BY <2>1 DEF Ends
  <2>. QED  BY <2>2, <2>5, <2>6, <2>7
<1>4. ASSUME NEW a \in Actors, Call(a)
      PROVE  /\ drained'[b] \subseteq {b} \cup astray'
             /\ b \in made' \ missing' /\ pc'[b] \in {"over", "saved"} \cup Writes
                  => b \in drained'[b]
  <2>1. pc[a] = "running" /\ made' = made \cup {a}
        /\ UNCHANGED <<pc, drained, astray, missing>>
    BY <1>4 DEF Call, Logs, Holder
  <2>. QED  BY <1>1, <2>1
<1>5. ASSUME NEW a \in Actors, NEW p \in Objects, CallRelic(a, p) \/ LateCall(a, p)
      PROVE  UNCHANGED <<pc, drained, astray, missing, made>>
  BY <1>5 DEF CallRelic, LateCall, Logs
<1>6. ASSUME NEW s \in Saves, \/ Truncate(s) \/ Write(s) \/ Describe(s) \/ Reload(s)
      PROVE  /\ UNCHANGED <<drained, astray, made>> /\ missing \subseteq missing'
             /\ pc'[b] = pc[b] \/ pc[b] \in Writes
  BY <1>6 DEF Truncate, Write, Describe, Reload, WriteStep, TypeOK, Actors
<1>7. ASSUME NEW s \in Saves, Stage(s) \/ SaveUntried(s)
      PROVE  /\ UNCHANGED <<drained, astray, made, missing>>
             /\ pc'[b] = pc[b] \/ pc[b] = "new"
  BY <1>7 DEF Stage, SaveUntried, calls, TypeOK, Actors
<1>8. ASSUME NEW a \in Actors, Arrive(a) \/ GiveUp(a)
      PROVE  /\ UNCHANGED <<drained, astray, made, missing>>
             /\ pc'[b] = pc[b] \/ pc'[b] \in {"queued", "cancelled"}
  BY <1>8 DEF Arrive, GiveUp, calls, TypeOK
<1>9. ASSUME \/ UNCHANGED vars
             \/ \E a \in Actors, n \in Names : ChildLoads(a, n)
      PROVE  UNCHANGED <<pc, drained, astray, missing, made>>
  BY <1>9 DEF vars, ChildLoads, calls
<1>10. b \in made => pc[b] # "new"
  BY DEF QueueInv
<1>. QED  BY <1>1, <1>2, <1>3, <1>4, <1>5, <1>6, <1>7, <1>8, <1>9, <1>10 DEF Next, Actors

LEMMA LogsInit ==
  Init => /\ HomeInv /\ SwapInv /\ FreshInv /\ CurrentInv /\ OwnLogInv /\ LogInv
          /\ MadeInv /\ DrainsItsCalls
<1>. SUFFICES ASSUME Init
              PROVE  /\ HomeInv /\ SwapInv /\ FreshInv /\ CurrentInv /\ OwnLogInv /\ LogInv
                     /\ MadeInv /\ DrainsItsCalls
  OBVIOUS
<1>. USE ObjectsAre, SkillsAssumption DEF Init
<1>1. HomeInv /\ SwapInv
  BY DEF HomeInv, SwapInv
<1>2. FreshInv /\ CurrentInv
  BY DEF FreshInv, CurrentInv
<1>3. OwnLogInv
  BY DEF OwnLogInv
<1>4. LogInv /\ MadeInv /\ DrainsItsCalls
  BY DEF LogInv, MadeInv, DrainsItsCalls
<1>. QED  BY <1>1, <1>2, <1>3, <1>4

(* skills.py, drain_calls: the skill calls that a run reports are its own, *)
(* and all of those it made of the set it started with, whatever trials,   *)
(* saves, cancelled runs and calls of older sets come between: a run gone  *)
(* astray may add to those of a later one, and a run whose set a save      *)
(* replaced under it, or whose child died, may lack some.                  *)
THEOREM DrainsAreOwn == Spec => []DrainsItsCalls
<1>1. TypeOK /\ TypeOK' /\ HomeInv /\ SwapInv /\ QueueInv /\ TrialInv
        /\ (FreshInv /\ CurrentInv /\ OwnLogInv /\ LogInv /\ MadeInv /\ DrainsItsCalls) /\ [Next]_vars
      => (HomeInv /\ SwapInv)' /\ (FreshInv /\ CurrentInv /\ OwnLogInv /\ LogInv /\ MadeInv /\ DrainsItsCalls)'
  BY HomeNext, SwapNext, FreshNext, CurrentNext, OwnLogNext, LogNext, MadeNext, DrainNext
<1>. QED  BY <1>1, LogsInit, TypeCorrect, QueueCorrect, TrialCorrect, PTL DEF Spec
=============================================================================
