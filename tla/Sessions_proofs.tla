--------------------------- MODULE Sessions_proofs ---------------------------
(***************************************************************************)
(* Proofs about the sessions, for any number of them, any TTL and cap, any *)
(* namespaces and blocks, and about the side-effect gate of one session,   *)
(* for any tools, permissions, calls and bounds.                           *)
(*                                                                         *)
(* The cap holds because a session that joins evicts exactly the surplus   *)
(* from the others (StartKeeps); outputs are a session's own because the   *)
(* files of an id without a session are gone (OutputsInv), which a restart *)
(* breaks; what a run finds is what the last good block left (VarsNext).   *)
(* The gate's refusals are repeated only while the skills that were loaded *)
(* with them stay; a budget holds because its check precedes the spending  *)
(* in the same step (GateInv).                                             *)
(***************************************************************************)
EXTENDS Sessions, SideEffectGate, FiniteSetTheorems, SequenceTheorems,
        WellFoundedInduction, TLAPS

LEMMA SessionsAre ==
  ASSUME TypeOK
  PROVE  /\ \A s \in Sids : s \in Present => sessions[s] \in SessionType
         /\ \A s \in Present : sessions[s].last \in Nat
         /\ Present \subseteq Sids /\ Kept \subseteq Present /\ Expired \subseteq Present
         /\ now \in Nat
BY DEF TypeOK, Present, Kept, Expired, SessionType

LEMMA EmptyIsNamespace == Empty \in Namespaces
BY DEF Empty, Namespaces

LEMMA CarriedIsNamespace ==
  ASSUME NEW ns \in Namespaces
  PROVE  Carried(ns) \in Namespaces
BY DEF Carried, Namespaces

LEMMA EnteredType ==
  ASSUME TypeOK, NEW s \in Sids, s \in Kept => sessions[s].blocks < MaxBlocks
  PROVE  Entered(s) \in SessionType
<1>1. CASE s \in Kept
  <2>1. sessions[s] \in SessionType /\ now \in Nat
    BY <1>1, SessionsAre
  <2>2. sessions[s].blocks + 1 \in Blocks
    BY <1>1, <2>1, SessionsAssumption DEF SessionType, Blocks
  <2>. QED  BY <1>1, <2>1, <2>2 DEF Entered, SessionType
<1>2. CASE s \notin Kept
  BY <1>2, SessionsAre, SessionsAssumption, EmptyIsNamespace DEF Entered, SessionType, Blocks
<1>. QED  BY <1>1, <1>2

(* The step of a call that gets the lock, with the session it is for and   *)
(* the ones evicted for their lack of use.                                 *)
Begins(s, lru) ==
  /\ run = NoRun /\ s \in Sids /\ lru \in LruVictims(s)
  /\ IF s \in Kept THEN sessions[s].blocks < MaxBlocks ELSE born[s] < MaxBorn
  /\ run' = s
  /\ sessions' = EvictsFirst(s, Expired \cup lru)
  /\ files' = [x \in Sids |-> IF x \in Expired \cup lru THEN NoFiles ELSE files[x]]
  /\ born' = IF s \in Kept THEN born ELSE [born EXCEPT ![s] = @ + 1]
  /\ left' = [x \in Sids |->
       IF sessions'[x] = Gone \/ born'[x] # born[x] THEN Empty ELSE left[x]]
  /\ waiting' \in Seq(Sids)
  /\ UNCHANGED <<inProcess, now, restarts>>

LEMMA StartBegins ==
  ASSUME TypeOK, Start
  PROVE  \E s \in Sids : \E lru \in LruVictims(s) : Begins(s, lru)
<1>1. Head(waiting) \in Sids /\ Tail(waiting) \in Seq(Sids)
  BY DEF Start, TypeOK
<1>2. PICK lru \in LruVictims(Head(waiting)) : Begins(Head(waiting), lru)
  BY <1>1 DEF Start, Begins
<1>. QED  BY <1>1, <1>2

(* Who is there after it: the kept ones and the new one, less the victims. *)
LEMMA BeginsPresent ==
  ASSUME TypeOK, NEW s, NEW lru, Begins(s, lru)
  PROVE  /\ s \in Sids /\ lru \subseteq Kept \ {s}
         /\ \A x \in Sids : sessions'[x] = IF x = s THEN Entered(s)
                                           ELSE IF x \in Expired \cup lru THEN Gone
                                           ELSE sessions[x]
         /\ Entered(s) \in SessionType /\ Entered(s) # Gone
         /\ Present' = (Kept \cup {s}) \ lru
         /\ sessions' \in [Sids -> SessionType \cup {Gone}]
<1>1. s \in Sids /\ lru \subseteq Kept \ {s}
  BY DEF Begins, LruVictims
<1>2. Entered(s) \in SessionType /\ Entered(s) # Gone
  BY EnteredType, SessionsAssumption DEF Begins
<1>3. \A x \in Sids : sessions'[x] = IF x = s THEN Entered(s)
                                     ELSE IF x \in Expired \cup lru THEN Gone
                                     ELSE sessions[x]
  BY DEF Begins, EvictsFirst
<1>4. sessions' \in [Sids -> SessionType \cup {Gone}]
  BY <1>2 DEF Begins, EvictsFirst, TypeOK
<1>5. Present' = (Kept \cup {s}) \ lru
  BY <1>1, <1>2, <1>3 DEF Present, Kept
<1>. QED  BY <1>1, <1>2, <1>3, <1>4, <1>5

(* The cap: exactly the surplus goes.                                      *)
LEMMA StartKeeps ==
  ASSUME TypeOK, IsFiniteSet(Present), NEW s, NEW lru, Begins(s, lru)
  PROVE  /\ IsFiniteSet(Present') /\ Cardinality(Present') <= MaxSessions
         /\ lru # {} => /\ Cardinality(Present') = MaxSessions
                        /\ Cardinality(Kept \cup {s}) > MaxSessions
<1>. DEFINE K == Kept \cup {s}
<1>1. /\ IsFiniteSet(K) /\ IsFiniteSet(lru) /\ Cardinality(K) \in Nat
      /\ Cardinality(lru) \in Nat
  <2>1. IsFiniteSet(K)
    BY FS_Subset, FS_AddElement, SessionsAre
  <2>2. IsFiniteSet(lru)
    BY <2>1, BeginsPresent, FS_Subset
  <2>. QED  BY <2>1, <2>2, FS_CardinalityType
<1>2. IsFiniteSet(K \ lru) /\ Cardinality(K \ lru) = Cardinality(K) - Cardinality(lru)
  <2>1. K \cap lru = lru
    BY BeginsPresent
  <2>. QED  BY <1>1, <2>1, FS_Difference
<1>3. Cardinality(lru) = Surplus(s)
  BY DEF Begins, LruVictims
<1>4. lru # {} => Cardinality(lru) # 0
  BY <1>1, FS_EmptySet
<1>5. Present' = K \ lru
  BY BeginsPresent
<1>. HIDE DEF K
<1>6. Surplus(s) = IF Cardinality(K) > MaxSessions THEN Cardinality(K) - MaxSessions ELSE 0
  BY DEF Surplus, K
<1>7. Cardinality(K \ lru) <= MaxSessions
      /\ (lru # {} => Cardinality(K \ lru) = MaxSessions /\ Cardinality(K) > MaxSessions)
  BY <1>1, <1>2, <1>3, <1>4, <1>6, SessionsAssumption
<1>. QED  BY <1>2, <1>5, <1>7 DEF K
-----------------------------------------------------------------------------
TypeInv == TypeOK /\ IsFiniteSet(Present)

LEMMA InitTypes == Init => TypeInv
<1>. SUFFICES ASSUME Init PROVE TypeInv
  OBVIOUS
<1>1. Present = {}
  BY DEF Init, Present
<1>2. IsFiniteSet(Present) /\ Cardinality(Present) = 0
  BY <1>1, FS_EmptySet
<1>3. left \in [Sids -> Namespaces] /\ files \in [Sids -> [Blocks -> 0..MaxBorn]]
  BY EmptyIsNamespace, SessionsAssumption DEF Init, NoFiles
<1>. QED  BY <1>2, <1>3, SessionsAssumption DEF Init, TypeOK, TypeInv

LEMMA StartTypes == TypeInv /\ Start => TypeInv'
<1>. SUFFICES ASSUME TypeInv, Start PROVE TypeInv'
  OBVIOUS
<1>. USE DEF TypeInv
<1>1. PICK s, lru : Begins(s, lru)
  BY StartBegins
<1>2. IsFiniteSet(Present') /\ Cardinality(Present') <= MaxSessions
  BY <1>1, StartKeeps
<1>3. sessions' \in [Sids -> SessionType \cup {Gone}] /\ sessions'[s] # Gone
  BY <1>1, BeginsPresent
<1>4. files' \in [Sids -> [Blocks -> 0..MaxBorn]]
  <2>1. NoFiles \in [Blocks -> 0..MaxBorn]
    BY SessionsAssumption DEF NoFiles
  <2>. QED  BY <1>1, <2>1 DEF Begins, TypeOK
<1>5. born' \in [Sids -> 0..MaxBorn]
  BY <1>1, SessionsAssumption DEF Begins, TypeOK
<1>6. left' \in [Sids -> Namespaces]
  BY <1>1, EmptyIsNamespace DEF Begins, TypeOK
<1>. QED  BY <1>1, <1>2, <1>3, <1>4, <1>5, <1>6 DEF Begins, TypeOK

(* The steps of a run keep every session and its id.                       *)
LEMMA StoresTypes ==
  ASSUME TypeOK, run # NoRun, NEW ns \in Namespaces, Stores(ns)
  PROVE  sessions' \in [Sids -> SessionType \cup {Gone}] /\ Present' = Present
<1>1. run \in Sids /\ sessions[run] \in SessionType /\ now \in Nat
  BY DEF TypeOK
<1>2. CASE UNCHANGED sessions
  BY <1>2 DEF Present, TypeOK
<1>3. CASE sessions' = [sessions EXCEPT ![run].vars = Carried(ns), ![run].last = now]
  <2>. DEFINE new == [sessions[run] EXCEPT !.vars = Carried(ns), !.last = now]
  <2>1. new \in SessionType
    BY <1>1, CarriedIsNamespace DEF SessionType
  <2>2. sessions' = [sessions EXCEPT ![run] = new]
    BY <1>1, <1>3 DEF TypeOK
  <2>. HIDE DEF new
  <2>. QED  BY <1>1, <2>1, <2>2, SessionsAssumption DEF TypeOK, Present
<1>. QED  BY <1>2, <1>3 DEF Stores

LEMMA SpoilsTypes ==
  ASSUME TypeOK, run # NoRun, Spoils
  PROVE  sessions' \in [Sids -> SessionType \cup {Gone}] /\ Present' = Present
<1>1. run \in Sids /\ sessions[run] \in SessionType
  BY DEF TypeOK
<1>2. CASE UNCHANGED sessions
  BY <1>2 DEF Present, TypeOK
<1>3. ASSUME NEW n \in Names, NEW v \in Values,
             sessions' = [sessions EXCEPT ![run].vars[n] = v]
      PROVE  sessions' \in [Sids -> SessionType \cup {Gone}] /\ Present' = Present
  <2>. DEFINE new == [sessions[run] EXCEPT !.vars[n] = v]
  <2>1. new \in SessionType
    BY <1>1 DEF SessionType, Namespaces
  <2>2. sessions' = [sessions EXCEPT ![run] = new]
    BY <1>1, <1>3 DEF TypeOK
  <2>. HIDE DEF new
  <2>. QED  BY <1>1, <2>1, <2>2, SessionsAssumption DEF TypeOK, Present
<1>. QED  BY <1>2, <1>3 DEF Spoils, Bound

LEMMA SavesTypes ==
  ASSUME TypeOK, run # NoRun, SavesOutput \/ UNCHANGED files
  PROVE  files' \in [Sids -> [Blocks -> 0..MaxBorn]]
<1>1. run \in Sids /\ sessions[run].blocks \in Blocks /\ born[run] \in 0..MaxBorn
  BY DEF TypeOK, SessionType
<1>2. files \in [Sids -> [Blocks -> 0..MaxBorn]]
  BY DEF TypeOK
<1>3. CASE SavesOutput
  <2>. DEFINE new == [files[run] EXCEPT ![sessions[run].blocks] = born[run]]
  <2>1. new \in [Blocks -> 0..MaxBorn]
    BY <1>1, <1>2
  <2>2. files' = [files EXCEPT ![run] = new]
    BY <1>1, <1>2, <1>3 DEF SavesOutput
  <2>. HIDE DEF new
  <2>. QED  BY <1>1, <1>2, <2>1, <2>2
<1>. QED  BY <1>2, <1>3

LEMMA NextTypes == TypeInv /\ [Next]_vars => TypeInv'
<1>. SUFFICES ASSUME TypeInv, [Next]_vars PROVE TypeInv'
  OBVIOUS
<1>. USE DEF TypeInv
<1>1. CASE UNCHANGED vars
  BY <1>1 DEF vars, TypeOK, Present
<1>2. CASE Tick
  BY <1>2, SessionsAssumption DEF Tick, TypeOK, Present
<1>3. ASSUME NEW s \in Sids, Arrive(s)
      PROVE  TypeInv'
  BY <1>3 DEF Arrive, TypeOK, Present
<1>4. ASSUME NEW i \in 1..Len(waiting), GiveUp(i)
      PROVE  TypeInv'
  <2>1. waiting' \in Seq(Sids)
    BY <1>4 DEF GiveUp, TypeOK
  <2>. QED  BY <1>4, <2>1 DEF GiveUp, TypeOK, Present
<1>5. CASE Start
  BY <1>5, StartTypes
<1>6. ASSUME NEW ns \in Namespaces, Succeed(ns)
      PROVE  TypeInv'
  BY <1>6, StoresTypes, SavesTypes DEF Succeed, TypeOK
<1>7. CASE Fail
  BY <1>7, SpoilsTypes, SavesTypes DEF Fail, TypeOK
<1>8. CASE Cancelled
  BY <1>8, SpoilsTypes DEF Cancelled, TypeOK
<1>9. CASE Restart
  <2>1. Present' = {}
    BY <1>9 DEF Restart, Present
  <2>2. IsFiniteSet(Present') /\ Cardinality(Present') = 0
    BY <2>1, FS_EmptySet
  <2>. QED  BY <1>9, <2>2, EmptyIsNamespace, SessionsAssumption DEF Restart, TypeOK
<1>. QED  BY <1>1, <1>2, <1>3, <1>4, <1>5, <1>6, <1>7, <1>8, <1>9 DEF Next

LEMMA TypeInvCorrect == Spec => []TypeInv
BY InitTypes, NextTypes, PTL DEF Spec

(* The types; a run that ends has a session to store its variables in, and *)
(* there are at most MAX_SESSIONS.                                         *)
THEOREM TypeCorrect == Spec => []TypeOK
<1>1. TypeInv => TypeOK
  BY DEF TypeInv
<1>. QED  BY <1>1, TypeInvCorrect, PTL
-----------------------------------------------------------------------------
(* The files of an id with a session are that session's, and an id without *)
(* one has none.                                                           *)
OutputsInv ==
  restarts = 0 =>
    \A s \in Sids, b \in Blocks :
      files[s][b] # 0 => s \in Present /\ files[s][b] = born[s]

LEMMA OutputsNext == TypeInv /\ OutputsInv /\ [Next]_vars => OutputsInv'
<1>. SUFFICES ASSUME TypeInv, OutputsInv, [Next]_vars, restarts' = 0,
                     NEW x \in Sids, NEW b \in Blocks, files'[x][b] # 0
              PROVE  x \in Present' /\ files'[x][b] = born'[x]
  BY DEF OutputsInv
<1>. USE DEF TypeInv
<1>0. ASSUME restarts = 0, files[x][b] # 0
      PROVE  x \in Present /\ files[x][b] = born[x]
  BY <1>0 DEF OutputsInv
<1>1. CASE UNCHANGED <<sessions, files, born, restarts>>
  BY <1>0, <1>1 DEF Present
<1>2. CASE Start
  <2>1. PICK s, lru : Begins(s, lru)
    BY <1>2, StartBegins
  <2>2. x \notin Expired \cup lru /\ files'[x][b] = files[x][b] /\ restarts = 0
    BY <2>1 DEF Begins, NoFiles
  <2>3. x \in Present /\ files[x][b] = born[x]
    BY <1>0, <2>2
  <2>4. x \in Kept \ lru
    BY <2>2, <2>3 DEF Kept
  <2>5. born'[x] = born[x]
    BY <2>1, <2>4 DEF Begins, TypeOK
  <2>. QED  BY <2>1, <2>2, <2>3, <2>4, <2>5, BeginsPresent
<1>3. ASSUME run # NoRun, Present' = Present, UNCHANGED <<born, restarts>>,
             SavesOutput \/ UNCHANGED files
      PROVE  x \in Present' /\ files'[x][b] = born'[x]
  <2>1. run \in Present
    BY <1>3 DEF TypeOK, Present
  <2>2. files'[x][b] = files[x][b] \/ (x = run /\ files'[x][b] = born[x])
    BY <1>3 DEF SavesOutput, TypeOK
  <2>. QED  BY <1>0, <1>3, <2>1, <2>2
<1>4. ASSUME NEW ns \in Namespaces, Succeed(ns)
      PROVE  x \in Present' /\ files'[x][b] = born'[x]
  BY <1>3, <1>4, StoresTypes DEF Succeed
<1>5. CASE Fail
  BY <1>3, <1>5, SpoilsTypes DEF Fail
<1>6. CASE Cancelled
  BY <1>3, <1>6, SpoilsTypes DEF Cancelled
<1>7. CASE Restart
  BY <1>7 DEF Restart, TypeOK
<1>8. ASSUME \/ UNCHANGED vars \/ Tick
             \/ \E s \in Sids : Arrive(s)
             \/ \E i \in 1..Len(waiting) : GiveUp(i)
      PROVE  UNCHANGED <<sessions, files, born, restarts>>
  BY <1>8 DEF vars, Tick, Arrive, GiveUp
<1>. QED  BY <1>1, <1>2, <1>4, <1>5, <1>6, <1>7, <1>8 DEF Next

(* _restore: in a process that was not restarted, the outputs a session    *)
(* can restore are its own, whatever other sessions had its id before.     *)
THEOREM OutputsAreOwn == Spec => []OwnOutputs
<1>1. Init => OutputsInv
  BY DEF Init, OutputsInv, NoFiles
<1>2. OutputsInv => OwnOutputs
  BY DEF OutputsInv, OwnOutputs, Present
<1>. QED  BY <1>1, <1>2, OutputsNext, TypeInvCorrect, PTL DEF Spec
-----------------------------------------------------------------------------
(* What the session s has is what its last good block left.                *)
Persists(s) ==
  inProcess \/ Carried(left[s]) # Empty =>
    \/ sessions[s].vars = Carried(left[s])
    \/ inProcess /\ Bound(sessions[s].vars) = Bound(left[s])

LEMMA CarriedInProcess ==
  ASSUME NEW ns \in Namespaces, inProcess
  PROVE  Carried(ns) = ns
BY DEF Carried, Namespaces

LEMMA CarriedEmpty == Carried(Empty) = Empty
BY DEF Carried, Empty

LEMMA VarsNext == TypeInv /\ VarsPersistIfAny /\ [Next]_vars => VarsPersistIfAny'
<1>. SUFFICES ASSUME TypeInv, VarsPersistIfAny, [Next]_vars, NEW x \in Present'
              PROVE  Persists(x)'
  BY DEF VarsPersistIfAny, Persists
<1>. USE DEF TypeInv
<1>0. x \in Sids /\ inProcess' = inProcess
  BY DEF Present, Next, vars, Tick, Arrive, GiveUp, Start, Succeed, Fail, Cancelled, Restart
<1>1. ASSUME x \in Present
      PROVE  Persists(x)
  BY <1>1 DEF VarsPersistIfAny, Persists
<1>2. ASSUME x \in Present, sessions'[x].vars = sessions[x].vars, left'[x] = left[x]
      PROVE  Persists(x)'
  BY <1>0, <1>1, <1>2 DEF Persists, Carried, Bound
<1>3. CASE Start
  <2>1. PICK s, lru : Begins(s, lru)
    BY <1>3, StartBegins
  <2>2. x \in (Kept \cup {s}) \ lru /\ sessions'[x] # Gone
    BY <2>1, BeginsPresent DEF Present
  <2>3. CASE x \in Kept
    <3>1. x \in Present /\ sessions'[x].vars = sessions[x].vars
      <4>1. x \in Present /\ x \notin Expired \cup lru
        BY <2>2, <2>3 DEF Kept
      <4>2. x # s => sessions'[x] = sessions[x]
        BY <1>0, <2>1, <4>1, BeginsPresent
      <4>3. x = s => sessions'[x] = [sessions[x] EXCEPT !.last = now, !.blocks = @ + 1]
        <5>1. Entered(s) = [sessions[s] EXCEPT !.last = now, !.blocks = @ + 1] \/ x # s
          BY <2>3 DEF Entered
        <5>2. sessions'[s] = Entered(s)
          BY <2>1, BeginsPresent
        <5>. QED  BY <5>1, <5>2
      <4>4. sessions[x] \in SessionType
        BY <4>1, SessionsAre, <1>0
      <4>. QED  BY <4>1, <4>2, <4>3, <4>4 DEF SessionType
    <3>2. left'[x] = left[x]
      BY <1>0, <2>1, <2>2, <2>3 DEF Begins, TypeOK
    <3>. QED  BY <1>2, <3>1, <3>2
  <2>4. CASE x \notin Kept
    <3>1. x = s
      BY <2>2, <2>4
    <3>2. sessions'[x] = [vars |-> Empty, last |-> now, blocks |-> 1]
      BY <2>1, <2>4, <3>1, BeginsPresent DEF Entered
    <3>3. left'[x] = Empty
      <4>1. born'[x] # born[x]
        BY <2>1, <2>4, <3>1 DEF Begins, TypeOK
      <4>. QED  BY <1>0, <2>1, <4>1 DEF Begins
    <3>4. Carried(Empty)' = Empty
      BY <1>0, CarriedEmpty DEF Carried
    <3>. QED  BY <3>2, <3>3, <3>4 DEF Persists
  <2>. QED  BY <2>3, <2>4
<1>4. ASSUME NEW ns \in Namespaces, Succeed(ns)
      PROVE  Persists(x)'
  <2>1. x \in Present /\ run # NoRun /\ run \in Sids
    BY <1>4, StoresTypes DEF Succeed, TypeOK
  <2>2. CASE x # run
    BY <1>0, <1>2, <1>4, <2>1, <2>2 DEF Succeed, Stores, TypeOK
  <2>3. CASE x = run
    <3>1. left'[x] = ns /\ Carried(ns)' = Carried(ns)
      BY <1>0, <1>4, <2>1, <2>3 DEF Succeed, TypeOK, Carried
    <3>2. CASE ~inProcess /\ Carried(ns) = Empty
      BY <1>0, <3>1, <3>2 DEF Persists
    <3>3. CASE ~(~inProcess /\ Carried(ns) = Empty)
      <4>1. sessions[x] \in SessionType
        BY <2>1, SessionsAre
      <4>2. sessions'[x].vars = Carried(ns)
        BY <1>4, <2>1, <2>3, <3>3, <4>1 DEF Succeed, Stores, TypeOK, SessionType
      <4>. QED  BY <3>1, <4>2 DEF Persists
    <3>. QED  BY <3>2, <3>3
  <2>. QED  BY <2>2, <2>3
<1>5. ASSUME run # NoRun, Spoils, left' = left
      PROVE  Persists(x)'
  <2>1. x \in Present /\ run \in Sids
    BY <1>5, SpoilsTypes DEF TypeOK
  <2>2. CASE UNCHANGED sessions
    BY <1>2, <1>5, <2>1, <2>2
  <2>3. ASSUME inProcess, NEW n \in Bound(sessions[run].vars), NEW v \in Values,
               sessions' = [sessions EXCEPT ![run].vars[n] = v]
        PROVE  Persists(x)'
    <3>1. CASE x # run
      BY <1>0, <1>2, <1>5, <2>1, <2>3, <3>1 DEF TypeOK
    <3>2. CASE x = run
      <4>1. sessions[x] \in SessionType
        BY <2>1, SessionsAre
      <4>2. sessions'[x].vars = [sessions[x].vars EXCEPT ![n] = v]
        BY <1>0, <2>1, <2>3, <3>2, <4>1 DEF TypeOK, SessionType
      <4>3. Bound(sessions'[x].vars) = Bound(sessions[x].vars)
        BY <2>3, <3>2, <4>1, <4>2, SessionsAssumption DEF Bound, SessionType, Namespaces
      <4>4. Bound(sessions[x].vars) = Bound(left[x])
        BY <1>0, <1>1, <2>1, <2>3, CarriedInProcess DEF Persists, TypeOK
      <4>5. Bound(sessions'[x].vars) = Bound(left'[x])
        BY <1>5, <4>3, <4>4
      <4>. QED  BY <1>0, <2>3, <4>5 DEF Persists, Bound
    <3>. QED  BY <3>1, <3>2
  <2>. QED  BY <1>5, <2>2, <2>3 DEF Spoils
<1>6. CASE Fail \/ Cancelled
  BY <1>5, <1>6 DEF Fail, Cancelled
<1>7. CASE Restart
  BY <1>0, <1>7 DEF Restart, Present
<1>8. ASSUME \/ UNCHANGED vars \/ Tick
             \/ \E s \in Sids : Arrive(s)
             \/ \E i \in 1..Len(waiting) : GiveUp(i)
      PROVE  Persists(x)'
  <2>1. UNCHANGED <<sessions, left>>
    BY <1>8 DEF vars, Tick, Arrive, GiveUp
  <2>. QED  BY <1>2, <2>1 DEF Present
<1>. QED  BY <1>3, <1>4, <1>6, <1>7, <1>8 DEF Next

(* server.py, session_id: a run finds the variables that the last block    *)
(* that ended well left, whatever failed, timed out, was cancelled or      *)
(* evicted since.                                                          *)
THEOREM VariablesPersist == Spec => []VarsPersistIfAny
<1>1. Init => VarsPersistIfAny
  BY DEF Init, VarsPersistIfAny, Present
<1>. QED  BY <1>1, VarsNext, TypeInvCorrect, PTL DEF Spec
-----------------------------------------------------------------------------
Evicted(s) == sessions'[s] = Gone \/ born'[s] # born[s]

Justified(s) ==
  \/ now - sessions[s].last > TTL
  \/ /\ Cardinality({x \in Sids : sessions'[x] # Gone}) = MaxSessions
     /\ \A x \in Present : sessions'[x] # Gone => sessions[s].last <= sessions[x].last

LEMMA StartJustified ==
  ASSUME TypeInv, Start, NEW s \in Present, Evicted(s)
  PROVE  Justified(s)
<1>. USE DEF TypeInv
<1>1. PICK joins, lru : Begins(joins, lru)
  BY StartBegins
<1>2. s \in Sids /\ sessions[s].last \in Nat /\ now \in Nat
  BY SessionsAre
<1>3. CASE s \in Expired
  BY <1>3 DEF Justified, Expired
<1>4. CASE s \notin Expired
  <2>1. s \in Kept
    BY <1>4 DEF Kept
  <2>2. s # joins => s \in lru
    <3>. SUFFICES ASSUME s # joins, s \notin lru PROVE FALSE
      OBVIOUS
    <3>1. sessions'[s] = sessions[s]
      BY <1>1, <1>2, <1>4, BeginsPresent
    <3>2. born'[s] = born[s]
      BY <1>1, <1>2 DEF Begins, TypeOK
    <3>. QED  BY <3>1, <3>2 DEF Evicted, Present
  <2>3. s # joins
    <3>. SUFFICES ASSUME s = joins PROVE FALSE
      OBVIOUS
    <3>1. born'[s] = born[s]
      BY <1>1, <2>1 DEF Begins
    <3>2. sessions'[s] # Gone
      BY <1>1, <1>2, BeginsPresent
    <3>. QED  BY <3>1, <3>2 DEF Evicted
  <2>4. lru # {} /\ s \in lru
    BY <2>2, <2>3
  <2>5. Cardinality(Present') = MaxSessions /\ Cardinality(Kept \cup {joins}) > MaxSessions
    BY <1>1, <2>4, StartKeeps
  <2>6. joins \notin Expired
    <3>. SUFFICES ASSUME joins \in Expired PROVE FALSE
      OBVIOUS
    <3>1. Kept \cup {joins} \subseteq Present
      BY SessionsAre
    <3>2. IsFiniteSet(Kept \cup {joins})
      BY <3>1, FS_Subset
    <3>3. Cardinality(Kept \cup {joins}) <= Cardinality(Present)
      BY <3>1, FS_Subset
    <3>4. Cardinality(Present) \in Nat /\ Cardinality(Kept \cup {joins}) \in Nat
      BY <3>2, FS_CardinalityType
    <3>. QED  BY <2>5, <3>3, <3>4, SessionsAssumption DEF TypeOK
  <2>7. ASSUME NEW x \in Present, sessions'[x] # Gone
        PROVE  sessions[s].last <= sessions[x].last
    <3>1. x \in Sids /\ x \notin lru
      <4>1. x \in Sids /\ joins \notin lru
        BY <1>1, <2>7, SessionsAre, BeginsPresent
      <4>2. x # joins /\ x \in lru => sessions'[x] = Gone
        BY <1>1, <4>1, BeginsPresent
      <4>. QED  BY <2>7, <4>1, <4>2
    <3>2. x \in Kept
      BY <1>1, <2>6, <2>7, <3>1, BeginsPresent DEF Kept
    <3>. QED  BY <1>1, <2>4, <3>1, <3>2 DEF Begins, LruVictims
  <2>. QED  BY <2>5, <2>7 DEF Justified, Present
<1>. QED  BY <1>3, <1>4

LEMMA NextJustified ==
  ASSUME TypeInv, [Next]_vars, restarts' = restarts, NEW s \in Present, Evicted(s)
  PROVE  Justified(s)
<1>. USE DEF TypeInv
<1>1. s \in Sids /\ sessions[s] # Gone
  BY DEF Present
<1>2. ASSUME Present' = Present, born' = born
      PROVE  FALSE
  BY <1>1, <1>2 DEF Evicted, Present
<1>3. CASE Start
  BY <1>3, StartJustified
<1>4. ASSUME NEW ns \in Namespaces, Succeed(ns)
      PROVE  FALSE
  BY <1>2, <1>4, StoresTypes DEF Succeed
<1>5. CASE Fail \/ Cancelled
  BY <1>2, <1>5, SpoilsTypes DEF Fail, Cancelled
<1>6. CASE Restart
  BY <1>6, SessionsAssumption DEF Restart, TypeOK
<1>7. ASSUME \/ UNCHANGED vars \/ Tick
             \/ \E x \in Sids : Arrive(x)
             \/ \E i \in 1..Len(waiting) : GiveUp(i)
      PROVE  FALSE
  BY <1>2, <1>7 DEF vars, Tick, Arrive, GiveUp, Present
<1>. QED  BY <1>3, <1>4, <1>5, <1>6, <1>7 DEF Next

(* _evict_expired_sessions and _evict_lru_if_over_capacity: whatever runs, *)
(* a session goes only when its TTL is over, or for one more that joins    *)
(* when every place is taken by sessions used later.                       *)
THEOREM EvictionsJustified == Spec => EvictsExpiredOrLeastRecent
<1>1. TypeInv /\ [Next]_vars
        => [restarts' = restarts =>
              \A s \in Present :
                sessions'[s] = Gone \/ born'[s] # born[s] =>
                  \/ now - sessions[s].last > TTL
                  \/ /\ Cardinality({x \in Sids : sessions'[x] # Gone}) = MaxSessions
                     /\ \A x \in Present :
                          sessions'[x] # Gone => sessions[s].last <= sessions[x].last]_vars
  BY NextJustified DEF Evicted, Justified
<1>. QED  BY <1>1, TypeInvCorrect, PTL DEF Spec, EvictsExpiredOrLeastRecent
-----------------------------------------------------------------------------
(* SideEffectGate.                                                         *)

(* The last budget of a name is one of the entries', hence a number.       *)
LEMMA BudgetIsNat ==
  ASSUME NEW p \in Permissions, NEW k \in Keys
  PROVE  Budget(p, k) \in Nat
<1> DEFINE B == Budgeted(p, k)
           T == {Len(p.effects) - i : i \in B}
<1>1. p.effects \in Seq(EntryType)
  BY GateAssumption DEF PermissionType
<1>2. Len(p.effects) \in Nat /\ \A i \in 1..Len(p.effects) : p.effects[i].n \in Nat
  <2>1. Len(p.effects) \in Nat /\ \A i \in 1..Len(p.effects) : p.effects[i] \in EntryType
    BY <1>1
  <2> QED BY <2>1 DEF EntryType
<1>3. B \subseteq 1..Len(p.effects)
  BY DEF Budgeted
<1>4. CASE B = {}
  BY <1>4 DEF Budget
<1>5. CASE B # {}
  <2>1. T \subseteq Nat /\ T # {}
    BY <1>2, <1>3, <1>5
  <2>2. PICK x \in T : \A y \in T : ~(<<y, x>> \in OpToRel(<, Nat))
    BY <2>1, NatLessThanWellFounded, WFMin, Zenon
  <2>3. \A y \in T : ~(y < x)
    BY <2>1, <2>2 DEF OpToRel
  <2>4. PICK i \in B : x = Len(p.effects) - i
    OBVIOUS
  <2>5. \A j \in B : j <= i
    <3> TAKE j \in B
    <3>1. Len(p.effects) - j \in T
      OBVIOUS
    <3>2. ~(Len(p.effects) - j < Len(p.effects) - i)
      BY <2>3, <2>4, <3>1
    <3> QED BY <1>2, <1>3, <3>2
  <2> DEFINE last == CHOOSE m \in B : \A j \in B : j <= m
  <2>6. last \in B
    BY <2>5
  <2>7. Budget(p, k) = p.effects[last].n
    BY <1>5 DEF Budget
  <2> HIDE DEF last, B
  <2> QED BY <1>2, <1>3, <2>6, <2>7
<1> QED BY <1>4, <1>5

(* Equal permission fingerprints cover a tool by the same entries.         *)
LEMMA SameEntries ==
  ASSUME NEW p \in Permissions, NEW q \in Permissions, SamePerms(p, q), NEW t
  PROVE  Entries(p, t) = Entries(q, t)
<1>1. Allowed(p) = Allowed(q)
  <2>1. PICK f \in [1..Len(p.effects) -> 1..Len(q.effects)] :
          /\ \A i \in 1..Len(p.effects) : p.effects[i] = q.effects[f[i]]
          /\ \A j \in 1..Len(q.effects) : \E i \in 1..Len(p.effects) : f[i] = j
    BY DEF SamePerms, SameList
  <2>2. ASSUME NEW i \in 1..Len(p.effects)
        PROVE  p.effects[i].key \in Allowed(q)
    <3>1. f[i] \in 1..Len(q.effects) /\ p.effects[i] = q.effects[f[i]]
      BY <2>1
    <3> QED BY <3>1 DEF Allowed
  <2>3. ASSUME NEW j \in 1..Len(q.effects)
        PROVE  q.effects[j].key \in Allowed(p)
    <3>1. PICK i \in 1..Len(p.effects) : f[i] = j
      BY <2>1, <2>3
    <3> QED BY <2>1, <3>1 DEF Allowed
  <2> QED BY <2>2, <2>3 DEF Allowed
<1> QED BY <1>1 DEF Entries

(* Forgetting a call leaves the other refusals, in their order.            *)
LEMMA ForgetCall ==
  ASSUME refused \in Seq(Refusal), RefusedBounded, NEW c \in Calls
  PROVE  /\ NotThisCall(c) \in Seq(Refusal)
         /\ Len(NotThisCall(c)) <= Len(refused)
         /\ \A j \in 1..Len(NotThisCall(c)) :
              /\ NotThisCall(c)[j].call # c
              /\ \E i \in 1..Len(refused) : NotThisCall(c)[j] = refused[i]
         /\ \A i, j \in 1..Len(NotThisCall(c)) :
              NotThisCall(c)[i].call = NotThisCall(c)[j].call => i = j
<1> DEFINE n == Len(refused)
           at == CHOOSE i \in 1..n : refused[i].call = c
           rest == [j \in 1..(n - 1) |-> IF j < at THEN refused[j] ELSE refused[j + 1]]
<1>1. CASE ~\E i \in 1..n : refused[i].call = c
  BY <1>1 DEF NotThisCall, RefusedBounded
<1>2. CASE \E i \in 1..n : refused[i].call = c
  <2>1. at \in 1..n /\ refused[at].call = c
    BY <1>2
  <2>2. n \in Nat \ {0} /\ \A i \in 1..n : refused[i] \in Refusal
    BY <2>1
  <2>3. NotThisCall(c) = rest
    BY <1>2 DEF NotThisCall
  <2> HIDE DEF at
  <2>4. rest \in Seq(Refusal) /\ Len(rest) = n - 1
    BY <2>1, <2>2
  <2>5. ASSUME NEW j \in 1..(n - 1)
        PROVE  \E i \in 1..n : /\ i = (IF j < at THEN j ELSE j + 1)
                               /\ i # at
                               /\ rest[j] = refused[i]
    BY <2>1, <2>2
  <2> HIDE DEF rest
  <2>6. \A i, j \in 1..n : refused[i].call = refused[j].call => i = j
    BY DEF RefusedBounded
  <2>7. \A j \in 1..(n - 1) : rest[j].call # c
    BY <2>1, <2>5, <2>6
  <2>8. ASSUME NEW i \in 1..(n - 1), NEW j \in 1..(n - 1), rest[i].call = rest[j].call
        PROVE  i = j
    <3>1. PICK k \in 1..n : k = (IF i < at THEN i ELSE i + 1) /\ rest[i] = refused[k]
      BY <2>5
    <3>2. PICK m \in 1..n : m = (IF j < at THEN j ELSE j + 1) /\ rest[j] = refused[m]
      BY <2>5
    <3>3. k = m
      BY <2>6, <2>8, <3>1, <3>2
    <3> QED BY <2>1, <2>2, <3>1, <3>2, <3>3
  <2> QED BY <2>2, <2>3, <2>4, <2>5, <2>7, <2>8
<1> QED BY <1>1, <1>2

(* What remember() leaves in the session: the new refusal and old ones,    *)
(* one for a call, never more than MaxRefusals.                            *)
LEMMA RememberKeeps ==
  ASSUME refused \in Seq(Refusal), RefusedBounded,
         NEW c \in Calls, NEW p \in Permissions
  PROVE  /\ Remember(c, p) \in Seq(Refusal)
         /\ Len(Remember(c, p)) <= MaxRefusals
         /\ \A j \in 1..Len(Remember(c, p)) :
              \/ Remember(c, p)[j] = [call |-> c, perms |-> p]
              \/ \E i \in 1..Len(refused) : Remember(c, p)[j] = refused[i]
         /\ \A i, j \in 1..Len(Remember(c, p)) :
              Remember(c, p)[i].call = Remember(c, p)[j].call => i = j
<1> DEFINE rest == NotThisCall(c)
           over == IF Len(rest) >= MaxRefusals THEN Len(rest) - MaxRefusals + 1 ELSE 0
           kept == SubSeq(rest, over + 1, Len(rest))
           new  == [call |-> c, perms |-> p]
<1>1. CASE c.opaque
  BY <1>1 DEF Remember, RefusedBounded
<1>2. CASE ~c.opaque
  <2>1. /\ rest \in Seq(Refusal)
        /\ \A j \in 1..Len(rest) : /\ rest[j].call # c
                                   /\ \E i \in 1..Len(refused) : rest[j] = refused[i]
        /\ \A i, j \in 1..Len(rest) : rest[i].call = rest[j].call => i = j
    BY ForgetCall
  <2>2. Remember(c, p) = Append(kept, new)
    BY <1>2 DEF Remember
  <2>3. new \in Refusal
    BY DEF Refusal
  <2> HIDE DEF rest, new
  <2>4. Len(rest) \in Nat /\ over \in 0..Len(rest) /\ Len(rest) - over < MaxRefusals
    BY <2>1, GateAssumption
  <2> HIDE DEF over
  <2>5. /\ kept \in Seq(Refusal)
        /\ Len(kept) = Len(rest) - over
        /\ \A j \in 1..Len(kept) : kept[j] = rest[over + j]
    <3>1. /\ over + 1 \in 1..(Len(rest) + 1)
          /\ Len(rest) \in over..Len(rest)
          /\ \A i \in (over + 1)..Len(rest) : rest[i] \in Refusal
      BY <2>1, <2>4
    <3>2. /\ kept \in Seq(Refusal)
          /\ Len(kept) = IF over + 1 <= Len(rest) THEN Len(rest) - (over + 1) + 1 ELSE 0
          /\ \A i \in 1..(Len(rest) - (over + 1) + 1) : kept[i] = rest[(over + 1) + i - 1]
      BY <2>1, <2>4, <3>1, SubSeqProperties
    <3> QED BY <2>4, <3>2
  <2> HIDE DEF kept
  <2> DEFINE all == Append(kept, new)
  <2>6. /\ all \in Seq(Refusal)
        /\ Len(all) = Len(kept) + 1
        /\ all[Len(kept) + 1] = new
        /\ \A j \in 1..Len(kept) : all[j] = kept[j]
    BY <2>3, <2>5
  <2> HIDE DEF all
  <2>7. ASSUME NEW j \in 1..Len(kept)
        PROVE  all[j] = rest[over + j] /\ over + j \in 1..Len(rest)
    BY <2>4, <2>5, <2>6
  <2>8. Len(kept) \in Nat /\ new.call = c
    BY <2>4, <2>5 DEF new
  <2>9. ASSUME NEW j \in 1..Len(all)
        PROVE  j \in 1..Len(kept) \/ j = Len(kept) + 1
    BY <2>6, <2>8
  <2>10. ASSUME NEW j \in 1..Len(kept)
         PROVE  /\ all[j].call # c
                /\ \E i \in 1..Len(refused) : all[j] = refused[i]
    <3> DEFINE m == over + j
    <3>1. all[j] = rest[m] /\ m \in 1..Len(rest)
      BY <2>7
    <3> HIDE DEF m
    <3> QED BY <2>1, <3>1
  <2>11. ASSUME NEW i \in 1..Len(all), NEW j \in 1..Len(all), all[i].call = all[j].call
         PROVE  i = j
    <3>1. CASE i \in 1..Len(kept) /\ j \in 1..Len(kept)
      <4> DEFINE m == over + i
                 n == over + j
      <4>1. /\ all[i] = rest[m] /\ m \in 1..Len(rest)
            /\ all[j] = rest[n] /\ n \in 1..Len(rest)
        BY <2>7, <3>1
      <4>2. m = n
        <5> HIDE DEF m, n
        <5> QED BY <2>1, <2>11, <4>1
      <4> QED BY <2>4, <2>8, <3>1, <4>2
    <3>2. CASE i = Len(kept) + 1 \/ j = Len(kept) + 1
      BY <2>6, <2>8, <2>9, <2>10, <2>11, <3>2
    <3> QED BY <2>9, <3>1, <3>2
  <2>12. Len(all) <= MaxRefusals
    BY <2>4, <2>5, <2>6, GateAssumption
  <2>13. \A j \in 1..Len(all) : all[j] = new \/ \E i \in 1..Len(refused) : all[j] = refused[i]
    BY <2>6, <2>9, <2>10
  <2> QED BY <2>2, <2>6, <2>11, <2>12, <2>13 DEF all, new
<1> QED BY <1>1, <1>2
-----------------------------------------------------------------------------
(* The remembered refusals are refusals of the gate still.                 *)
RefusalsStand ==
  \A i \in 1..Len(refused) : GateRefuses(refused[i].call, refused[i].perms)

(* BudgetHolds and RefusedBounded hold whatever the skills do;             *)
(* RefusalsStand needs the replacements to stay.                           *)
GateInv == GateTypeOK /\ BudgetHolds /\ RefusedBounded

LEMMA InitGateInv == GateInit => GateInv
<1> SUFFICES ASSUME GateInit PROVE GateInv
  OBVIOUS
<1>1. GateTypeOK
  <2>1. refused \in Seq(Refusal) /\ owner \in [Tools -> Skills \cup {None}]
    BY DEF GateInit
  <2>2. used \in [Keys -> Nat] /\ sent \in [Keys -> Nat]
    BY DEF GateInit
  <2>3. /\ flight \in [Calls -> {"none", "first", "second"}]
        /\ \A c \in Calls : flight[c] = "none"
    BY DEF GateInit
  <2>4. runs \in 0..MaxRuns /\ made \in 0..MaxCalls
    BY GateAssumption DEF GateInit
  <2> QED BY <2>1, <2>2, <2>3, <2>4 DEF GateInit, GateTypeOK
<1>2. BudgetHolds
  <2> SUFFICES ASSUME NEW k \in Keys PROVE used[k] <= Budget(perms, k)
    BY DEF BudgetHolds
  <2>1. Budget(perms, k) \in Nat
    BY BudgetIsNat DEF GateInit
  <2> QED BY <2>1 DEF GateInit
<1>3. RefusedBounded
  BY GateAssumption DEF GateInit, RefusedBounded
<1> QED BY <1>1, <1>2, <1>3 DEF GateInv

(* A refusal that is remembered.                                           *)
LEMMA GateRefusalInv ==
  ASSUME GateInv, NEW c \in Calls, Call(c), GateRefusal(c)
  PROVE  GateInv'
<1>1. /\ refused \in Seq(Refusal) /\ RefusedBounded /\ perms \in Permissions
      /\ made \in Nat /\ made < MaxCalls
  BY DEF GateInv, GateTypeOK, Call
<1>2. refused' = Remember(c, perms)
  BY DEF GateRefusal
<1>3. /\ refused' \in Seq(Refusal)
      /\ Len(refused') <= MaxRefusals
      /\ \A i, j \in 1..Len(refused') : refused'[i].call = refused'[j].call => i = j
  BY <1>1, <1>2, RememberKeeps
<1>4. GateTypeOK'
  BY <1>1, <1>3, GateAssumption DEF GateInv, GateTypeOK, Call, GateRefusal
<1>5. BudgetHolds'
  BY DEF GateInv, BudgetHolds, Call, GateRefusal
<1>6. RefusedBounded'
  BY <1>3 DEF RefusedBounded
<1> QED BY <1>4, <1>5, <1>6 DEF GateInv

(* A call that is let through spends within every budget that covers it.   *)
LEMMA AdmitInv ==
  ASSUME GateInv, NEW c \in Calls, Call(c), Admit(c)
  PROVE  GateInv'
<1>1. GateTypeOK'
  BY GateAssumption DEF GateInv, GateTypeOK, Call, Admit
<1>2. BudgetHolds'
  <2> SUFFICES ASSUME NEW k \in Keys, Budget(perms, k) > 0
               PROVE  used'[k] <= Budget(perms, k)
    BY DEF BudgetHolds, Call
  <2>1. Budget(perms, k) \in Nat /\ used[k] \in Nat /\ used[k] <= Budget(perms, k)
    BY BudgetIsNat DEF GateInv, GateTypeOK, BudgetHolds
  <2>2. used'[k] = IF k \in Entries(perms, c.tool) THEN used[k] + 1 ELSE used[k]
    BY DEF Admit
  <2>3. k \in Entries(perms, c.tool) => ~(used[k] >= Budget(perms, k))
    BY DEF Admit, BudgetRefuses
  <2> QED BY <2>1, <2>2, <2>3
<1>3. RefusedBounded'
  BY DEF GateInv, RefusedBounded, Admit
<1> QED BY <1>1, <1>2, <1>3 DEF GateInv

(* Steps that leave the gate's memory and counters alone.                  *)
LEMMA QuietInv ==
  ASSUME GateInv, UNCHANGED <<refused, perms, used>>, GateTypeOK'
  PROVE  GateInv'
BY DEF GateInv, BudgetHolds, RefusedBounded

LEMMA StartRunInv ==
  ASSUME GateInv, NEW p \in Permissions, StartRun(p)
  PROVE  GateInv'
<1>1. GateTypeOK'
  <2>1. used' \in [Keys -> Nat] /\ sent' \in [Keys -> Nat]
    BY DEF StartRun
  <2>2. runs' \in 0..MaxRuns /\ made' \in 0..MaxCalls
    BY GateAssumption DEF GateInv, GateTypeOK, StartRun
  <2>3. running' = TRUE /\ perms' = p /\ untrusted' = FALSE
    BY DEF StartRun
  <2>4. UNCHANGED <<owner, reloaded, refused, flight>>
    BY DEF StartRun
  <2> QED BY <2>1, <2>2, <2>3, <2>4 DEF GateInv, GateTypeOK
<1>2. BudgetHolds'
  <2> SUFFICES ASSUME NEW k \in Keys PROVE used'[k] <= Budget(p, k)
    BY DEF BudgetHolds, StartRun
  <2>1. Budget(p, k) \in Nat
    BY BudgetIsNat
  <2> QED BY <2>1 DEF StartRun
<1>3. RefusedBounded'
  BY DEF GateInv, RefusedBounded, StartRun
<1> QED BY <1>1, <1>2, <1>3 DEF GateInv

LEMMA GateInductive == GateInv /\ [GateNext]_gateVars => GateInv'
<1> SUFFICES ASSUME GateInv, [GateNext]_gateVars PROVE GateInv'
  OBVIOUS
<1>1. ASSUME NEW p \in Permissions, StartRun(p) PROVE GateInv'
  BY <1>1, StartRunInv
<1>2. CASE EndRun
  <2>1. GateTypeOK'
    BY <1>2 DEF GateInv, GateTypeOK, EndRun
  <2> QED BY <1>2, <2>1, QuietInv DEF EndRun
<1>3. ASSUME NEW t \in Tools, NEW s \in Skills \cup {None}, ReloadSkills(t, s)
      PROVE  GateInv'
  <2>1. GateTypeOK'
    BY <1>3 DEF GateInv, GateTypeOK, ReloadSkills
  <2> QED BY <1>3, <2>1, QuietInv DEF ReloadSkills
<1>4. CASE UntrustedText
  <2>1. GateTypeOK'
    BY <1>4 DEF GateInv, GateTypeOK, UntrustedText
  <2> QED BY <1>4, <2>1, QuietInv DEF UntrustedText
<1>5. ASSUME NEW c \in Calls, Call(c) PROVE GateInv'
  <2>1. CASE RepeatRefusal(c) \/ RunRefusal(c)
    <3>1. GateTypeOK'
      BY <1>5, <2>1, GateAssumption DEF GateInv, GateTypeOK, Call, RepeatRefusal, RunRefusal
    <3> QED BY <1>5, <2>1, <3>1, QuietInv DEF Call, RepeatRefusal, RunRefusal
  <2>2. CASE GateRefusal(c)
    BY <1>5, <2>2, GateRefusalInv
  <2>3. CASE Admit(c)
    BY <1>5, <2>3, AdmitInv
  <2> QED BY <1>5, <2>1, <2>2, <2>3 DEF Call
<1>6. ASSUME NEW c \in Calls, Retry(c) PROVE GateInv'
  <2>1. GateTypeOK'
    BY <1>6 DEF GateInv, GateTypeOK, Retry, Executed
  <2> QED BY <1>6, <2>1, QuietInv DEF Retry
<1>7. ASSUME NEW c \in Calls, CallEnds(c) PROVE GateInv'
  <2>1. sent' \in [Keys -> Nat]
    <3>1. sent \in [Keys -> Nat]
      BY DEF GateInv, GateTypeOK
    <3>2. Executed(c) \/ UNCHANGED sent
      BY <1>7 DEF CallEnds
    <3> QED BY <3>1, <3>2 DEF Executed
  <2>2. /\ flight' \in [Calls -> {"none", "first", "second"}]
        /\ \A d \in Calls : flight[d] = "none" => flight'[d] = "none"
    BY <1>7 DEF GateInv, GateTypeOK, CallEnds
  <2>3. UNCHANGED <<owner, reloaded, refused, running, perms,
                        used, untrusted, runs, made>>
    BY <1>7 DEF CallEnds
  <2>4. GateTypeOK'
    BY <2>1, <2>2, <2>3 DEF GateInv, GateTypeOK
  <2> QED BY <2>3, <2>4, QuietInv
<1>8. CASE UNCHANGED gateVars
  <2>1. GateTypeOK'
    BY <1>8 DEF GateInv, GateTypeOK, gateVars
  <2> QED BY <1>8, <2>1, QuietInv DEF gateVars
<1> QED BY <1>1, <1>2, <1>3, <1>4, <1>5, <1>6, <1>7, <1>8 DEF GateNext

LEMMA GateInvariance == GateSpec => []GateInv
<1>1. GateInit => GateInv
  BY InitGateInv
<1>2. GateInv /\ [GateNext]_gateVars => GateInv'
  BY GateInductive
<1> QED BY <1>1, <1>2, PTL DEF GateSpec

(* The state keeps its types, and no call outlives its run.                *)
THEOREM GateTypeCorrect == GateSpec => []GateTypeOK
<1>1. GateInv => GateTypeOK
  BY DEF GateInv
<1> QED BY <1>1, GateInvariance, PTL

(* No run overspends a budget of allow_side_effects, that of "srv.*"       *)
(* included, whatever calls are under way at once.                         *)
THEOREM NoOverspending == GateSpec => []BudgetHolds
<1>1. GateInv => BudgetHolds
  BY DEF GateInv
<1> QED BY <1>1, GateInvariance, PTL

(* The session remembers one refusal of a call and MAX_REFUSALS in all.    *)
THEOREM MemoryBounded == GateSpec => []RefusedBounded
<1>1. GateInv => RefusedBounded
  BY DEF GateInv
<1> QED BY <1>1, GateInvariance, PTL
-----------------------------------------------------------------------------
(* While no skill changes, a step keeps the remembered refusals right.     *)
LEMMA RefusalsStandStep ==
  ASSUME GateInv, RefusalsStand, [GateNext]_gateVars, ~reloaded'
  PROVE  RefusalsStand'
<1>1. owner' = owner
  BY DEF GateNext, gateVars, StartRun, EndRun, ReloadSkills, UntrustedText, Call, Retry, CallEnds
<1>2. ASSUME NEW c \in CallType, NEW p \in Permissions
      PROVE  GateRefuses(c, p)' = GateRefuses(c, p)
  BY <1>1 DEF GateRefuses, Denied, Owns, SecretHit
<1>3. CASE UNCHANGED refused
  <2> SUFFICES ASSUME NEW i \in 1..Len(refused)
               PROVE  GateRefuses(refused[i].call, refused[i].perms)'
    BY <1>3 DEF RefusalsStand
  <2>1. refused[i] \in Refusal /\ GateRefuses(refused[i].call, refused[i].perms)
    BY DEF GateInv, GateTypeOK, RefusalsStand
  <2> QED BY <1>1, <1>3, <2>1 DEF GateRefuses, Denied, Owns, SecretHit
<1>4. ASSUME NEW c \in Calls, Call(c), GateRefusal(c)
      PROVE  RefusalsStand'
  <2>1. refused' = Remember(c, perms) /\ GateRefuses(c, perms)
    BY <1>4 DEF GateRefusal
  <2>2. refused \in Seq(Refusal) /\ RefusedBounded /\ perms \in Permissions
    BY DEF GateInv, GateTypeOK
  <2> SUFFICES ASSUME NEW j \in 1..Len(refused')
               PROVE  GateRefuses(refused[j].call, refused[j].perms)'
    BY DEF RefusalsStand
  <2>3. \/ refused'[j] = [call |-> c, perms |-> perms]
        \/ \E i \in 1..Len(refused) : refused'[j] = refused[i]
    BY <2>1, <2>2, RememberKeeps
  <2>4. GateRefuses(refused'[j].call, refused'[j].perms)
    BY <2>1, <2>3 DEF RefusalsStand
  <2> QED BY <1>1, <2>4 DEF GateRefuses, Denied, Owns, SecretHit
<1>5. \/ UNCHANGED refused
      \/ \E c \in Calls : Call(c) /\ GateRefusal(c)
  BY DEF GateNext, gateVars, StartRun, EndRun, ReloadSkills, UntrustedText, Call,
         RepeatRefusal, RunRefusal, Admit, Retry, CallEnds
<1> QED BY <1>3, <1>4, <1>5

(* While no skill changes, a repeated refusal is what the gate would       *)
(* decide now: the fingerprint carries all the gate looks at.              *)
THEOREM RepeatsAreJust == GateSpec => []RepeatIsJust
<1> DEFINE Stand == ~reloaded => RefusalsStand
<1>1. GateInit => Stand
  BY DEF GateInit, RefusalsStand
<1>2. GateInv /\ Stand /\ [GateNext]_gateVars => Stand'
  <2> SUFFICES ASSUME GateInv, Stand, [GateNext]_gateVars, ~reloaded'
               PROVE  RefusalsStand'
    OBVIOUS
  <2>1. ~reloaded
    BY DEF GateNext, gateVars, StartRun, EndRun, ReloadSkills, UntrustedText, Call, Retry, CallEnds
  <2> QED BY <2>1, RefusalsStandStep
<1>3. GateInv /\ Stand => RepeatIsJust
  <2> SUFFICES ASSUME GateInv, RefusalsStand,
                      NEW c \in Calls, IsRepeat(c, perms)
               PROVE  GateRefuses(c, perms)
    BY DEF RepeatIsJust
  <2>1. PICK i \in 1..Len(refused) :
          refused[i].call = c /\ SamePerms(refused[i].perms, perms)
    BY DEF IsRepeat
  <2>2. refused[i] \in Refusal /\ perms \in Permissions
    BY DEF GateInv, GateTypeOK
  <2>3. refused[i].perms \in Permissions
    BY <2>2 DEF Refusal
  <2>4. Entries(refused[i].perms, c.tool) = Entries(perms, c.tool)
    BY <2>1, <2>2, <2>3, SameEntries
  <2>5. GateRefuses(c, refused[i].perms)
    BY <2>1 DEF RefusalsStand
  <2> QED BY <2>4, <2>5 DEF GateRefuses, Denied, SecretHit
<1> QED BY <1>1, <1>2, <1>3, GateInvariance, PTL DEF GateSpec
=============================================================================
