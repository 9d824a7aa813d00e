---------------------------- MODULE Blocks_proofs ----------------------------
(***************************************************************************)
(* Proofs about Blocks, for any number of servers, blocks and calls, and   *)
(* any mix of in-process runs and children.                                *)
(*                                                                         *)
(* status.json counts every outcome once because who is between reading it *)
(* and replacing it holds the lock file, and what it has read is still     *)
(* there (StatusInv). The event of a call is logged once (LogInv), and     *)
(* every step either adds an event and a call that is being counted, or    *)
(* has one such call less and one more in the file or one more uncounted,  *)
(* or moves events to the metrics or drops them (KeepsBalance).            *)
(***************************************************************************)
EXTENDS Blocks, FiniteSetTheorems, TLAPS

Locked == {"locked", "writing", "replaced"}

LEMMA CountedType ==
  ASSUME NEW s \in Status, NEW ok \in BOOLEAN
  PROVE  /\ Counted(s, ok) \in Status
         /\ Counted(s, ok).uses = s.uses + 1
         /\ Counted(s, ok).successes = s.successes + (IF ok THEN 1 ELSE 0)
         /\ Counted(s, ok).verified /\ Counted(s, ok).uses >= MinUses
              => 5 * Counted(s, ok).successes >= 4 * Counted(s, ok).uses
<1>. DEFINE t == [s EXCEPT !.uses = @ + 1, !.successes = IF ok THEN @ + 1 ELSE @]
<1>1. t \in Status /\ t.uses = s.uses + 1 /\ t.successes = s.successes + (IF ok THEN 1 ELSE 0)
  <2>. DEFINE n == IF ok THEN s.successes + 1 ELSE s.successes
  <2>1. t = [s EXCEPT !.uses = s.uses + 1, !.successes = n]
    OBVIOUS
  <2>2. n \in Nat /\ n = s.successes + (IF ok THEN 1 ELSE 0)
    BY DEF Status
  <2>. HIDE DEF n, t
  <2>3. s.uses \in Nat /\ s.uses + 1 \in Nat
    BY DEF Status
  <2>4. t \in Status
    BY <2>1, <2>2, <2>3, Zenon DEF Status
  <2>5. t.uses = s.uses + 1 /\ t.successes = n
    BY <2>1, Zenon DEF Status
  <2>. QED  BY <2>2, <2>4, <2>5
<1>2. Counted(s, ok) = Demoted(t)
  BY DEF Counted
<1>. HIDE DEF t
<1>3. /\ Demoted(t) \in Status
      /\ Demoted(t).uses = t.uses /\ Demoted(t).successes = t.successes
      /\ Demoted(t).verified => ~(t.uses >= MinUses /\ 5 * t.successes < 4 * t.uses)
  BY <1>1 DEF Demoted, Status
<1>4. t.uses \in Nat /\ t.successes \in Nat /\ MinUses \in Nat
  BY <1>1, BlocksAssumption DEF Status
<1>. QED  BY <1>1, <1>2, <1>3, <1>4

LEMMA LogIsFinite ==
  ASSUME TypeOK
  PROVE  /\ IsFiniteSet(log) /\ Cardinality(log) \in Nat
         /\ \A s \in SUBSET log :
              /\ Cardinality(s) \in Nat
              /\ Cardinality(log \ s) = Cardinality(log) - Cardinality(s)
         /\ \A p : /\ Logged(p) \in SUBSET log /\ Drained(p) \in SUBSET log
                   /\ Drained(p) \subseteq Logged(p)
<1>1. IsFiniteSet(Servers \X (0..MaxCalls))
  <2>1. 0 \in Int /\ MaxCalls \in Int
    BY BlocksAssumption
  <2>2. IsFiniteSet(0..MaxCalls)
    BY <2>1, FS_Interval
  <2>. QED  BY <2>2, FS_Product, BlocksAssumption
<1>2. IsFiniteSet(log) /\ Cardinality(log) \in Nat
  <2>1. IsFiniteSet(log)
    BY <1>1, FS_Subset DEF TypeOK
  <2>. QED  BY <2>1, FS_CardinalityType
<1>3. ASSUME NEW s \in SUBSET log
      PROVE  /\ Cardinality(s) \in Nat
             /\ Cardinality(log \ s) = Cardinality(log) - Cardinality(s)
  <2>1. log \cap s = s
    OBVIOUS
  <2>2. IsFiniteSet(s)
    BY <1>2, FS_Subset
  <2>3. Cardinality(s) \in Nat
    BY <2>2, FS_CardinalityType
  <2>4. Cardinality(log \ s) = Cardinality(log) - Cardinality(log \cap s)
    BY <1>2, <2>2, FS_Difference
  <2>. QED  BY <2>1, <2>3, <2>4
<1>4. \A p : /\ Logged(p) \in SUBSET log /\ Drained(p) \in SUBSET log
            /\ Drained(p) \subseteq Logged(p)
  BY DEF Logged, Drained
<1>. QED  BY <1>2, <1>3, <1>4
-----------------------------------------------------------------------------
LEMMA NoCallType == NoCall \in [ok : BOOLEAN, seen : Status] /\ Fresh \in Status
<1>1. Fresh \in Status
  BY DEF Fresh, Status
<1>. QED  BY <1>1 DEF NoCall

LEMMA InitTypes == Init => TypeOK
<1>1. ASSUME Init
      PROVE  landed \in [BOOLEAN -> Nat] /\ rec \in [Servers -> [ok : BOOLEAN, seen : Status]]
  BY <1>1, NoCallType DEF Init
<1>2. ASSUME Init
      PROVE  /\ inProcess \subseteq Servers /\ armed \subseteq inProcess
             /\ pc \in [Servers -> PcState] /\ time \in [Servers -> 0..2]
             /\ file \in Status /\ flock \in Servers \cup {NoOne}
  BY <1>2, BlocksAssumption, NoCallType DEF Init, PcState
<1>3. ASSUME Init
      PROVE  /\ log \subseteq Servers \X (0..MaxCalls) /\ events \in Nat
             /\ adrift \subseteq log /\ (\A c \in adrift : c[1] \in inProcess)
             /\ behind \subseteq inProcess /\ stale \subseteq inProcess
             /\ blocks \in [Servers -> 0..MaxBlocks] /\ calls \in [Servers -> 0..MaxCalls]
  BY <1>3, BlocksAssumption DEF Init
<1>4. ASSUME Init
      PROVE  missed \in Nat /\ uncounted \in Nat /\ spent \subseteq inProcess
  BY <1>4 DEF Init
<1>. QED  BY <1>1, <1>2, <1>3, <1>4 DEF TypeOK

LEMMA RecordTypes ==
  ASSUME TypeOK, NEW p \in Servers, LeavesRecord(p)
  PROVE  rec' \in [Servers -> [ok : BOOLEAN, seen : Status]] /\ flock' \in Servers \cup {NoOne}
BY NoCallType DEF LeavesRecord, TypeOK

LEMMA LostTypes ==
  ASSUME TypeOK, NEW p \in Servers, LosesCount(p)
  PROVE  /\ rec' \in [Servers -> [ok : BOOLEAN, seen : Status]] /\ flock' \in Servers \cup {NoOne}
         /\ uncounted' \in Nat
<1>1. uncounted' \in Nat
  BY DEF LosesCount, TypeOK
<1>. QED  BY <1>1, RecordTypes DEF LosesCount

LEMMA CodeTypes ==
  ASSUME TypeOK, NEW p \in Servers,
         \/ Start(p) \/ TimePasses(p) \/ Saves(p) \/ CallSkill(p)
         \/ Outcome(p, TRUE) \/ Outcome(p, FALSE)
         \/ CodeEnds(p) \/ Deadline(p) \/ ClientCancels(p) \/ CleanUp(p)
  PROVE  TypeOK'
<1>. USE BlocksAssumption DEF TypeOK, Goto, PcState, timers, sets, counts, InCode, Waning, Finalizing, Counting, Unfinished
<1>1. CASE Start(p)
  BY <1>1 DEF Start
<1>2. CASE TimePasses(p)
  BY <1>2 DEF TimePasses
<1>3. CASE CallSkill(p)
  BY <1>3 DEF CallSkill
<1>4. ASSUME NEW ok \in BOOLEAN, Outcome(p, ok)
      PROVE  TypeOK'
  <2>. DEFINE new == [rec[p] EXCEPT !.ok = ok]
  <2>1. new \in [ok : BOOLEAN, seen : Status]
    OBVIOUS
  <2>2. rec' = [rec EXCEPT ![p] = new]
    BY <1>4 DEF Outcome
  <2>. HIDE DEF new
  <2>3. adrift' \subseteq log' /\ \A c \in adrift' : c[1] \in inProcess
    BY <1>4 DEF Outcome
  <2>. QED  BY <1>4, <2>1, <2>2, <2>3 DEF Outcome
<1>5. CASE CodeEnds(p)
  BY <1>5 DEF CodeEnds
<1>6. ASSUME NEW to \in Waning, Interrupted(p, to)
      PROVE  TypeOK'
  BY <1>6 DEF Interrupted
<1>7. CASE CleanUp(p)
  BY <1>7 DEF CleanUp, CleanedUp, Disarmed
<1>8. CASE Saves(p)
  BY <1>8 DEF Saves, Logged
<1>. QED  BY <1>1, <1>2, <1>3, <1>4, <1>5, <1>6, <1>7, <1>8 DEF Deadline, ClientCancels

LEMMA CountTypes ==
  ASSUME TypeOK, NEW p \in Servers,
         TakeLock(p) \/ ReadStatus(p) \/ Replace(p) \/ Recorded(p) \/ RecordFails(p)
  PROVE  TypeOK'
<1>. USE DEF Goto, PcState, timers, sets, counts, Counting, Unfinished, InCode, Waning, Finalizing
<1>1. CASE TakeLock(p)
  BY <1>1 DEF TakeLock, TypeOK
<1>2. CASE ReadStatus(p)
  BY <1>2 DEF ReadStatus, TypeOK
<1>3. CASE Replace(p)
  <2>1. rec[p] \in [ok : BOOLEAN, seen : Status]
    BY DEF TypeOK
  <2>2. file' \in Status
    BY <1>3, <2>1, CountedType DEF Replace
  <2>3. landed' \in [BOOLEAN -> Nat]
    BY <1>3, <2>1 DEF Replace, TypeOK
  <2>. QED  BY <1>3, <2>2, <2>3 DEF Replace, TypeOK
<1>4. CASE Recorded(p)
  <2>1. pc' \in [Servers -> PcState]
    BY <1>4 DEF Recorded, TypeOK
  <2>. QED  BY <1>4, <2>1, RecordTypes DEF Recorded, TypeOK
<1>5. CASE RecordFails(p)
  <2>1. pc' \in [Servers -> PcState]
    BY <1>5 DEF RecordFails, TypeOK
  <2>. QED  BY <1>5, <2>1, LostTypes DEF RecordFails, TypeOK
<1>. QED  BY <1>1, <1>2, <1>3, <1>4, <1>5

LEMMA EndTypes ==
  ASSUME TypeOK, NEW p \in Servers,
         ChildTimesOut(p) \/ ChildDies(p) \/ ChildCancelled(p) \/ Alarm(p) \/ Finalize(p)
  PROVE  TypeOK'
<1>. USE DEF Goto, PcState, timers, sets, InCode, Counting, Unfinished, Waning, Finalizing
<1>1. CASE ChildTimesOut(p) \/ ChildDies(p) \/ ChildCancelled(p)
  <2>1. LosesCount(p) /\ \E to \in {"failure", "idle"} : Killed(p, to)
    BY <1>1 DEF ChildTimesOut, ChildDies, ChildCancelled, Killed
  <2>2. missed' \in Nat
    <3>1. Cardinality(Logged(p)) \in Nat /\ missed \in Nat
      BY LogIsFinite DEF TypeOK
    <3>. QED  BY <2>1, <3>1 DEF Killed
  <2>3. log' \subseteq log /\ adrift' = adrift /\ adrift \subseteq log'
    BY <2>1 DEF Killed, TypeOK, Logged
  <2>. QED  BY <2>1, <2>2, <2>3, LostTypes DEF Killed, TypeOK
<1>2. CASE AlarmInCode(p)
  <2>1. pc' \in [Servers -> PcState] /\ spent' \subseteq inProcess
    BY <1>2 DEF AlarmInCode, Fires, GoesOn, TypeOK
  <2>2. LosesCount(p)
    BY <1>2 DEF AlarmInCode
  <2>. QED  BY <1>2, <2>1, <2>2, LostTypes DEF AlarmInCode, Fires, TypeOK
<1>3. CASE AlarmInSuccess(p)
  <2>1. log' \subseteq log /\ events' \in Nat /\ missed' \in Nat /\ adrift \subseteq log'
    <3>1. CASE UNCHANGED <<log, events, missed>>
      BY <3>1 DEF TypeOK
    <3>2. ASSUME log' = log \ Drained(p), NEW n \in 0..Cardinality(Drained(p)),
                 events' = events + n, missed' = missed + (Cardinality(Drained(p)) - n)
          PROVE  log' \subseteq log /\ events' \in Nat /\ missed' \in Nat /\ adrift \subseteq log'
      <4>1. Cardinality(Drained(p)) \in Nat
        BY LogIsFinite
      <4>2. events \in Nat /\ missed \in Nat
        BY DEF TypeOK
      <4>3. events' \in Nat /\ missed' \in Nat
        BY <3>2, <4>1, <4>2
      <4>. QED  BY <3>2, <4>3 DEF TypeOK, Drained
    <3>. QED  BY <1>3, <3>1, <3>2 DEF AlarmInSuccess
  <2>. QED  BY <1>3, <2>1 DEF AlarmInSuccess, Fires, TypeOK
<1>4. CASE AlarmAstray(p)
  <2>1. pc' \in [Servers -> PcState] /\ spent' \subseteq inProcess
    BY <1>4 DEF AlarmAstray, Fires, GoesOn, TypeOK
  <2>2. missed' \in Nat /\ log' \subseteq log /\ adrift' \subseteq log' /\ adrift' \subseteq adrift
    <3>1. Cardinality(Logged(p)) \in Nat /\ missed \in Nat /\ adrift \subseteq log
      BY LogIsFinite DEF TypeOK
    <3>2. CASE UNCHANGED <<log, adrift, missed>>
      BY <3>1, <3>2
    <3>3. CASE /\ log' = log \ Logged(p) /\ adrift' = adrift \ Logged(p)
               /\ missed' = missed + Cardinality(Logged(p))
      BY <3>1, <3>3
    <3>. QED  BY <1>4, <3>2, <3>3 DEF AlarmAstray
  <2>. QED  BY <1>4, <2>1, <2>2 DEF AlarmAstray, Fires, TypeOK
<1>5. CASE Finalize(p)
  <2>1. log' \subseteq log /\ adrift \subseteq log'
    BY <1>5 DEF Finalize, Drained, TypeOK
  <2>2. events \in Nat /\ Cardinality(Drained(p)) \in Nat /\ events' = events + Cardinality(Drained(p))
    BY <1>5, LogIsFinite DEF Finalize, TypeOK
  <2>3. events' \in Nat
    BY <2>2
  <2>. QED  BY <1>5, <2>1, <2>3 DEF Finalize, Disarmed, TypeOK
<1>. QED  BY <1>1, <1>2, <1>3, <1>4, <1>5 DEF Alarm

LEMMA NextTypes == TypeOK /\ [Next]_vars => TypeOK'
<1>1. TypeOK /\ UNCHANGED vars => TypeOK'
  BY DEF vars, TypeOK
<1>. QED  BY <1>1, CodeTypes, CountTypes, EndTypes DEF Next

(* The types.                                                              *)
THEOREM TypeCorrect == Spec => []TypeOK
BY InitTypes, NextTypes, PTL DEF Spec
-----------------------------------------------------------------------------
(* A timer runs only for the block it was armed for: no later block, and   *)
(* no idle server, is interrupted by it. (execute(): armed before the code *)
(* starts, disarmed in the `finally`; a child's block has none to disarm.) *)
LEMMA AlarmsStep == TypeOK /\ AlarmOfThisBlock /\ [Next]_vars => AlarmOfThisBlock'
<1>. SUFFICES ASSUME TypeOK, AlarmOfThisBlock, [Next]_vars
              PROVE  AlarmOfThisBlock'
  OBVIOUS
<1>. USE DEF AlarmOfThisBlock, TypeOK, Goto, timers
<1>1. CASE UNCHANGED vars
  BY <1>1 DEF vars
<1>. SUFFICES ASSUME NEW p \in Servers,
                     \/ Start(p) \/ TimePasses(p) \/ Saves(p) \/ CallSkill(p)
                     \/ Outcome(p, TRUE) \/ Outcome(p, FALSE)
                     \/ TakeLock(p) \/ ReadStatus(p) \/ Replace(p) \/ Recorded(p)
                     \/ RecordFails(p)
                     \/ CodeEnds(p) \/ Deadline(p) \/ ClientCancels(p) \/ CleanUp(p)
                     \/ ChildTimesOut(p) \/ ChildDies(p) \/ ChildCancelled(p)
                     \/ Alarm(p) \/ Finalize(p)
              PROVE  AlarmOfThisBlock'
  BY <1>1 DEF Next
<1>2. CASE Start(p)
  BY <1>2 DEF Start
<1>3. CASE TimePasses(p) \/ Saves(p) \/ CallSkill(p) \/ TakeLock(p) \/ ReadStatus(p) \/ Replace(p)
  BY <1>3 DEF TimePasses, Saves, CallSkill, TakeLock, ReadStatus, Replace
<1>4. ASSUME NEW ok \in BOOLEAN, Outcome(p, ok)
      PROVE  AlarmOfThisBlock'
  BY <1>4 DEF Outcome
<1>5. CASE Recorded(p) \/ RecordFails(p)
  BY <1>5 DEF Recorded, RecordFails
<1>6. CASE CodeEnds(p)
  BY <1>6 DEF CodeEnds
<1>7. CASE Deadline(p) \/ ClientCancels(p)
  BY <1>7 DEF Deadline, ClientCancels, Interrupted
<1>8. CASE CleanUp(p)
  BY <1>8 DEF CleanUp, CleanedUp, Disarmed
<1>9. CASE ChildTimesOut(p) \/ ChildDies(p) \/ ChildCancelled(p)
  BY <1>9 DEF ChildTimesOut, ChildDies, ChildCancelled, Killed
<1>10. CASE Alarm(p)
  <2>1. armed' = armed \ {p} /\ \E to \in PcState : pc' = [pc EXCEPT ![p] = to]
    BY <1>10 DEF Alarm, AlarmInCode, AlarmInSuccess, AlarmAstray, Fires, GoesOn, PcState,
                 InCode, Waning, Finalizing
  <2>. QED  BY <2>1
<1>11. CASE Finalize(p)
  BY <1>11 DEF Finalize, Disarmed
<1>. QED  BY <1>2, <1>3, <1>4, <1>5, <1>6, <1>7, <1>8, <1>9, <1>10, <1>11

THEOREM AlarmsOfTheirBlocks == Spec => []AlarmOfThisBlock
<1>1. Init => AlarmOfThisBlock
  BY DEF Init, AlarmOfThisBlock
<1>. QED  BY <1>1, AlarmsStep, TypeCorrect, PTL DEF Spec
-----------------------------------------------------------------------------
(* Who is in the critical section of status.json has the lock, and what it *)
(* has read is what the file still says.                                   *)
StatusInv ==
  /\ \A i \in Servers : pc[i] \in Locked => flock = i
  /\ \A i \in Servers : pc[i] = "writing" => rec[i].seen = file

(* A step of p that leaves status.json alone and p outside of the critical *)
(* section.                                                                *)
KeepsOut(p) ==
  /\ \E to \in PcState \ Locked : Goto(p, to)
  /\ \A i \in Servers \ {p} : rec'[i] = rec[i]
  /\ flock' = flock \/ LeavesRecord(p)
  /\ UNCHANGED <<file, landed>>

LEMMA KeepsOutSafely ==
  ASSUME TypeOK, StatusInv, OutcomesExact, NEW p \in Servers, KeepsOut(p)
  PROVE  StatusInv' /\ OutcomesExact'
<1>1. OutcomesExact'
  BY DEF KeepsOut, OutcomesExact
<1>2. PICK to \in PcState \ Locked : pc' = [pc EXCEPT ![p] = to]
  BY DEF KeepsOut, Goto
<1>3. ASSUME NEW i \in Servers, pc'[i] \in Locked
      PROVE  i # p /\ pc'[i] = pc[i] /\ flock = i /\ flock' = i /\ rec'[i] = rec[i]
  BY <1>2, <1>3 DEF StatusInv, TypeOK, KeepsOut, LeavesRecord
<1>4. ASSUME NEW i \in Servers, pc'[i] = "writing"
      PROVE  rec'[i].seen = file'
  BY <1>3, <1>4 DEF StatusInv, KeepsOut, Locked
<1>. QED  BY <1>1, <1>3, <1>4 DEF StatusInv

LEMMA MostKeepOut ==
  ASSUME TypeOK, NEW p \in Servers,
         \/ Start(p) \/ CallSkill(p) \/ Outcome(p, TRUE) \/ Outcome(p, FALSE)
         \/ Recorded(p) \/ RecordFails(p) \/ CodeEnds(p) \/ Deadline(p) \/ ClientCancels(p) \/ CleanUp(p)
         \/ ChildTimesOut(p) \/ ChildDies(p) \/ ChildCancelled(p)
         \/ Alarm(p) \/ Finalize(p)
  PROVE  KeepsOut(p)
<1>. USE DEF KeepsOut, Goto, PcState, InCode, Waning, Finalizing, Locked, counts, TypeOK,
             LosesCount
<1>1. CASE Start(p) \/ CallSkill(p)
  BY <1>1 DEF Start, CallSkill
<1>2. ASSUME NEW ok \in BOOLEAN, Outcome(p, ok)
      PROVE  KeepsOut(p)
  BY <1>2 DEF Outcome, Counting, Unfinished
<1>3. CASE Recorded(p) \/ RecordFails(p)
  BY <1>3 DEF Recorded, RecordFails, LeavesRecord
<1>4. CASE CodeEnds(p)
  BY <1>4 DEF CodeEnds
<1>5. CASE Deadline(p) \/ ClientCancels(p)
  BY <1>5 DEF Deadline, ClientCancels, Interrupted
<1>6. CASE CleanUp(p)
  BY <1>6 DEF CleanUp, CleanedUp
<1>7. CASE ChildTimesOut(p) \/ ChildDies(p) \/ ChildCancelled(p)
  BY <1>7 DEF ChildTimesOut, ChildDies, ChildCancelled, Killed, LeavesRecord
<1>8. CASE AlarmInCode(p)
  BY <1>8 DEF AlarmInCode, Fires, GoesOn, LeavesRecord
<1>9. CASE AlarmInSuccess(p) \/ AlarmAstray(p)
  BY <1>9 DEF AlarmInSuccess, AlarmAstray, Fires, GoesOn
<1>10. CASE Finalize(p)
  BY <1>10 DEF Finalize
<1>. QED  BY <1>1, <1>2, <1>3, <1>4, <1>5, <1>6, <1>7, <1>8, <1>9, <1>10 DEF Alarm

LEMMA TakeLockStatus ==
  ASSUME TypeOK, StatusInv, OutcomesExact, NEW p \in Servers, TakeLock(p)
  PROVE  StatusInv' /\ OutcomesExact'
<1>1. OutcomesExact'
  BY DEF TakeLock, counts, OutcomesExact
<1>2. ASSUME NEW i \in Servers, i # p
      PROVE  pc[i] \notin Locked /\ pc'[i] = pc[i]
  BY <1>2, BlocksAssumption DEF StatusInv, TakeLock, Goto, TypeOK
<1>3. pc'[p] = "locked" /\ flock' = p
  BY DEF TakeLock, Goto, TypeOK
<1>. QED  BY <1>1, <1>2, <1>3 DEF StatusInv, Locked

LEMMA ReadStatusStatus ==
  ASSUME TypeOK, StatusInv, OutcomesExact, NEW p \in Servers, ReadStatus(p)
  PROVE  StatusInv' /\ OutcomesExact'
<1>1. OutcomesExact'
  BY DEF ReadStatus, counts, OutcomesExact
<1>2. ASSUME NEW i \in Servers, i # p
      PROVE  pc[i] \notin Locked /\ pc'[i] = pc[i]
  BY <1>2, BlocksAssumption DEF StatusInv, ReadStatus, Goto, TypeOK, Locked
<1>3. flock = p /\ flock' = p
  BY DEF StatusInv, ReadStatus, Locked
<1>4. rec'[p].seen = file /\ file' = file
  <2>1. rec[p] \in [ok : BOOLEAN, seen : Status]
    BY DEF TypeOK
  <2>. DEFINE new == [rec[p] EXCEPT !.seen = file]
  <2>2. new.seen = file
    BY <2>1
  <2>3. rec' = [rec EXCEPT ![p] = new]
    BY DEF ReadStatus
  <2>. HIDE DEF new
  <2>. QED  BY <2>2, <2>3 DEF ReadStatus, TypeOK, counts
<1>. QED  BY <1>1, <1>2, <1>3, <1>4 DEF StatusInv, Locked

LEMMA ReplaceStatus ==
  ASSUME TypeOK, StatusInv, OutcomesExact, NEW p \in Servers, Replace(p)
  PROVE  /\ StatusInv' /\ OutcomesExact'
         /\ file'.uses = file.uses + 1
<1>1. rec[p].seen = file /\ flock = p /\ flock' = p /\ rec[p].ok \in BOOLEAN /\ file \in Status
  BY DEF StatusInv, Replace, TypeOK, Locked
<1>2. ASSUME NEW i \in Servers, i # p
      PROVE  pc[i] \notin Locked /\ pc'[i] = pc[i]
  BY <1>1, <1>2 DEF StatusInv, Replace, Goto, TypeOK
<1>3. pc'[p] = "replaced"
  BY DEF Replace, Goto, TypeOK
<1>4. StatusInv'
  BY <1>1, <1>2, <1>3 DEF StatusInv, Locked
<1>. DEFINE ok == rec[p].ok
<1>5. file' = Counted(file, ok) /\ landed' = [landed EXCEPT ![ok] = @ + 1]
  BY <1>1 DEF Replace
<1>. HIDE DEF ok
<1>6. ok \in BOOLEAN
  BY <1>1 DEF ok
<1>7. /\ file'.uses = file.uses + 1
      /\ file'.successes = file.successes + (IF ok THEN 1 ELSE 0)
      /\ file'.verified /\ file'.uses >= MinUses => 5 * file'.successes >= 4 * file'.uses
  BY <1>1, <1>5, <1>6, CountedType
<1>. DEFINE good == landed[TRUE]
            bad == landed[FALSE]
            newGood == landed'[TRUE]
            newBad == landed'[FALSE]
<1>8. /\ ok => newGood = good + 1 /\ newBad = bad
      /\ ~ok => newGood = good /\ newBad = bad + 1
  <2>1. landed \in [BOOLEAN -> Nat] /\ TRUE \in BOOLEAN /\ FALSE \in BOOLEAN /\ TRUE # FALSE
    BY Zenon DEF TypeOK
  <2>2. CASE ok
    BY <1>5, <1>6, <2>1, <2>2, Zenon
  <2>3. CASE ~ok
    BY <1>5, <1>6, <2>1, <2>3, Zenon
  <2>. QED  BY <2>2, <2>3
<1>9. good \in Nat /\ bad \in Nat /\ file.uses = good + bad /\ file.successes = good
  BY DEF TypeOK, OutcomesExact
<1>. HIDE DEF good, bad, newGood, newBad
<1>10. file'.uses = newGood + newBad /\ file'.successes = newGood
  <2>1. CASE ok
    BY <1>7, <1>8, <1>9, <2>1
  <2>2. CASE ~ok
    BY <1>7, <1>8, <1>9, <2>2
  <2>. QED  BY <2>1, <2>2
<1>. USE DEF newGood, newBad
<1>. QED  BY <1>4, <1>7, <1>10 DEF OutcomesExact

LEMMA StatusStep ==
  TypeOK /\ StatusInv /\ OutcomesExact /\ [Next]_vars => StatusInv' /\ OutcomesExact'
<1>1. ASSUME StatusInv, OutcomesExact, UNCHANGED <<pc, flock, rec, file, landed>>
      PROVE  StatusInv' /\ OutcomesExact'
  BY <1>1 DEF StatusInv, OutcomesExact
<1>2. ASSUME NEW p \in Servers, TimePasses(p) \/ Saves(p)
      PROVE  UNCHANGED <<pc, flock, rec, file, landed>>
  BY <1>2 DEF TimePasses, Saves, counts
<1>. QED  BY <1>1, <1>2, MostKeepOut, KeepsOutSafely, TakeLockStatus, ReadStatusStatus, ReplaceStatus
          DEF Next, vars

(* skill_status.py, record_outcome: concurrent calls "are serialized by    *)
(* flock": however many processes count, are killed or interrupted, every  *)
(* outcome that reached status.json is in it once, and a skill is verified *)
(* only while its rate is good.                                            *)
THEOREM OutcomesCountedOnce == Spec => []OutcomesExact
<1>1. Init => StatusInv /\ OutcomesExact
  BY BlocksAssumption DEF Init, StatusInv, OutcomesExact, Fresh, Locked
<1>2. Spec => [](StatusInv /\ OutcomesExact)
  BY <1>1, StatusStep, TypeCorrect, PTL DEF Spec
<1>. QED  BY <1>2, PTL
-----------------------------------------------------------------------------
(* The numbers in the log are of calls made so far, and not yet of the one *)
(* under way.                                                              *)
LogInv ==
  \A i \in Servers, n \in 0..MaxCalls :
    <<i, n>> \in log => n <= calls[i] /\ (pc[i] = "skill" => n < calls[i])

(* A step of p that neither logs nor makes a call.                         *)
LogsNothing(p) ==
  /\ calls' = calls /\ log' \subseteq log
  /\ \E to \in PcState : Goto(p, to) /\ (to = "skill" => pc[p] = "skill")

LEMMA LogsNothingSafely ==
  ASSUME TypeOK, LogInv, NEW p \in Servers, LogsNothing(p)
  PROVE  LogInv'
BY DEF LogsNothing, Goto, LogInv, TypeOK

LEMMA MostLogNothing ==
  ASSUME TypeOK, NEW p \in Servers,
         \/ Start(p) \/ TakeLock(p) \/ ReadStatus(p) \/ Replace(p) \/ Recorded(p)
         \/ RecordFails(p) \/ CodeEnds(p) \/ Deadline(p) \/ ClientCancels(p) \/ CleanUp(p)
         \/ ChildTimesOut(p) \/ ChildDies(p) \/ ChildCancelled(p)
         \/ Alarm(p) \/ Finalize(p)
  PROVE  LogsNothing(p)
<1>. USE DEF LogsNothing, Goto, PcState, InCode, Waning, Finalizing, Counting, Unfinished
<1>1. CASE Start(p) \/ TakeLock(p) \/ ReadStatus(p) \/ Replace(p)
  BY <1>1 DEF Start, TakeLock, ReadStatus, Replace
<1>2. CASE Recorded(p) \/ RecordFails(p)
  BY <1>2 DEF Recorded, RecordFails
<1>3. CASE CodeEnds(p)
  BY <1>3 DEF CodeEnds
<1>4. CASE Deadline(p) \/ ClientCancels(p)
  BY <1>4 DEF Deadline, ClientCancels, Interrupted
<1>5. CASE CleanUp(p)
  BY <1>5 DEF CleanUp, CleanedUp
<1>6. CASE ChildTimesOut(p) \/ ChildDies(p) \/ ChildCancelled(p)
  BY <1>6 DEF ChildTimesOut, ChildDies, ChildCancelled, Killed
<1>7. CASE AlarmInCode(p)
  BY <1>7 DEF AlarmInCode, Fires, GoesOn
<1>8. CASE AlarmInSuccess(p)
  BY <1>8 DEF AlarmInSuccess, Fires
<1>9. CASE AlarmAstray(p)
  BY <1>9 DEF AlarmAstray, Fires, GoesOn
<1>10. CASE Finalize(p)
  BY <1>10 DEF Finalize
<1>. QED  BY <1>1, <1>2, <1>3, <1>4, <1>5, <1>6, <1>7, <1>8, <1>9, <1>10 DEF Alarm

LEMMA CallSkillLogs ==
  ASSUME TypeOK, LogInv, NEW p \in Servers, CallSkill(p)
  PROVE  LogInv'
BY BlocksAssumption DEF LogInv, TypeOK, CallSkill, Goto

LEMMA OutcomeLogs ==
  ASSUME TypeOK, LogInv, NEW p \in Servers, NEW ok \in BOOLEAN, Outcome(p, ok)
  PROVE  LogInv' /\ <<p, calls[p]>> \notin log
<1>1. /\ log' = log \cup {<<p, calls[p]>>} /\ pc' = [pc EXCEPT ![p] = "locking"]
      /\ calls' = calls /\ pc[p] = "skill"
  BY DEF Outcome, Goto
<1>2. calls[p] \in 0..MaxCalls
  BY DEF TypeOK
<1>3. <<p, calls[p]>> \notin log
  BY <1>1, <1>2, BlocksAssumption DEF LogInv
<1>4. ASSUME NEW i \in Servers, NEW n \in 0..MaxCalls, <<i, n>> \in log'
      PROVE  n <= calls'[i] /\ (pc'[i] = "skill" => n < calls'[i])
  <2>1. CASE i = p
    BY <1>1, <1>2, <1>4, <2>1, BlocksAssumption DEF LogInv, TypeOK
  <2>2. CASE i # p
    BY <1>1, <1>4, <2>2 DEF LogInv, TypeOK
  <2>. QED  BY <2>1, <2>2
<1>. QED  BY <1>3, <1>4 DEF LogInv

LEMMA LogStep == TypeOK /\ LogInv /\ [Next]_vars => LogInv'
<1>1. ASSUME LogInv, UNCHANGED <<pc, calls, log>>
      PROVE  LogInv'
  BY <1>1 DEF LogInv
<1>2. ASSUME NEW p \in Servers, TimePasses(p) \/ Saves(p)
      PROVE  UNCHANGED <<pc, calls, log>>
  BY <1>2 DEF TimePasses, Saves
<1>. QED  BY <1>1, <1>2, MostLogNothing, LogsNothingSafely, CallSkillLogs, OutcomeLogs DEF Next, vars
-----------------------------------------------------------------------------
LEMMA UnderWayStep ==
  ASSUME TypeOK, NEW p \in Servers, NEW to \in PcState, pc' = [pc EXCEPT ![p] = to]
  PROVE  /\ Cardinality(UnderWay) \in Nat
         /\ to \in Unfinished <=> pc[p] \in Unfinished => UnderWay' = UnderWay
         /\ to \in Unfinished /\ pc[p] \notin Unfinished
              => Cardinality(UnderWay') = Cardinality(UnderWay) + 1
         /\ to \notin Unfinished /\ pc[p] \in Unfinished
              => Cardinality(UnderWay') = Cardinality(UnderWay) - 1
<1>1. UnderWay \subseteq Servers
  BY DEF UnderWay
<1>2. IsFiniteSet(UnderWay)
  BY <1>1, FS_Subset, BlocksAssumption
<1>3. Cardinality(UnderWay) \in Nat
  BY <1>2, FS_CardinalityType
<1>4. UnderWay' = {i \in Servers : pc'[i] \in Unfinished}
  BY DEF UnderWay
<1>5. /\ to \in Unfinished => UnderWay' = UnderWay \cup {p}
      /\ to \notin Unfinished => UnderWay' = UnderWay \ {p}
  BY <1>4 DEF UnderWay, TypeOK
<1>6. p \in UnderWay <=> pc[p] \in Unfinished
  BY DEF UnderWay
<1>7. to \in Unfinished <=> pc[p] \in Unfinished => UnderWay' = UnderWay
  BY <1>5, <1>6
<1>8. /\ p \notin UnderWay => Cardinality(UnderWay \cup {p}) = Cardinality(UnderWay) + 1
      /\ p \in UnderWay => Cardinality(UnderWay \ {p}) = Cardinality(UnderWay) - 1
  BY <1>2, FS_AddElement, FS_RemoveElement
<1>. QED  BY <1>3, <1>5, <1>6, <1>7, <1>8

(* The balance, with the events to be drained and those out of reach       *)
(* together.                                                               *)
Balanced ==
  events + Cardinality(log) + missed = file.uses + (Cardinality(UnderWay) + uncounted)

LEMMA Numbers ==
  ASSUME TypeOK
  PROVE  /\ events \in Nat /\ missed \in Nat /\ uncounted \in Nat /\ file.uses \in Nat
         /\ Cardinality(log) \in Nat /\ Cardinality(UnderWay) \in Nat
         /\ EventsAreOutcomes <=> Balanced
<1>1. /\ events \in Nat /\ missed \in Nat /\ uncounted \in Nat /\ file.uses \in Nat
  BY DEF TypeOK, Status
<1>2. Cardinality(UnderWay) \in Nat
  <2>1. IsFiniteSet(UnderWay)
    BY FS_Subset, BlocksAssumption DEF UnderWay
  <2>. QED  BY <2>1, FS_CardinalityType
<1>3. /\ Cardinality(log) \in Nat /\ Cardinality(adrift) \in Nat
      /\ Cardinality(log \ adrift) = Cardinality(log) - Cardinality(adrift)
  BY LogIsFinite DEF TypeOK
<1>. QED  BY <1>1, <1>2, <1>3 DEF EventsAreOutcomes, Balanced

(* A step that only moves events, and calls that are being counted to the  *)
(* uncounted ones.                                                         *)
KeepsEvents == events' + Cardinality(log') + missed' = events + Cardinality(log) + missed
KeepsCounts ==
  Cardinality(UnderWay') + uncounted' = Cardinality(UnderWay) + uncounted /\ file' = file

LEMMA BalanceKept == Balanced /\ KeepsEvents /\ KeepsCounts => Balanced'
BY DEF Balanced, KeepsEvents, KeepsCounts

LEMMA CountStays ==
  ASSUME TypeOK, NEW p \in Servers, NEW to \in PcState, Goto(p, to),
         to \in Unfinished <=> pc[p] \in Unfinished, UNCHANGED <<file, uncounted>>
  PROVE  KeepsCounts
BY UnderWayStep DEF Goto, KeepsCounts

LEMMA CountLost ==
  ASSUME TypeOK, NEW p \in Servers, NEW to \in PcState \ Unfinished, Goto(p, to),
         LosesCount(p), UNCHANGED file
  PROVE  KeepsCounts
<1>1. uncounted \in Nat
  BY Numbers
<1>2. CASE pc[p] \in Unfinished
  <2>1. uncounted' = uncounted + 1
    BY <1>2 DEF LosesCount
  <2>2. Cardinality(UnderWay') = Cardinality(UnderWay) - 1 /\ Cardinality(UnderWay) \in Nat
    BY <1>2, UnderWayStep DEF Goto
  <2>. QED  BY <1>1, <2>1, <2>2 DEF KeepsCounts
<1>3. CASE pc[p] \notin Unfinished
  BY <1>3, CountStays DEF LosesCount
<1>. QED  BY <1>2, <1>3

LEMMA MostKeepTheBalance ==
  ASSUME TypeOK, NEW p \in Servers,
         \/ Start(p) \/ CallSkill(p) \/ TakeLock(p) \/ ReadStatus(p) \/ Recorded(p)
         \/ CodeEnds(p) \/ Deadline(p) \/ ClientCancels(p) \/ CleanUp(p)
  PROVE  KeepsEvents /\ KeepsCounts
<1>1. /\ UNCHANGED <<file, events, log, missed, uncounted>>
      /\ \E to \in PcState : Goto(p, to) /\ (to \in Unfinished <=> pc[p] \in Unfinished)
  <2>. USE DEF Goto, counts, PcState, InCode, Waning, Finalizing, Counting, Unfinished
  <2>1. CASE Start(p) \/ CallSkill(p) \/ TakeLock(p) \/ ReadStatus(p)
    BY <2>1 DEF Start, CallSkill, TakeLock, ReadStatus
  <2>2. CASE Recorded(p)
    BY <2>2 DEF Recorded
  <2>3. CASE CodeEnds(p)
    BY <2>3 DEF CodeEnds
  <2>4. CASE Deadline(p) \/ ClientCancels(p)
    BY <2>4 DEF Deadline, ClientCancels, Interrupted
  <2>5. CASE CleanUp(p)
    BY <2>5 DEF CleanUp, CleanedUp
  <2>. QED  BY <2>1, <2>2, <2>3, <2>4, <2>5
<1>. QED  BY <1>1, CountStays DEF KeepsEvents

LEMMA OutcomeBalance ==
  ASSUME TypeOK, LogInv, Balanced, NEW p \in Servers, NEW ok \in BOOLEAN, Outcome(p, ok)
  PROVE  Balanced'
<1>1. Cardinality(log') = Cardinality(log) + 1
  BY OutcomeLogs, LogIsFinite, FS_AddElement DEF Outcome
<1>2. "locking" \in PcState \cap Unfinished /\ pc[p] \notin Unfinished
  BY DEF Outcome, PcState, Counting, Unfinished
<1>3. Cardinality(UnderWay') = Cardinality(UnderWay) + 1
  BY <1>2, UnderWayStep DEF Outcome, Goto
<1>4. UNCHANGED <<events, file, missed, uncounted>>
  BY DEF Outcome, counts
<1>5. /\ events \in Nat /\ missed \in Nat /\ uncounted \in Nat /\ file.uses \in Nat
      /\ Cardinality(log) \in Nat /\ Cardinality(UnderWay) \in Nat
  BY Numbers
<1>. QED  BY <1>1, <1>3, <1>4, <1>5 DEF Balanced

LEMMA ReplaceBalance ==
  ASSUME TypeOK, StatusInv, OutcomesExact, Balanced, NEW p \in Servers, Replace(p)
  PROVE  Balanced'
<1>1. file'.uses = file.uses + 1
  BY ReplaceStatus
<1>2. "replaced" \in PcState \ Unfinished /\ pc[p] \in Unfinished
  BY DEF Replace, PcState, Counting, Unfinished
<1>3. Cardinality(UnderWay') = Cardinality(UnderWay) - 1
  BY <1>2, UnderWayStep DEF Replace, Goto
<1>4. UNCHANGED <<events, log, missed, uncounted>>
  BY DEF Replace
<1>. QED  BY <1>1, <1>3, <1>4, Numbers DEF Balanced

LEMMA RecordFailsBalance ==
  ASSUME TypeOK, NEW p \in Servers, RecordFails(p)
  PROVE  KeepsEvents /\ KeepsCounts
<1>1. \E to \in PcState \ Unfinished : Goto(p, to)
  BY DEF RecordFails, PcState, InCode, Finalizing, Unfinished
<1>2. LosesCount(p) /\ UNCHANGED <<file, events, log, missed>>
  BY DEF RecordFails
<1>. QED  BY <1>1, <1>2, CountLost DEF KeepsEvents

LEMMA KilledBalance ==
  ASSUME TypeOK, NEW p \in Servers, ChildTimesOut(p) \/ ChildDies(p) \/ ChildCancelled(p)
  PROVE  KeepsEvents /\ KeepsCounts
<1>1. PICK to \in {"failure", "idle"} : Killed(p, to)
  BY DEF ChildTimesOut, ChildDies, ChildCancelled
<1>2. KeepsCounts
  <2>1. to \in PcState \ Unfinished
    BY DEF PcState, Finalizing, Unfinished
  <2>. QED  BY <1>1, <2>1, CountLost DEF Killed
<1>3. KeepsEvents
  <2>1. /\ log' = log \ Logged(p) /\ events' = events
        /\ missed' = missed + Cardinality(Logged(p))
    BY <1>1 DEF Killed
  <2>2. Cardinality(Logged(p)) \in Nat
        /\ Cardinality(log') = Cardinality(log) - Cardinality(Logged(p))
    BY <2>1, LogIsFinite
  <2>. QED  BY <2>1, <2>2, Numbers DEF KeepsEvents
<1>. QED  BY <1>2, <1>3

LEMMA AlarmBalance ==
  ASSUME TypeOK, NEW p \in Servers, Alarm(p)
  PROVE  KeepsEvents /\ KeepsCounts
<1>0. UNCHANGED file
  BY DEF Alarm, AlarmInCode, AlarmInSuccess, AlarmAstray, Fires
<1>1. CASE AlarmInCode(p)
  <2>1. \E to \in PcState \ Unfinished : Goto(p, to)
    BY <1>1 DEF AlarmInCode, GoesOn, PcState, InCode, Waning, Finalizing, Unfinished
  <2>2. LosesCount(p) /\ UNCHANGED <<events, log, missed>>
    BY <1>1 DEF AlarmInCode
  <2>. QED  BY <1>0, <2>1, <2>2, CountLost DEF KeepsEvents
<1>2. CASE AlarmInSuccess(p)
  <2>1. KeepsCounts
    BY <1>0, <1>2, CountStays DEF AlarmInSuccess, PcState, Finalizing, Unfinished
  <2>2. KeepsEvents
    <3>1. ASSUME NEW n \in 0..Cardinality(Drained(p)), log' = log \ Drained(p),
                 events' = events + n, missed' = missed + (Cardinality(Drained(p)) - n)
          PROVE  KeepsEvents
      <4>1. Cardinality(Drained(p)) \in Nat
            /\ Cardinality(log') = Cardinality(log) - Cardinality(Drained(p))
        BY <3>1, LogIsFinite
      <4>. QED  BY <3>1, <4>1, Numbers DEF KeepsEvents
    <3>2. CASE UNCHANGED <<log, events, missed>>
      BY <3>2 DEF KeepsEvents
    <3>. QED  BY <1>2, <3>1, <3>2 DEF AlarmInSuccess
  <2>. QED  BY <2>1, <2>2
<1>3. CASE AlarmAstray(p)
  <2>1. /\ UNCHANGED <<events, uncounted>> /\ pc[p] \notin Unfinished
        /\ \E to \in PcState \ Unfinished : Goto(p, to)
    BY <1>3 DEF AlarmAstray, GoesOn, PcState, InCode, Waning, Finalizing, Unfinished
  <2>2. KeepsCounts
    BY <1>0, <2>1, CountStays
  <2>3. \/ UNCHANGED <<log, missed>>
        \/ log' = log \ Logged(p) /\ missed' = missed + Cardinality(Logged(p))
    BY <1>3 DEF AlarmAstray
  <2>4. Cardinality(Logged(p)) \in Nat
        /\ Cardinality(log \ Logged(p)) = Cardinality(log) - Cardinality(Logged(p))
    BY LogIsFinite
  <2>5. KeepsEvents
    <3>1. CASE UNCHANGED <<log, missed>>
      BY <2>1, <3>1 DEF KeepsEvents
    <3>2. CASE log' = log \ Logged(p) /\ missed' = missed + Cardinality(Logged(p))
      <4>1. events \in Nat /\ missed \in Nat /\ Cardinality(log) \in Nat
        BY Numbers
      <4>. QED  BY <2>1, <2>4, <3>2, <4>1 DEF KeepsEvents
    <3>. QED  BY <2>3, <3>1, <3>2
  <2>. QED  BY <2>2, <2>5
<1>. QED  BY <1>1, <1>2, <1>3 DEF Alarm

LEMMA FinalizeBalance ==
  ASSUME TypeOK, NEW p \in Servers, Finalize(p)
  PROVE  KeepsEvents /\ KeepsCounts
<1>1. KeepsCounts
  BY CountStays DEF Finalize, Finalizing, PcState, Unfinished
<1>2. /\ log' = log \ Drained(p) /\ missed' = missed
      /\ events' = events + Cardinality(Drained(p))
  BY DEF Finalize
<1>3. Cardinality(Drained(p)) \in Nat
      /\ Cardinality(log') = Cardinality(log) - Cardinality(Drained(p))
  BY <1>2, LogIsFinite
<1>4. KeepsEvents
  BY <1>2, <1>3, Numbers DEF KeepsEvents
<1>. QED  BY <1>1, <1>4

LEMMA EventsStep ==
  /\ TypeOK /\ StatusInv /\ OutcomesExact /\ LogInv /\ Balanced
  /\ [Next]_vars
  => Balanced'
<1>1. ASSUME Balanced, UNCHANGED <<pc, file, log, events, missed, uncounted>>
      PROVE  Balanced'
  BY <1>1 DEF Balanced, UnderWay
<1>2. ASSUME NEW p \in Servers, TimePasses(p) \/ Saves(p)
      PROVE  UNCHANGED <<pc, file, log, events, missed, uncounted>>
  BY <1>2 DEF TimePasses, Saves, counts
<1>. QED  BY <1>1, <1>2, BalanceKept, MostKeepTheBalance, OutcomeBalance, ReplaceBalance,
             RecordFailsBalance, KilledBalance, AlarmBalance, FinalizeBalance DEF Next, vars

(* skills.py, _with_outcome: "the same outcome is appended to call_log":   *)
(* an event for every call status.json counts and a count for every event, *)
(* but for the calls still being counted, the events that were dropped and *)
(* the counts that a failed or broken recording did not make; those in the *)
(* log of a skill set that a save replaced are out of reach.               *)
THEOREM EventsMatchTheCounts == Spec => []EventsAreOutcomes
<1>. DEFINE Inv == StatusInv /\ OutcomesExact /\ LogInv /\ Balanced
<1>1. Init => Inv
  <2>1. Init => StatusInv /\ OutcomesExact /\ LogInv
    BY BlocksAssumption DEF Init, StatusInv, OutcomesExact, Fresh, Locked, LogInv
  <2>2. Init => UnderWay = {} /\ log = {} /\ events = 0 /\ missed = 0 /\ uncounted = 0
                /\ file.uses = 0
    BY DEF Init, UnderWay, Unfinished, Fresh
  <2>3. Cardinality({}) = 0
    BY FS_EmptySet
  <2>. QED  BY <2>1, <2>2, <2>3 DEF Balanced
<1>2. TypeOK /\ Inv /\ [Next]_vars => Inv'
  BY StatusStep, LogStep, EventsStep
<1>3. Spec => []Inv
  BY <1>1, <1>2, TypeCorrect, PTL DEF Spec
<1>4. TypeOK /\ Inv => EventsAreOutcomes
  BY Numbers
<1>. QED  BY <1>3, <1>4, TypeCorrect, PTL
=============================================================================
