------------------------------ MODULE Sessions ------------------------------
(* The sessions of CodeExecutor (executor.py): their variables, their      *)
(* saved outputs in the workspace, TTL and LRU eviction, under the lock    *)
(* that serializes execute_code, across restarts of the process.           *)
(*                                                                         *)
(* What a block does to its namespace is any function from names to        *)
(* values; calls without a session_id hold the lock and do nothing else,   *)
(* which any run of another session does as well.                          *)
EXTENDS Naturals, Sequences, FiniteSets

CONSTANTS
  Sids,         \* session ids
  Names,        \* variables of a session
  Values,       \* values a pickle carries
  LiveValues,   \* values it does not: functions, proxies, generators
  Unbound,      \* the name is not bound
  Gone,         \* no session in _sessions
  NoRun,        \* the lock is free
  TTL,          \* SESSION_TTL
  MaxSessions,  \* MAX_SESSIONS
  MaxBlocks,    \* bound: blocks of a session
  MaxBorn,      \* bound: sessions created under an id
  MaxTime,      \* bound: the clock
  MaxQueue,     \* bound: calls that wait for the lock
  MaxRestarts   \* bound: restarts of the process

Namespaces == [Names -> Values \cup LiveValues \cup {Unbound}]
Empty == [n \in Names |-> Unbound]
Blocks == 1..MaxBlocks
SessionType == [vars : Namespaces, last : Nat, blocks : Blocks]

ASSUME SessionsAssumption ==
  /\ Unbound \notin Values \cup LiveValues
  /\ Values \cap LiveValues = {}
  /\ NoRun \notin Sids /\ Gone \notin SessionType
  /\ TTL \in Nat /\ MaxSessions \in Nat \ {0}
  /\ MaxBlocks \in Nat \ {0} /\ MaxBorn \in Nat /\ MaxTime \in Nat
  /\ MaxQueue \in Nat /\ MaxRestarts \in Nat

VARIABLES
  inProcess, \* CODE_RUNNER_ISOLATION=inprocess
  now,       \* time.monotonic()
  sessions,  \* _sessions: user_vars, last_access, blocks
  waiting,   \* calls queued on _exec_lock, first come first served
  run,       \* the session whose run holds it
  files,     \* files[s][b]: which session of that id wrote out_<b>.txt, 0 none
  born,      \* history: sessions created under an id so far
  left,      \* history: namespace the session's last successful block left
  restarts

vars == <<inProcess, now, sessions, waiting, run, files, born, left, restarts>>

Present == {s \in Sids : sessions[s] # Gone}

(* The types; a run has a session to store its variables in, which         *)
(* `self._sessions[session_id]` takes for granted, whatever was evicted,   *)
(* and there are at most MAX_SESSIONS, the one that just joined included.  *)
TypeOK ==
  /\ inProcess \in BOOLEAN
  /\ now \in 0..MaxTime
  /\ sessions \in [Sids -> SessionType \cup {Gone}]
  /\ waiting \in Seq(Sids)
  /\ run \in Sids \cup {NoRun}
  /\ files \in [Sids -> [Blocks -> 0..MaxBorn]]
  /\ born \in [Sids -> 0..MaxBorn]
  /\ left \in [Sids -> Namespaces]
  /\ restarts \in 0..MaxRestarts
  /\ run # NoRun => sessions[run] # Gone
  /\ Cardinality(Present) <= MaxSessions
-----------------------------------------------------------------------------
(* _evict_expired_sessions *)
Expired == {s \in Present : now - sessions[s].last > TTL}
Kept == Present \ Expired

(* _evict_lru_if_over_capacity: nothing, or the least recently used ones   *)
(* when a session is about to join the kept ones.                          *)
Surplus(s) ==
  IF Cardinality(Kept \cup {s}) > MaxSessions
  THEN Cardinality(Kept \cup {s}) - MaxSessions ELSE 0

(* Mutant of LruVictims: the cap is one too high. *)
Surplussed(s) ==
  IF Cardinality(Kept \cup {s}) > MaxSessions + 1
  THEN Cardinality(Kept \cup {s}) - MaxSessions ELSE 0
LateVictims(s) ==
  {v \in SUBSET (Kept \ {s}) :
     /\ Cardinality(v) = Surplussed(s)
     /\ \A x \in v, y \in Kept \ v : sessions[x].last <= sessions[y].last}

(* Mutant of LruVictims: the most recent go first. *)
MostRecent(s) ==
  {v \in SUBSET (Kept \ {s}) :
     /\ Cardinality(v) = Surplus(s)
     /\ \A x \in v, y \in Kept \ v : sessions[x].last >= sessions[y].last}

LruVictims(s) ==
  {v \in SUBSET (Kept \ {s}) :
     /\ Cardinality(v) = Surplus(s)
     /\ \A x \in v, y \in Kept \ v : sessions[x].last <= sessions[y].last}

(* What _extract_picklable_vars or _extract_user_vars carries over.        *)
Carried(ns) ==
  [n \in Names |-> IF inProcess \/ ns[n] \in Values THEN ns[n] ELSE Unbound]

Bound(ns) == {n \in Names : ns[n] # Unbound}

NoFiles == [b \in Blocks |-> 0]
-----------------------------------------------------------------------------
Init ==
  /\ inProcess \in BOOLEAN
  /\ now = 0
  /\ sessions = [s \in Sids |-> Gone]
  /\ waiting = <<>>
  /\ run = NoRun
  /\ files = [s \in Sids |-> NoFiles]
  /\ born = [s \in Sids |-> 0]
  /\ left = [s \in Sids |-> Empty]
  /\ restarts = 0

Tick ==
  /\ now < MaxTime
  /\ now' = now + 1
  /\ UNCHANGED <<inProcess, sessions, waiting, run, files, born, left, restarts>>

(* execute(): a call reaches `async with self._exec_lock`.                 *)
Arrive(s) ==
  /\ Len(waiting) < MaxQueue
  /\ waiting' = Append(waiting, s)
  /\ UNCHANGED <<inProcess, now, sessions, run, files, born, left, restarts>>

(* The client gives up while its call waits.                               *)
GiveUp(i) ==
  /\ waiting' = SubSeq(waiting, 1, i - 1) \o SubSeq(waiting, i + 1, Len(waiting))
  /\ UNCHANGED <<inProcess, now, sessions, run, files, born, left, restarts>>

(* _get_or_create_session, and the namespace of the run. Nothing awaits    *)
(* between this and the later _get_or_create_session calls of the run.     *)
Entered(s) ==
  IF s \in Kept THEN [sessions[s] EXCEPT !.last = now, !.blocks = @ + 1]
  ELSE [vars |-> Empty, last |-> now, blocks |-> 1]

EvictsFirst(s, out) == [x \in Sids |->
  IF x = s THEN Entered(s) ELSE IF x \in out THEN Gone ELSE sessions[x]]

(* Mutant of Start: eviction forgets the workspace. *)
StartKeepingFiles ==
  /\ run = NoRun /\ waiting # <<>>
  /\ LET s == Head(waiting) IN
       /\ IF s \in Kept THEN sessions[s].blocks < MaxBlocks ELSE born[s] < MaxBorn
       /\ run' = s
       /\ \E lru \in LruVictims(s) : sessions' = EvictsFirst(s, Expired \cup lru)
       /\ born' = IF s \in Kept THEN born ELSE [born EXCEPT ![s] = @ + 1]
       /\ left' = [x \in Sids |->
            IF sessions'[x] = Gone \/ born'[x] # born[x] THEN Empty ELSE left[x]]
  /\ waiting' = Tail(waiting)
  /\ UNCHANGED <<inProcess, now, files, restarts>>

Start ==
  /\ run = NoRun /\ waiting # <<>>
  /\ LET s == Head(waiting) IN
       /\ IF s \in Kept THEN sessions[s].blocks < MaxBlocks ELSE born[s] < MaxBorn
       /\ run' = s
       /\ \E lru \in LruVictims(s) :
            /\ sessions' = EvictsFirst(s, Expired \cup lru)
            /\ files' = [x \in Sids |->
                 IF x \in Expired \cup lru THEN NoFiles ELSE files[x]]
       /\ born' = IF s \in Kept THEN born ELSE [born EXCEPT ![s] = @ + 1]
       /\ left' = [x \in Sids |->
            IF sessions'[x] = Gone \/ born'[x] # born[x] THEN Empty ELSE left[x]]
  /\ waiting' = Tail(waiting)
  /\ UNCHANGED <<inProcess, now, restarts>>
-----------------------------------------------------------------------------
(* finalize(): an output over max_output_bytes is kept in the workspace.   *)
SavesOutput ==
  files' = [files EXCEPT ![run][sessions[run].blocks] = born[run]]

(* Mutant of Stores: new variables are merged into the old ones. *)
StoresOverOld(ns) ==
  sessions' = [sessions EXCEPT ![run].last = now,
    ![run].vars = [n \in Names |-> IF ns[n] \in Values THEN ns[n] ELSE @[n]]]

(* A block ends well with the namespace ns, even if the alarm has it       *)
(* reported as timed out after that (Blocks). The child's pickle is None   *)
(* when it has nothing to carry, and the parent then keeps what it had.    *)
Stores(ns) ==
  IF ~inProcess /\ Carried(ns) = Empty
  THEN UNCHANGED sessions
  ELSE sessions' = [sessions EXCEPT ![run].vars = Carried(ns), ![run].last = now]

Succeed(ns) ==
  /\ run # NoRun
  /\ Stores(ns)
  /\ SavesOutput \/ UNCHANGED files
  /\ left' = [left EXCEPT ![run] = ns]
  /\ run' = NoRun
  /\ UNCHANGED <<inProcess, now, waiting, born, restarts>>

(* A block that raises or times out stores nothing; in-process it works on *)
(* the session's own objects and may have changed one in place.            *)
Spoils ==
  \/ UNCHANGED sessions
  \/ /\ inProcess
     /\ \E n \in Bound(sessions[run].vars), v \in Values :
          sessions' = [sessions EXCEPT ![run].vars[n] = v]

Fail ==
  /\ run # NoRun
  /\ Spoils
  /\ SavesOutput \/ UNCHANGED files
  /\ run' = NoRun
  /\ UNCHANGED <<inProcess, now, waiting, born, left, restarts>>

(* The client cancels the run: finalize() is never reached.                *)
Cancelled ==
  /\ run # NoRun
  /\ Spoils
  /\ run' = NoRun
  /\ UNCHANGED <<inProcess, now, waiting, files, born, left, restarts>>

(* The process is stopped and started; the workspace stays on disk.        *)
Restart ==
  /\ restarts < MaxRestarts
  /\ restarts' = restarts + 1
  /\ sessions' = [s \in Sids |-> Gone]
  /\ waiting' = <<>>
  /\ run' = NoRun
  /\ left' = [s \in Sids |-> Empty]
  /\ UNCHANGED <<inProcess, now, files, born>>
-----------------------------------------------------------------------------
Next ==
  \/ Tick
  \/ \E s \in Sids : Arrive(s)
  \/ \E i \in 1..Len(waiting) : GiveUp(i)
  \/ Start
  \/ \E ns \in Namespaces : Succeed(ns)
  \/ Fail
  \/ Cancelled
  \/ Restart

Spec == Init /\ [][Next]_vars
-----------------------------------------------------------------------------
(* A session goes only when its TTL is over, counted from the start of its *)
(* last run or its last stored variables, or when one more joins and every *)
(* session that stays was used later.                                      *)
EvictsExpiredOrLeastRecent ==
  [][restarts' = restarts =>
       \A s \in Present :
         sessions'[s] = Gone \/ born'[s] # born[s] =>
           \/ now - sessions[s].last > TTL
           \/ /\ Cardinality({x \in Sids : sessions'[x] # Gone}) = MaxSessions
              /\ \A x \in Present : sessions'[x] # Gone => sessions[s].last <= sessions[x].last]_vars

(* restore(id) in a session reads what that session's block printed, never *)
(* the output of an earlier session of the same id: eviction clears the    *)
(* workspace before the id can be used again.  A restart forgets the block *)
(* numbers and keeps the files, and ends this guarantee.                   *)
OwnOutputs ==
  restarts = 0 => \A s \in Present : \A b \in Blocks : files[s][b] \in {0, born[s]}

(* server.py, session_id: "user-defined variables (assignments) persist    *)
(* between them": a run finds what the last successful block left, less    *)
(* what cannot be carried, whenever that block left anything to carry. (If *)
(* it left nothing, a child sends None and the earlier variables stay.) A  *)
(* block whose code raises, is timed out, cancelled or killed leaves no    *)
(* trace; in-process it can change an object, but bind no name.            *)
VarsPersistIfAny ==
  \A s \in Present : inProcess \/ Carried(left[s]) # Empty =>
    \/ sessions[s].vars = Carried(left[s])
    \/ inProcess /\ Bound(sessions[s].vars) = Bound(left[s])
==============================================================================
