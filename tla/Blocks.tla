------------------------------- MODULE Blocks -------------------------------
(***************************************************************************)
(* A block from the moment it has the execution lock to its result, with   *)
(* the two timers that may end it: the deadline (asyncio.timeout, or the   *)
(* parent's wait_for around a child) and, in-process, SIGALRM half a       *)
(* second later (executor.py: execute, _arm_sandbox_alarm); and what its   *)
(* skill calls leave behind: events for the metrics (skills.py:            *)
(* _with_outcome) and counters in status.json, which every server process  *)
(* and every isolation child on this machine updates (skill_status.py).    *)
(* In-process the events lie in the log of the skill set that was called,  *)
(* and only the set the server has at the end of a block is drained        *)
(* (skills.py: drain_calls): a save puts another in its place.             *)
(*                                                                         *)
(* A deadline needs the event loop; the alarm interrupts whatever Python   *)
(* runs in the main thread, our own code included.                         *)
(***************************************************************************)
EXTENDS Integers, FiniteSets

CONSTANTS
  Servers,    \* server processes, each runs one block at a time
  Modes,      \* which of them may run their code in-process
  NoOne,      \* the lock file is free
  MinUses,    \* MIN_USES_FOR_DEMOTION
  MaxBlocks,  \* bound: blocks of a server
  MaxCalls    \* bound: skill calls of a server

ASSUME BlocksAssumption ==
  /\ IsFiniteSet(Servers) /\ NoOne \notin Servers /\ Modes \subseteq SUBSET Servers
  /\ MinUses \in Nat \ {0} /\ MaxBlocks \in Nat /\ MaxCalls \in Nat

VARIABLES
  inProcess, \* servers with CODE_RUNNER_ISOLATION=inprocess
  pc,        \* pc[p]: where the block of p is
  time,      \* time[p]: 0, 1 past the deadline, 2 past the alarm's time too
  armed,     \* servers whose SIGALRM timer runs
  rec,       \* rec[p]: the call p records: did it end well, status.json as read
  file,      \* status.json of the skill
  flock,     \* who holds status.json.lock
  log,       \* the calls, <<server, number>>, with an event not yet drained (of
             \* the child, if there is one)
  adrift,    \* those of them in the log of a set that is no longer the server's
  behind,    \* servers whose set is not the one that their block began with
  stale,     \* servers whose session variables may hold functions of such a set
  events,    \* events given to the recorder of the metrics, which may lose one (Metrics)
  blocks, calls,
  landed,    \* history: outcomes that reached status.json, by how the call ended
  missed,    \* history: events that were dropped on the way to the metrics
  uncounted, \* history: logged calls that status.json did not get
  spent      \* history: servers whose block goes on though its alarm has fired

vars == <<inProcess, pc, time, armed, rec, file, flock, log, adrift, behind, stale,
          events, blocks, calls, landed, missed, uncounted, spent>>
timers == <<time, armed>>
sets == <<adrift, behind, stale>>
counts == <<file, events, landed, missed, uncounted>>

Unfinished == {"locking",  \* event logged: await the lock file
               "locked",   \* before path.read_text
               "writing"}  \* the temporary file exists
Counting == Unfinished \cup {"replaced"}  \* os.replace has returned, inside the try
InCode == {"code", "skill"}   \* between skill calls, or in one
Waning == {"cleanup",     \* the deadline cancelled the code, which still awaits
           "leaving"}     \* the client did
Finalizing == {"success", "failure"}
PcState == {"idle", "down"} \cup InCode \cup Counting \cup Waning \cup Finalizing

Status == [verified : BOOLEAN, uses : Nat, successes : Nat]

(* The types; the lock file is held by whoever is between taking it and    *)
(* leaving, and a timer runs only for the block it was armed for.          *)
TypeOK ==
  /\ inProcess \subseteq Servers
  /\ pc \in [Servers -> PcState]
  /\ time \in [Servers -> 0..2]
  /\ armed \subseteq inProcess
  /\ rec \in [Servers -> [ok : BOOLEAN, seen : Status]] /\ file \in Status
  /\ flock \in Servers \cup {NoOne}
  /\ log \subseteq Servers \X (0..MaxCalls) /\ events \in Nat
  /\ adrift \subseteq log /\ (\A c \in adrift : c[1] \in inProcess)
  /\ behind \subseteq inProcess /\ stale \subseteq inProcess
  /\ blocks \in [Servers -> 0..MaxBlocks] /\ calls \in [Servers -> 0..MaxCalls]
  /\ landed \in [BOOLEAN -> Nat] /\ missed \in Nat /\ uncounted \in Nat
  /\ spent \subseteq inProcess

Fresh == [verified |-> TRUE, uses |-> 0, successes |-> 0]
NoCall == [ok |-> TRUE, seen |-> Fresh]

Init ==
  /\ inProcess \in Modes
  /\ pc = [p \in Servers |-> "idle"]
  /\ time = [p \in Servers |-> 0] /\ armed = {}
  /\ rec = [p \in Servers |-> NoCall]
  /\ file = Fresh /\ flock = NoOne
  /\ log = {} /\ adrift = {} /\ behind = {} /\ stale = {} /\ events = 0
  /\ blocks = [p \in Servers |-> 0] /\ calls = [p \in Servers |-> 0]
  /\ landed = [b \in BOOLEAN |-> 0] /\ missed = 0 /\ uncounted = 0 /\ spent = {}

Logged(p) == {c \in log : c[1] = p}

(* What drain_calls of the server's set, or the child's report, gives.     *)
Drained(p) == Logged(p) \ adrift

Goto(p, to) == pc' = [pc EXCEPT ![p] = to]

(* record_outcome returns, raises or is killed.                            *)
LeavesRecord(p) ==
  /\ flock' = IF flock = p THEN NoOne ELSE flock
  /\ rec' = [rec EXCEPT ![p] = NoCall]

(* ... before it is done: the call has an event and no count.              *)
LosesCount(p) ==
  /\ LeavesRecord(p)
  /\ uncounted' = IF pc[p] \in Unfinished THEN uncounted + 1 ELSE uncounted
-----------------------------------------------------------------------------
(* execute() has the execution lock; only an in-process run arms the alarm.*)
Start(p) ==
  /\ pc[p] = "idle" /\ blocks[p] < MaxBlocks
  /\ Goto(p, "code")
  /\ blocks' = [blocks EXCEPT ![p] = @ + 1]
  /\ time' = [time EXCEPT ![p] = 0]
  /\ armed' = armed \cup ({p} \cap inProcess)
  /\ behind' = behind \ {p} /\ spent' = spent \ {p}
  /\ UNCHANGED <<inProcess, rec, flock, log, adrift, stale, calls, counts>>

TimePasses(p) ==
  /\ pc[p] \notin {"idle", "down"} /\ time[p] < 2
  /\ time' = [time EXCEPT ![p] = @ + 1]
  /\ UNCHANGED <<inProcess, pc, armed, rec, flock, log, sets, blocks, calls, spent, counts>>

(* save_skill, without the execution lock, while the block awaits or none  *)
(* runs: the server has another set. A child has its own.                  *)
Saves(p) ==
  /\ p \in inProcess /\ pc[p] \in {"idle"} \cup InCode \cup Waning
  /\ behind' = behind \cup {p}
  /\ stale' = IF blocks[p] > 0 THEN stale \cup {p} ELSE stale
  /\ adrift' = adrift \cup Logged(p)
  /\ UNCHANGED <<inProcess, pc, timers, rec, flock, log, blocks, calls, spent, counts>>

CallSkill(p) ==
  /\ pc[p] = "code" /\ calls[p] < MaxCalls
  /\ Goto(p, "skill")
  /\ calls' = [calls EXCEPT ![p] = @ + 1]
  /\ UNCHANGED <<inProcess, timers, rec, flock, log, sets, blocks, spent, counts>>

(* outcome(): the event first, then record_outcome.  Only `Exception` gets *)
(* here: a call that is cancelled, or hit by the alarm, counts for nothing.*)
(* The function may be of a set that was replaced, since the block began   *)
(* or, if a variable of the session holds it, before.                      *)
Outcome(p, ok) ==
  /\ pc[p] = "skill"
  /\ Goto(p, "locking")
  /\ rec' = [rec EXCEPT ![p].ok = ok]
  /\ log' = log \cup {<<p, calls[p]>>}
  /\ \/ p \notin behind /\ UNCHANGED adrift
     \/ p \in stale /\ adrift' = adrift \cup {<<p, calls[p]>>}
  /\ UNCHANGED <<inProcess, timers, flock, behind, stale, blocks, calls, spent, counts>>

(* Mutant of TakeLock: the lock is on status.json itself, and os.replace   *)
(* gives the next writer another file to lock.                             *)
LocksTheFile(p) ==
  /\ pc[p] = "locking"
  /\ Goto(p, "locked") /\ flock' = p
  /\ UNCHANGED <<inProcess, timers, rec, log, sets, blocks, calls, spent, counts>>

(* flock on status.json.lock, which nobody replaces.                       *)
TakeLock(p) ==
  /\ pc[p] = "locking" /\ flock = NoOne
  /\ Goto(p, "locked") /\ flock' = p
  /\ UNCHANGED <<inProcess, timers, rec, log, sets, blocks, calls, spent, counts>>

ReadStatus(p) ==
  /\ pc[p] = "locked"
  /\ Goto(p, "writing")
  /\ rec' = [rec EXCEPT ![p].seen = file]
  /\ UNCHANGED <<inProcess, timers, flock, log, sets, blocks, calls, spent, counts>>

(* demote(): below SUCCESS_RATE_THRESHOLD a VERIFIED skill is on TRIAL.    *)
Demoted(s) ==
  [s EXCEPT !.verified = @ /\ ~(s.uses >= MinUses /\ 5 * s.successes < 4 * s.uses)]

Counted(s, ok) ==
  Demoted([s EXCEPT !.uses = @ + 1, !.successes = IF ok THEN @ + 1 ELSE @])

Replace(p) ==
  /\ pc[p] = "writing"
  /\ Goto(p, "replaced")
  /\ file' = Counted(rec[p].seen, rec[p].ok)
  /\ landed' = [landed EXCEPT ![rec[p].ok] = @ + 1]
  /\ UNCHANGED <<inProcess, timers, rec, flock, log, sets, events, blocks, calls, missed,
                 uncounted, spent>>

(* The skill's exception goes on: the code catches it, or the block fails. *)
Recorded(p) ==
  /\ pc[p] = "replaced"
  /\ LeavesRecord(p)
  /\ Goto(p, "code") \/ (~rec[p].ok /\ Goto(p, "failure"))
  /\ UNCHANGED <<inProcess, timers, log, sets, blocks, calls, spent, counts>>

(* record_outcome raises, an OSError or for the JSON: "exceptions from     *)
(* recording propagate" into the code, whatever the call itself came to.   *)
RecordFails(p) ==
  /\ pc[p] \in Unfinished
  /\ LosesCount(p)
  /\ Goto(p, "code") \/ Goto(p, "failure")
  /\ UNCHANGED <<inProcess, timers, file, log, sets, events, blocks, calls, landed, missed,
                 spent>>
-----------------------------------------------------------------------------
(* The code returns, its variables are stored, finalize(True) begins; or   *)
(* it raises. A child has sent its report and its events by then.          *)
CodeEnds(p) ==
  /\ pc[p] = "code"
  /\ Goto(p, "success") \/ Goto(p, "failure")
  /\ UNCHANGED <<inProcess, timers, rec, flock, log, sets, blocks, calls, spent, counts>>

(* CancelledError at an await of in-process code, from the deadline or     *)
(* from the client: what the code awaits may take its time to go (a        *)
(* reconnect stops its host first, client_pool.py).                        *)
Interrupted(p, to) ==
  /\ p \in inProcess /\ pc[p] \in InCode
  /\ Goto(p, to)
  /\ UNCHANGED <<inProcess, timers, rec, flock, log, sets, blocks, calls, spent, counts>>

Deadline(p) == time[p] >= 1 /\ Interrupted(p, "cleanup")
ClientCancels(p) == Interrupted(p, "leaving")

(* Mutant of Disarmed: the timer of a failed block goes on. *)
DisarmedOnSuccess(p) == armed' = IF pc[p] = "success" THEN armed \ {p} ELSE armed

(* _disarm_sandbox_alarm, in the `finally`.                                *)
Disarmed(p) == armed' = armed \ {p}

CleanedUp(p) ==
  \/ /\ pc[p] = "cleanup" /\ Goto(p, "failure")
     /\ UNCHANGED armed
  \/ /\ pc[p] = "leaving" /\ Goto(p, "idle")
     /\ Disarmed(p)

CleanUp(p) ==
  /\ CleanedUp(p)
  /\ UNCHANGED <<inProcess, time, rec, flock, log, sets, blocks, calls, spent, counts>>

(* The child is killed, by the deadline or for the client, or dies: its    *)
(* lock is released, its events are lost, its counters stay.               *)
Killed(p, to) ==
  /\ p \notin inProcess /\ pc[p] \in InCode \cup Counting
  /\ Goto(p, to)
  /\ LosesCount(p)
  /\ missed' = missed + Cardinality(Logged(p))
  /\ log' = log \ Logged(p)
  /\ UNCHANGED <<inProcess, timers, file, sets, events, blocks, calls, landed, spent>>

(* Mutant of ChildTimesOut: the deadline waits for the skill call. *)
TimesOutBetweenCalls(p) == time[p] >= 1 /\ pc[p] # "skill" /\ Killed(p, "failure")

ChildTimesOut(p) == time[p] >= 1 /\ Killed(p, "failure")
ChildDies(p) == Killed(p, "failure")
ChildCancelled(p) == Killed(p, "idle")
-----------------------------------------------------------------------------
(* The alarm raises _SandboxTimeout, a BaseException, in the main thread.  *)
Fires(p) ==
  /\ p \in armed /\ time[p] = 2
  /\ armed' = armed \ {p}
  /\ UNCHANGED <<inProcess, time, file, behind, stale, blocks, calls, landed>>

GoesOn(p, to) == Goto(p, to) /\ spent' = spent \cup {p}

(* In the code, its clean-up or in the middle of counting: the block has   *)
(* timed out, unless the code catches it: with a bare `except:`, or, when  *)
(* it comes right after os.replace and unlink(tmp) raises FileNotFoundError*)
(* in its place, with an `except Exception:`. No timer is left for it then.*)
AlarmInCode(p) ==
  /\ Fires(p) /\ pc[p] \in InCode \cup Counting \cup Waning
  /\ LosesCount(p)
  /\ \/ Goto(p, "failure") /\ UNCHANGED spent
     \/ GoesOn(p, IF pc[p] \in Waning THEN pc[p] ELSE "code")
  /\ UNCHANGED <<log, adrift, events, missed>>

(* In the finalize() of a block that ended well: a second one, "timed      *)
(* out", follows. The first has not drained the events yet, or recorded    *)
(* them, or loses them.                                                    *)
AlarmInSuccess(p) ==
  /\ Fires(p) /\ pc[p] = "success"
  /\ Goto(p, "failure")
  /\ \/ UNCHANGED <<log, events, missed>>
     \/ /\ log' = log \ Drained(p)
        /\ \E n \in 0..Cardinality(Drained(p)) :
             events' = events + n /\ missed' = missed + (Cardinality(Drained(p)) - n)
  /\ UNCHANGED <<rec, flock, adrift, uncounted, spent>>

(* The block awaits, and it hits what else runs there: a task that asyncio *)
(* stores it on, or a callback it only logs it from, and the block goes on *)
(* without a timer; or the event loop itself or a task of the SDK's group, *)
(* which the server ends with, as it does if finalize() is hit that        *)
(* follows an exception.                                                   *)
AlarmAstray(p) ==
  /\ Fires(p)
  /\ \/ /\ pc[p] \in InCode \cup Waning
        /\ GoesOn(p, pc[p])
        /\ UNCHANGED <<log, adrift, missed>>
     \/ /\ pc[p] \in InCode \cup Waning \cup {"failure"}
        /\ Goto(p, "down") /\ UNCHANGED spent
        /\ log' = log \ Logged(p) /\ adrift' = adrift \ Logged(p)
        /\ missed' = missed + Cardinality(Logged(p))
  /\ UNCHANGED <<rec, flock, events, uncounted>>

Alarm(p) == AlarmInCode(p) \/ AlarmInSuccess(p) \/ AlarmAstray(p)

(* Mutant of Finalize: only a block that ended well drains the log. *)
DrainsSuccess(p) ==
  /\ pc[p] \in Finalizing
  /\ Goto(p, "idle") /\ Disarmed(p)
  /\ events' = IF pc[p] = "success" THEN events + Cardinality(Drained(p)) ELSE events
  /\ log' = log \ Drained(p)
  /\ UNCHANGED <<inProcess, time, rec, flock, file, sets, blocks, calls, landed, missed,
                 uncounted, spent>>

(* finalize() records the events it drains and the block is over.          *)
Finalize(p) ==
  /\ pc[p] \in Finalizing
  /\ Goto(p, "idle") /\ Disarmed(p)
  /\ events' = events + Cardinality(Drained(p))
  /\ log' = log \ Drained(p)
  /\ UNCHANGED <<inProcess, time, rec, flock, file, sets, blocks, calls, landed, missed,
                 uncounted, spent>>
-----------------------------------------------------------------------------
Next == \E p \in Servers :
  \/ Start(p) \/ TimePasses(p) \/ Saves(p) \/ CallSkill(p)
  \/ Outcome(p, TRUE) \/ Outcome(p, FALSE)
  \/ TakeLock(p) \/ ReadStatus(p) \/ Replace(p) \/ Recorded(p) \/ RecordFails(p)
  \/ CodeEnds(p) \/ Deadline(p) \/ ClientCancels(p) \/ CleanUp(p)
  \/ ChildTimesOut(p) \/ ChildDies(p) \/ ChildCancelled(p)
  \/ Alarm(p) \/ Finalize(p)

Spec == Init /\ [][Next]_vars

(* The timers fire and finalize() runs on; what a cancelled run awaits     *)
(* (the longest is a stop() of 15 s) ends once the client has given up.    *)
(* Nothing else is assumed of the code, which may loop or wait for ever,   *)
(* cancelled or not, nor of the lock file's holder.                        *)
Fairness == \A p \in Servers :
  /\ WF_vars(TimePasses(p))
  /\ WF_vars(ChildTimesOut(p)) /\ WF_vars(Alarm(p))
  /\ WF_vars(pc[p] = "leaving" /\ CleanUp(p)) /\ WF_vars(Finalize(p))

FairSpec == Spec /\ Fairness
-----------------------------------------------------------------------------
(* skill_status.py, record_outcome: concurrent calls "are serialized by    *)
(* flock": however processes interleave, are killed or interrupted, every  *)
(* outcome that reached status.json is in it once, and a verified skill is *)
(* one whose rate is still good.                                           *)
OutcomesExact ==
  /\ file.uses = landed[TRUE] + landed[FALSE]
  /\ file.successes = landed[TRUE]
  /\ file.verified /\ file.uses >= MinUses => 5 * file.successes >= 4 * file.uses

UnderWay == {p \in Servers : pc[p] \in Unfinished}

(* The metrics and status.json tell the same story (skills.py: "the same   *)
(* outcome is appended to call_log"): an event, recorded, to be drained or *)
(* out of reach in the log of a replaced set, for every counted call, but  *)
(* the events that a kill, the alarm or a server that went down took; and  *)
(* a count for every event, but those under way and those that an error of *)
(* the recording, a kill or the alarm kept from being counted.             *)
EventsAreOutcomes ==
  events + Cardinality(log \ adrift) + Cardinality(adrift) + missed
    = file.uses + Cardinality(UnderWay) + uncounted

(* A timer runs only for the block it was armed for: no later block, and   *)
(* no idle server, is interrupted by it.                                   *)
AlarmOfThisBlock == \A p \in armed : pc[p] \notin {"idle", "down"}

(* Every block ends, whatever its code and the other processes do, unless  *)
(* its alarm was caught by the code or met another task; the server may go *)
(* down with it.                                                           *)
BlocksEnd ==
  \A p \in Servers :
    pc[p] \notin {"idle", "down"} ~> pc[p] \in {"idle", "down"} \/ p \in spent
=============================================================================
