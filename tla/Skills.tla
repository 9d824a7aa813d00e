------------------------------- MODULE Skills -------------------------------
(* Skills of one server process: save_skill (server.py) with its trial     *)
(* run, the files of a skill and their loading (skills.py), the namespace  *)
(* CodeExecutor.execute swaps in for a trial, the isolation child that     *)
(* loads it again from disk, and the log of skill calls a run drains.      *)
(* All runs are of one session: in-process its variables keep live         *)
(* objects, the functions of sets replaced since among them.               *)
(*                                                                         *)
(* save_skill never awaits between its first write and its reload: only an *)
(* isolation child, another process, sees the files in between.            *)
EXTENDS Naturals, FiniteSets, SequencesExt

CONSTANTS
  Names,    \* skill names
  Saves,    \* save_skill calls, each also the version it saves
  Tried,    \* those with an example
  NameOf,   \* the skill each saves
  Runs,     \* execute_code calls
  Boot,     \* the version on disk when the process starts
  Old,      \* the skills that have it
  Torn,     \* script.py truncated and not yet written
  Absent,   \* no such skill
  NoOne

Actors == Saves \cup Runs
Versions == Saves \cup {Boot, Torn}

(* SkillsNamespace objects: read from the skills directory by the boot or  *)
(* a save, from the staged directory of a trial, or inside a run's child.  *)
Objects == ((Saves \cup {Boot}) \X {"live"}) \cup (Tried \X {"staged"})
             \cup (Actors \X {"child"})

ASSUME SkillsAssumption ==
  /\ Tried \subseteq Saves /\ NameOf \in [Saves -> Names] /\ Old \subseteq Names
  /\ Boot \notin Saves /\ Torn \notin Saves \cup {Boot} /\ Absent \notin Versions
  /\ Saves \cap Runs = {} /\ NoOne \notin Actors

VARIABLES
  inProcess, \* CODE_RUNNER_ISOLATION, fixed for a process
  script,    \* the version in <name>/script.py
  md,        \* <name>/SKILL.md exists
  holds,     \* what each namespace object loaded
  skills,    \* executor.skills
  kept,      \* own_skills of the run that holds the lock
  uses,      \* executor.skills when the run built its namespace or payload
  lock,      \* who holds _exec_lock
  queue,     \* who waits for it
  pc,
  toLoad,    \* skills the child has yet to read
  log,       \* _call_log of each object: the runs whose calls are in it
  left,      \* runs that ended with a skill call still awaited
  made,      \* history: runs with a call of their own set that ended in time
  relics,    \* history: runs with a call of a set replaced before they began
  drained,   \* history: what finalize() drained for each run
  missing,   \* history: runs that were killed or saw executor.skills replaced
  passed,    \* history: trials whose example succeeded
  astray,    \* history: in-process runs cancelled after a call, or that left
             \* one behind
  bound,     \* whose workspace and tool proxies an object's skills were bound to
  abroad     \* history: runs with a call that had those of another run

vars == <<inProcess, script, md, holds, skills, kept, uses, lock, queue,
          pc, toLoad, log, left, made, relics, drained, missing, passed, astray, bound,
          abroad>>
disk == <<script, md>>
calls == <<log, left, made, relics, drained, missing, passed, astray, bound, abroad>>

Nothing == [n \in Names |-> Absent]
Writes == {"truncate", "write", "describe", "reload"}

(* The types.                                                              *)
TypeOK ==
  /\ inProcess \in BOOLEAN
  /\ script \in [Names -> Versions \cup {Absent}] /\ md \in [Names -> BOOLEAN]
  /\ holds \in [Objects -> [Names -> Versions \cup {Absent}]]
  /\ skills \in Objects /\ kept \in Objects /\ uses \in [Actors -> Objects]
  /\ lock \in Actors \cup {NoOne} /\ queue \in Seq(Actors)
  /\ pc \in [Actors -> {"new", "staged", "queued", "running", "over", "cancelled",
                        "saved"} \cup Writes]
  /\ toLoad \subseteq Names
  /\ log \in [Objects -> SUBSET Actors] /\ drained \in [Actors -> SUBSET Actors]
  /\ left \subseteq Actors /\ made \subseteq Actors /\ relics \subseteq Actors
  /\ missing \subseteq Actors
  /\ passed \subseteq Tried /\ astray \subseteq Actors
  /\ bound \in [Objects -> Actors \cup {NoOne}] /\ abroad \subseteq Actors
-----------------------------------------------------------------------------
Holder(a) == lock = a /\ pc[a] = "running"

(* The event loop runs no other task while save_skill writes and reloads.  *)
LoopFree == \A s \in Saves : pc[s] \notin Writes

(* SkillLoader.discover: a skill needs both files.                         *)
Discovered == [n \in Names |-> IF md[n] THEN script[n] ELSE Absent]

(* The object the run's code calls: a child builds its own.                *)
Own(a) == IF inProcess THEN uses[a] ELSE <<a, "child">>

(* Mutant of ChildReads: from the root of the executor's set of that time. *)
ReadsCurrentRoot(a, n) ==
  IF skills[2] = "staged" /\ n = NameOf[skills[1]] THEN skills[1] ELSE Discovered[n]

(* discover in the child, one skill: from the root of the namespace the    *)
(* run started with. A staged root holds the tried version and links to    *)
(* the directories of the others; an empty namespace has no root.          *)
ChildReads(a, n) ==
  LET o == uses[a] IN
  CASE o[2] = "staged" /\ n = NameOf[o[1]]     -> o[1]
    [] holds[o] = Nothing                      -> Absent
    [] o[2] = "staged" /\ holds[o][n] = Absent -> Absent
    [] OTHER                                   -> Discovered[n]

Init ==
  /\ inProcess \in BOOLEAN
  /\ script = [n \in Names |-> IF n \in Old THEN Boot ELSE Absent]
  /\ md = [n \in Names |-> n \in Old]
  /\ skills = <<Boot, "live">> /\ kept = skills
  /\ holds = [o \in Objects |-> IF o = skills THEN Discovered ELSE Nothing]
  /\ uses = [a \in Actors |-> skills]
  /\ lock = NoOne /\ queue = <<>>
  /\ pc = [a \in Actors |-> "new"]
  /\ toLoad = {}
  /\ log = [o \in Objects |-> {}] /\ drained = [a \in Actors |-> {}]
  /\ left = {} /\ made = {} /\ relics = {} /\ missing = {}
  /\ passed = {} /\ astray = {}
  /\ bound = [o \in Objects |-> NoOne] /\ abroad = {}

(* save_skill with an example: stage_skills, and the namespace of the      *)
(* trial; then it awaits the project's pool.                               *)
Stage(s) ==
  /\ LoopFree /\ s \in Tried /\ pc[s] = "new"
  /\ holds' = [holds EXCEPT ![<<s, "staged">>] = [Discovered EXCEPT ![NameOf[s]] = s]]
  /\ pc' = [pc EXCEPT ![s] = "staged"]
  /\ UNCHANGED <<inProcess, disk, skills, kept, uses, lock, queue, toLoad, calls>>

(* execute() reaches `async with self._exec_lock`.                         *)
Arrive(a) ==
  /\ LoopFree /\ IF a \in Runs THEN pc[a] = "new" ELSE pc[a] = "staged"
  /\ pc' = [pc EXCEPT ![a] = "queued"]
  /\ queue' = Append(queue, a)
  /\ UNCHANGED <<inProcess, disk, holds, skills, kept, uses, lock, toLoad, calls>>

(* The client cancels the call before it has the lock.                     *)
GiveUp(a) ==
  /\ LoopFree
  /\ \/ pc[a] = "staged" /\ UNCHANGED queue
     \/ pc[a] = "queued" /\ \E i \in DOMAIN queue : queue[i] = a /\ queue' = RemoveAt(queue, i)
  /\ pc' = [pc EXCEPT ![a] = "cancelled"]
  /\ UNCHANGED <<inProcess, disk, holds, skills, kept, uses, lock, toLoad, calls>>

(* execute() has the lock: a trial's set takes the place of the            *)
(* executor's; the namespace, or the payload of the child, follows without *)
(* an await.                                                               *)
SwappedIn(a) == IF a \in Tried THEN <<a, "staged">> ELSE skills

(* Mutant of Binds: before the trial's set is swapped in. *)
BindsSwappedOut(a) == bound' = IF inProcess THEN [bound EXCEPT ![skills] = a] ELSE bound

(* bind(): in-process, `open` and the tool proxies of the set's skills are *)
(* this run's from now on; a child binds its own set.                      *)
Binds(a) == bound' = IF inProcess THEN [bound EXCEPT ![skills'] = a] ELSE bound

Enter(a) ==
  /\ lock' = a
  /\ pc' = [pc EXCEPT ![a] = "running"]
  /\ skills' = SwappedIn(a)
  /\ kept' = skills
  /\ uses' = [uses EXCEPT ![a] = skills']
  /\ queue' = Tail(queue)
  /\ toLoad' = IF inProcess THEN {} ELSE Names
  /\ Binds(a)
  /\ UNCHANGED <<inProcess, disk, holds, log, left, made, relics, drained, missing,
                 passed, astray, abroad>>

Begin == LoopFree /\ lock = NoOne /\ queue # <<>> /\ Enter(Head(queue))

(* The child reads one skill, whatever the parent does meanwhile.          *)
ChildLoads(a, n) ==
  /\ Holder(a) /\ n \in toLoad
  /\ holds' = [holds EXCEPT ![<<a, "child">>][n] = ChildReads(a, n)]
  /\ toLoad' = toLoad \ {n}
  /\ UNCHANGED <<inProcess, disk, skills, kept, uses, lock, queue, pc, calls>>

(* Sets that were executor.skills for an earlier in-process run: a run of  *)
(* the session may hold their functions in its variables.  A trial has no  *)
(* session.                                                                *)
Remembered(a) ==
  {o \in Objects : inProcess /\ a \in Runs /\ o[2] = "live" /\ bound[o] # NoOne}

(* A call uses the workspace and the proxies its object was bound to last. *)
Goes(a, o) ==
  abroad' = IF inProcess /\ bound[o] # a THEN abroad \cup {a} ELSE abroad

(* _with_outcome: a call of run a to a skill of set o ends and is logged   *)
(* with the set.                                                           *)
Logs(a, o) ==
  /\ log' = [log EXCEPT ![o] = @ \cup {a}]
  /\ Goes(a, o)
  /\ UNCHANGED <<inProcess, disk, holds, skills, kept, uses, lock, queue, pc,
                 toLoad, drained, missing, passed, astray, bound>>

(* A skill call of the run's code.                                         *)
Call(a) ==
  /\ Holder(a) /\ toLoad = {} /\ a \notin made
  /\ inProcess => LoopFree
  /\ made' = made \cup {a}
  /\ Logs(a, Own(a))
  /\ UNCHANGED <<left, relics>>

(* A call of a function kept in a session variable, of a set that a save   *)
(* has replaced: nothing binds that set to the run.                        *)
CallRelic(a, o) ==
  /\ Holder(a) /\ LoopFree /\ a \notin relics
  /\ o \in Remembered(a) \ {uses[a]}
  /\ relics' = relics \cup {a}
  /\ Logs(a, o)
  /\ UNCHANGED <<left, made>>

(* settle() of a call that is still running when its run is over.          *)
LateCall(a, o) ==
  /\ LoopFree /\ a \in left
  /\ o \in Remembered(a) \cup {uses[a]}
  /\ left' = left \ {a}
  /\ Logs(a, o)
  /\ UNCHANGED <<made, relics>>
-----------------------------------------------------------------------------
(* Mutant of Drains: the log of the set the run will go back to. *)
DrainsKept(a, sent) ==
  /\ drained' = [drained EXCEPT ![a] = log[kept] \cup IF sent THEN log[Own(a)] ELSE {}]
  /\ log' = [log EXCEPT ![kept] = {}]

(* finalize(): the log of executor.skills, whichever set that is by now,   *)
(* and what a child sent with its result.                                  *)
Drains(a, sent) ==
  /\ drained' = [drained EXCEPT ![a] = log[skills] \cup IF sent THEN log[Own(a)] ELSE {}]
  /\ log' = [log EXCEPT ![skills] = {}]

(* Mutant of Restored: whatever was swapped out comes back. *)
RestoredAlways(a) == IF a \in Tried THEN kept ELSE skills

(* The `finally` of execute(): a reload during the trial wins.             *)
Restored(a) == IF skills = <<a, "staged">> THEN kept ELSE skills

Leave(a) ==
  /\ lock' = NoOne
  /\ skills' = Restored(a)
  /\ toLoad' = {}
  /\ UNCHANGED <<inProcess, disk, holds, kept, uses, queue, made, relics, bound, abroad>>

(* In-process the block may end while a call still runs: a sibling in      *)
(* asyncio.gather raised, caught or not, or the gather was never awaited.  *)
LeavesBehind(a) ==
  inProcess /\ left' = left \cup {a} /\ astray' = astray \cup {a}

(* The block ends well, and save_skill goes on to write.                   *)
Succeed(a) ==
  /\ LoopFree /\ Holder(a) /\ toLoad = {}
  /\ Drains(a, ~inProcess)
  /\ pc' = [pc EXCEPT ![a] = IF a \in Tried THEN "truncate" ELSE "over"]
  /\ passed' = passed \cup ({a} \cap Tried)
  /\ Leave(a)
  /\ LeavesBehind(a) \/ UNCHANGED <<left, astray>>
  /\ UNCHANGED missing

(* Mutant of Fail: save_skill writes without looking at the result. *)
FailedIsSaved(a) ==
  /\ LoopFree /\ Holder(a)
  /\ Drains(a, ~inProcess)
  /\ pc' = [pc EXCEPT ![a] = IF a \in Tried THEN "truncate" ELSE "over"]
  /\ Leave(a)
  /\ UNCHANGED <<left, missing, passed, astray>>

(* It raises.                                                              *)
Fail(a) ==
  /\ LoopFree /\ Holder(a)
  /\ Drains(a, ~inProcess)
  /\ pc' = [pc EXCEPT ![a] = "over"]
  /\ Leave(a)
  /\ LeavesBehind(a) \/ UNCHANGED <<left, astray>>
  /\ UNCHANGED <<missing, passed>>

(* The child is killed at the timeout, or dies, and sends nothing.         *)
ChildDies(a) ==
  /\ LoopFree /\ Holder(a) /\ ~inProcess
  /\ Drains(a, FALSE)
  /\ pc' = [pc EXCEPT ![a] = "over"]
  /\ missing' = missing \cup {a}
  /\ Leave(a)
  /\ UNCHANGED <<left, passed, astray>>

(* The client cancels the run: finalize() is not reached.                  *)
Cancel(a) ==
  /\ LoopFree /\ Holder(a)
  /\ pc' = [pc EXCEPT ![a] = "cancelled"]
  /\ Leave(a)
  /\ \/ LeavesBehind(a)
     \/ /\ astray' = IF inProcess /\ a \in made THEN astray \cup {a} ELSE astray
        /\ UNCHANGED left
  /\ UNCHANGED <<log, drained, missing, passed>>
-----------------------------------------------------------------------------
(* write_skill_files, as a child sees it, for a save that was not tried.   *)
SaveUntried(s) ==
  /\ LoopFree /\ s \in Saves \ Tried /\ pc[s] = "new"
  /\ pc' = [pc EXCEPT ![s] = "truncate"]
  /\ UNCHANGED <<inProcess, disk, holds, skills, kept, uses, lock, queue, toLoad, calls>>

WriteStep(s, from, to) ==
  /\ pc[s] = from
  /\ pc' = [pc EXCEPT ![s] = to]
  /\ UNCHANGED <<inProcess, kept, uses, lock, queue, toLoad, log, left, made,
                 relics, drained, passed, astray, bound, abroad>>

Truncate(s) ==
  /\ WriteStep(s, "truncate", "write")
  /\ script' = [script EXCEPT ![NameOf[s]] = Torn]
  /\ UNCHANGED <<md, holds, skills, missing>>

Write(s) ==
  /\ WriteStep(s, "write", "describe")
  /\ script' = [script EXCEPT ![NameOf[s]] = s]
  /\ UNCHANGED <<md, holds, skills, missing>>

Describe(s) ==
  /\ WriteStep(s, "describe", "reload")
  /\ md' = [md EXCEPT ![NameOf[s]] = TRUE]
  /\ UNCHANGED <<script, holds, skills, missing>>

(* executor.skills = SkillsNamespace(loader.discover())                    *)
Reload(s) ==
  /\ WriteStep(s, "reload", "saved")
  /\ holds' = [holds EXCEPT ![<<s, "live">>] = Discovered]
  /\ skills' = <<s, "live">>
  /\ missing' = IF inProcess /\ lock # NoOne THEN missing \cup {lock} ELSE missing
  /\ UNCHANGED disk

Next ==
  \/ \E s \in Saves : \/ Stage(s) \/ SaveUntried(s) \/ Truncate(s) \/ Write(s)
                       \/ Describe(s) \/ Reload(s)
  \/ Begin
  \/ \E a \in Actors : \/ Arrive(a) \/ GiveUp(a) \/ Call(a)
                        \/ Succeed(a) \/ Fail(a) \/ ChildDies(a) \/ Cancel(a)
  \/ \E a \in Actors, o \in Objects : CallRelic(a, o) \/ LateCall(a, o)
  \/ \E a \in Actors, n \in Names : ChildLoads(a, n)

Spec == Init /\ [][Next]_vars
-----------------------------------------------------------------------------
(* "Once saved, its public functions are immediately available" and stay   *)
(* so (server.py, save_skill): the executor's set is what is on disk, save *)
(* for a trial's own, however saves and trials overlap.                    *)
ServesTheSaved ==
  LoopFree /\ skills[2] = "live" => holds[skills] = Discovered

(* "if it fails the skill is NOT saved": a version whose example has not   *)
(* passed is neither on disk nor in a set other than its own trial's, and  *)
(* that set is the executor's only while the trial runs, however it ends.  *)
UntriedStaysOut ==
  /\ skills[2] = "staged" => lock = skills[1]
  /\ \A s \in Tried \ passed :
       /\ script[NameOf[s]] # s
       /\ \A o \in Objects \ {<<s, "staged">>, <<s, "child">>} : holds[o][NameOf[s]] # s

(* A trial runs the version it is for, in the child too, whatever was      *)
(* saved since it was staged.                                              *)
TrialTriesItsVersion ==
  \A s \in Tried : Holder(s) /\ NameOf[s] \notin toLoad => holds[Own(s)][NameOf[s]] = s

(* skills.py, drain_calls: "the list holds exactly that run's skill calls":*)
(* only its own and those of in-process runs that were cancelled after a   *)
(* call or left one behind, and none that it made of the set it started    *)
(* with is missing, unless the run's child was killed or a save replaced   *)
(* that set under it.  A call of a set replaced before is in no list.      *)
DrainsItsCalls ==
  \A a \in Actors :
    /\ drained[a] \subseteq {a} \cup astray
    /\ a \in made \ missing /\ pc[a] \in {"over", "saved"} \cup Writes => a \in drained[a]

(* executor.py, _build_namespace: "The exec lock serializes runs so this   *)
(* per-call rebind is safe": a skill that a run calls of the set it        *)
(* started with opens files in that run's workspace and calls tools under  *)
(* its permissions and its project, trials between and saves during the    *)
(* run included.  A call that outlives its in-process run works with those *)
(* of the next one, and a function of a set that a save replaced before    *)
(* the run began, kept in a session variable, with those of the last run   *)
(* that started with it.                                                   *)
CallsStayHome == abroad \subseteq astray \cup relics
=============================================================================
