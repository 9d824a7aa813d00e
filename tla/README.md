# Specifications of code-runner

`code-runner` is an MCP server with a few tools of its own (`search_tools`,
`execute_code`, `save_skill` ...) in front of many downstream MCP servers. The
agent sends a block of Python; the block runs in a child process, and its tool
calls are made by the server over long-lived connections. One daemon serves all
the agent's sessions and projects over streamable HTTP; a stdio process for each
client is still the default transport.

The modules here model the concurrent and stateful parts of that program. Each
was written from the Python source in `src/src/code_runner/`, and `PROJECT.json`
names for every definition the lines it stands for. TLC checks them on small
instances (section 4), TLAPS proves nearly all of the safety results for every
value of the constants (section 5).

Contents: 1 inventory, 2 conventions, 3 modules and code, 4 runs, 5 proofs,
6 findings, 7 guarantees that end somewhere, 8 not modelled, 9 plan.

## 1. Inventory

What each component keeps, what it does, what is hard about it and what makes
it correct. Calls go downwards; everything inside one process runs on one
asyncio event loop, so an interleaving is a choice of await points. Three things
run beside the loop: the isolation child, the threads that read pipes, and other
code-runner processes that share files under `~/.cache` and `~/.claude`.

    MCP clients --> server.py (lifespan, roots, late_response) 
                      |-> project_pools.py (a pool for a project) --+
                      |-> client_pool.py (the global pool) <--------+
                      |-> executor.py (sessions, gate, lock)
                      |      |-> subprocess_worker.py (child, pipe)
                      |      |-> workspace.py, skills.py
                      |-> metrics.py (event log, past fixes)

- **Client pool** (`client_pool.py`). State: a host task for every connection
  with its `ready` and `_stop` events; dictionaries of hosts, sessions, configs
  and reconnect locks by server name. Operations: `startup`, `call_tool` with one
  retry after `_reconnect`, `shutdown`. Hard: timeouts and cancellations in every
  await, queued reconnects, servers that hang or die. Correct when no host that
  may own a server process is forgotten, no second one is started beside it, the
  retry goes to the new session, calls end and stopped hosts close.
- **Isolation broker** (`subprocess_worker.py`, `_run_in_subprocess` of
  `executor.py`). State: the pipe, the bridge's lock and counter, the child, the
  parent's serve loop. Hard: gathered calls, calls the user's own code cancels,
  a child that dies anywhere, the run's timer against a late message. Correct
  when every call gets its own answer, the report comes last, and the run ends
  with its process gone.
- **Side-effect gate** (`SideEffectGate`, `TaintGate` and the wrapper in
  `executor.py`). State: permissions and counters of a run, remembered refusals
  of a session, owners of replaced tools. Hard: counters shared by a tool and by
  `srv.*` while calls are gathered; refusals repeated without asking again; a
  memory with a cap; the pool's retry below the gate. Correct when no budget is
  overspent and only what the gate would still refuse is refused from memory.
- **Sessions** (`executor.py`, `workspace.py`, `restore.py`). State: variables,
  last access and block number of each session, its files, the execution lock
  and its queue. Hard: TTL and LRU eviction around a run, state in memory against
  files on disk, namespaces with nothing to carry. Correct when only what is due
  is evicted, `restore()` reads the session's own output, and variables persist.
- **Project pools** (`project_pools.py`, `_project_pool` in `server.py`). State:
  pool and last access of each project under one lock. Hard: eviction awaits
  under the lock, requests cancelled anywhere, runs longer than the TTL. Correct
  when a project has one pool, a pool in use stays, an evicted one goes out.
- **Daemon sessions and requests** (`server.py`). State: the shared global pool
  and the lock that guards its start, cached roots of each session, requests.
  Hard: sessions that start together, time out or leave while the pool starts;
  two requests that ask for the roots at once. Correct when there is one global
  pool, every session starts or is told why not, and its project stays.
- **Late responses** (`late_response.py`). State: cancelled ids of a session.
  Hard: a cancellation before, during and after the reply; ids that repeat in
  other sessions. Correct when nothing is sent after a cancellation was read and
  everything else is.
- **Skills** (`skills.py`, `save_skill`). State: files of each skill, namespace
  objects loaded from them, the executor's current one, call logs. Hard: a trial
  swaps the executor's set while others save; the child loads the directory
  while it is written; calls outlive their run. Correct when the executor serves
  what is saved, an untried version stays out, a trial tries its own version and
  a run reports its own calls.
- **Blocks and their timers** (`execute`, `_arm_sandbox_alarm` in `executor.py`).
  State: where the block is, the deadline, the armed `SIGALRM`. Hard: the alarm
  raises in the main thread wherever it is, in user code, in our own counting, in
  `finalize()` or in the event loop. Correct when every block ends and a timer
  interrupts no block but its own.
- **Skill outcomes** (`skill_status.py`, `_with_outcome` in `skills.py`). State:
  `status.json` and its lock file, the log of the run's skill calls. Hard: several
  processes count in one file, any of them may be killed or interrupted while it
  holds the lock. Correct when every outcome that got there is counted once, a
  verified skill is one that deserves it, and events and counters agree.
- **Metrics** (`metrics.py`). State: the log and its backups, the cached index of
  past fixes. Hard: several processes append and rotate, each under a lock of
  its own, while others read. Correct when files stay bounded, readers meet
  events in order, hints name real fixes and history is kept.
- **Configuration** (`config_reader.py`, `_build_proxies`, `_merged_views`).
  Functions of three files, of names that share an identifier and of the order
  in which servers connect. Correct when a daemon with its projects' pools starts
  what a stdio process would, and a search shows the server a run reaches.
- **Workspace paths**, **sandbox validation**, **hints and formatting**, **SQL
  limits**, **secret gate**, **tool search**: functions without shared state; see
  section 8.

How the modules compose: `ServerSlot` is the promise of ClientPool and
`RemoteCalls` that of Broker, each checked as a refinement by the component's own
run; ProjectPools and Server see a pool from outside (it starts, serves and
closes), and ProjectPools is instantiated together with Configs, which says what
servers its pools are for; SideEffectGate has the pool's retry below it; Skills
has the executor's lock and the isolation child around it; Blocks has the skills'
call log, `status.json` and the metrics' events.

## 2. Conventions

- One module for a component; `MC<module>` instantiates it for TLC and a `.cfg`
  is one run. `<module>_proofs` holds the theorems; those of SideEffectGate are in
  Sessions_proofs, which extends both modules (hence `GateInit`, `GateNext` and
  `GateSpec`), those of Configs in ProjectPools_proofs. `ServerSlot` and
  `RemoteCalls` are abstract specifications and model no code of their own.
- A step of a model is what the event loop runs between two awaits; an operation
  of several awaits is several actions, each with a value of `pc` named for the
  await. Where another process looks on (files, the pipe, the child), a step is
  one system call.
- A cancellation is an action at every await where `CancelledError` can arrive.
- A variable marked *history* is written and never read by an action: it only
  lets a property refer to the past.
- A definition under a comment `(* Mutant of X: ... *)` is no part of the
  specification. It is X with a plausible bug; with its body in the place of
  X's, TLC finds a property violated. `PROJECT.json` lists one for every property
  of every passing run, as evidence that the property depends on the code.
- Integers that grow are bounded by a constant marked *bound*.

## 3. Modules and code

### ClientPool
One server stands for all: every dictionary is keyed by the server's name and no
operation on one name reads another's entry. `task[h]` is where `_ServerHost._run`
is (`opening`, `hung`, `serving`, `closing` ...), `host` and `session` are the
entries of `_hosts` and `sessions`, `lock` the reconnect lock, `pc` and `at` the
await of each caller. `StartCall`, `AttemptLosesSession`, `TakeLock`,
`ConnectAnew`, `Publish` and `AttemptEnds` are `call_tool` with its `_reconnect`
and `_connect`, cut at the awaits; `Cancel` and `AbortEnds` are the
`BaseException` branch. `stop()` waits for the task for 15 s and never cancels
it, so `StopReturns` is true at any time. `_is_reconnectable` compares texts:
`LegitErrorsMatch` lets the error of a live server match too.

`ServerSlot` is what the rest of the program may assume of it: at most one
connection in service, attempts in pairs, the second on a connection opened for
it, and what is out of service never comes back. Under the mapping of
`ImplementsServerSlot` the published host is the connection in service and the
hosts told to stop are the retired ones; `Phase` and `SentOn` read a call's attempt
off its `pc`.

### Broker
The child (`_RpcBridge`, `_run`, `run_worker`) and the parent (`_serve`,
`_run_in_subprocess`) over two sequences, `up` and `down`. A request is its
number, taken also by a call whose `send` raises (`SendFails`). Every request
hands a `recv` to the thread pool: it is `queued` until a thread begins it
(`Begin`), and then one of the `readers`. A call that the user's code cancels
takes a queued `recv` with it, so that nobody may be left to read its answer;
a thread that reads survives the coroutine (`CancelCall` sets `abandoned` when
the call had been sent). `Report` needs the threads joined, as `asyncio.run`
does; the requests of dropped `recv`s may be unread then, in front of it.

`RemoteCalls` is the run seen by its caller: calls that are sent wait in a queue
and are performed from its head, one at a time, at most once each; the result is
sealed behind them and read when all of them were performed, those the code no
longer waits for included; nothing is performed after the outcome; and there is
an outcome. In `ImplementsRemoteCalls` the child's counter is the number of the
last call made, the requests on the pipe are the queue, the parent's request is the
one performed, a report sent is the seal.

### SideEffectGate
One session, one server with several tools, the entry `srv.*` as `AnyTool`. The
gated prefix of the wrapper has no await: `Call` is one step with four outcomes,
`RepeatRefusal`, `GateRefusal` (remembered), `RunRefusal` (budget or taint, not
remembered) and `Admit`. `Retry` and `CallEnds` are the pool below, where an
attempt that was lost may have been executed. Arguments are attributes of a call:
secret, tainted, not serializable. Permissions keep the order of their entries,
because the last budget of a name wins.

### Sessions
`Start` is the prefix of `execute` under `_exec_lock`: expired sessions, then the
least recent beyond `MAX_SESSIONS`, then the session itself; `Succeed`, `Fail` and
`Cancelled` are the three ways out. A block turns the namespace into any other;
`LiveValues` are those that cannot be pickled. `files` records which session of
an id wrote `out_<n>.txt`. Whether code runs in a child or in-process is chosen
in `Init`: in-process nothing is lost to pickling, and a block that fails may
have changed an object of the session (`Spoils`).

### ProjectPools
`Ask`, `Enter`, `Evict`, `StopReturns`, `GetPool`, `StartPool` and `NoConfigs` are
`host_for` under the registry's lock; `Ready`, `StartCall`, `CallReturns`,
`Reconnects` and `Leave` are the request in its pool; `CancelledInLock` is a client
that cancels while the eviction waits, which cancels the pool's task through
`wait_for`. A pool is ClientPool seen from outside.

### Server
First the lifespan: `Connect`, `Reuse`, `StartGlobal`, `Share`, `StartTimesOut`,
`StopReturns`, `CancelStart`. Then the life of a request: `Send`, `Read` (with the
lookup of roots), `RootsEnd`, `Reply` through the filter, `Deliver`; `GiveUp` is
the client's cancellation and `ReadCancel` the reader's note of it, before the
handler has begun, while it works, while its reply is sent or after. Two replies
may follow, and both pass the filter: the SDK's own (`Refuse`; how the SDK
cancels is external, so whatever its `RequestResponder` may do there is allowed)
and a late one of the handler (`Reply`). What a request does between is the
subject of the other modules.

### Skills
`Stage`, `Arrive`, `Begin`, `Succeed`/`Fail`/`ChildDies`/`Cancel` are a run, which
for a trial swaps the executor's set and restores it in `finally`; `Truncate`,
`Write`, `Describe` and `Reload` are the files of a save, which other processes
see one by one while the event loop runs nothing else. `ChildLoads` reads one
skill at a time. `Binds` gives the set's skills the run's `open` and tool proxies,
`Goes` is a call that uses them. Both isolation modes are initial states. The
runs are of one session: in-process its variables keep live functions, of sets
that a save has replaced since, which no run binds and no run drains
(`CallRelic`). However a block ends it may leave a call behind (`LeavesBehind`),
which settles in a later run or between two (`LateCall`).

### Metrics
Two processes and one log. A block ends (`Block`); if it failed the past-fix index
is consulted (`Load`, `List`, `Read`, `Index`); its event is recorded, one system
call at a time: `Exists`, `Stat`, `Oldest`, `Unlink`, `Look`, `Move`, `MoveCurrent`,
`Open`, `Write`. Files are inodes, so an open file follows a rename. All events
have one size; `MaxBytes` counts events. The clock moves with the blocks, and an
index is built from the events of the last `Window` before the reading began
(`since`). An error may have a key or none (`NoKey`), and there are events of no
session. `Build` says which pairs of events `PastFixIndex._build` keeps; `Blank` and
`Paired` are its loop, and `BuildIsTheLoop` compares the two on whatever a reader
meets.

### Blocks
One block at a time of each server process. `Start` arms the alarm (in-process
only), `CallSkill` and `Outcome` are a skill call with its event, `TakeLock`,
`ReadStatus`, `Replace` and `Recorded` are `record_outcome`, one system call at a
time, and `RecordFails` its exceptions; `CodeEnds`, `Deadline`, `ClientCancels`,
`CleanUp`, the three `Child...` actions and `Finalize` are the ways out. `Saves` is a
save_skill, which needs no execution lock and puts another set in the place of
the server's: what was logged in the old one is `adrift`, as is what a function of
an older set logs that a session variable has kept (`stale`). `Alarm` is the
signal: in the code, its clean-up or the counting (`AlarmInCode`), in `finalize()`
(`AlarmInSuccess`), or anywhere else the main thread may be (`AlarmAstray`). There
it may hit a task that asyncio stores it on, or a callback that it only logs it
from, and the block goes on without a timer (`GoesOn`); or the loop, which the
server ends with. `time` has three values: before the deadline, past it, past the
alarm's time, half a second later.

The model leaves to Skills which set a trial uses (its block is one of a set of
its own) and what happens to a call that outlives its block.

### Configs
Operators only. `LoadServerConfigs` and `LoadProjectServerConfigs` are functions of
the three files with a name absent, disabled or enabled in each; `Proxy` and
`Searched` are what an identifier reaches in a run and shows in a search, given
the order in which servers connected. `PyName` maps names to identifiers and
need not be injective. TLC evaluates both properties on three names as an
assumption of MCProjectPools; ProjectPools_proofs proves them for any.

## 4. Runs

Deadlock checking is off in every run: callers, sessions and blocks are bounded
and the system stops when they are used up. What must not stop is stated as
liveness.

| run | instance | distinct states | what it shows |
|---|---|---|---|
| `ClientPool` | 2 callers, 3 hosts, 2 calls | 20 550 | no orphan, one server process, session and host agree; a ServerSlot; calls end; stopped hosts close unless hung |
| `ClientPool_hung` | 1 caller, 2 hosts | | counterexample to `StoppedHostsClose` |
| `Broker` | 3 tasks, 3 requests | 525 589 | own answers until a call is abandoned; the run is RemoteCalls; it ends |
| `Broker_wrong_answer` | 2 tasks | | counterexample to `AnswersMatch` |
| `SideEffectGate` | 2 tools, 5 kinds of call, 3 permissions, 2 runs | 117 372 | budgets, memory, just repeats |
| `SideEffectGate_retry` | 1 run, 1 call | | counterexample to `SentWithinBudget` |
| `Sessions` | 3 ids, 2 places, 1 name, both isolations, 1 restart | 3 935 820 | eviction, own outputs, variables persist |
| `ProjectPools` | 2 projects, 2 calls, 2 pools, runs to 2 TTL; Configs with 3 names | 61 732 | one pool each, used pools stay, evicted ones go out, asks end |
| `Server` | 2 sessions, 2 ids, 2 pools, 2 requests | 68 015 | one global pool, sessions start, project stays, filter is right |
| `Skills` | 2 skills, a trial, a save, 2 runs, both isolations | 340 954 | served = saved, trials, call logs, bindings |
| `Metrics` | 2 processes, 2 backups of 2 events, 4 blocks | 2 909 910 | types, bounded files, order, hints, index and its loop, history |
| `Blocks` | 2 servers, both children or one of them in-process; 2 blocks and a skill call each | 326 476 | exact outcomes, events and counters agree, a timer meets its own block, blocks end |

Why the bounds are enough to be worth checking:

- ClientPool: three hosts are the startup's and one reconnect for each of two
  calls, so two callers can fail on one session and reconnect one after the
  other; the proofs of section 5 drop the bound.
- Broker: an answer to a wrong call needs two calls, a call queued behind an
  abandoned one needs three.
- SideEffectGate: three calls exceed the memory of two refusals, and the shared
  and the tool's budget are both spent; two runs see a refusal remembered under
  the same and under other permissions.
- Sessions: three ids over two places force an LRU choice with a kept rival; the
  clock runs past the TTL. One name with one value of each kind is enough to
  lose, keep and overwrite it.
- ProjectPools: two projects and two calls are the least that make one request
  evict the pool another is in; `RunLimit` of two TTLs allows the overlong run.
- Server: two sessions with equal request numbers, or two requests of one.
- Skills: a save of one name during the trial of another; two runs carry a call
  log, a binding and a function of a replaced set over from one to the next.
- Blocks: two servers meet in `status.json`, and with `MinUses` of two their calls
  demote a skill; a second block can be hit by what the first one leaves running.
  They are two children, or an in-process server and a child: two in-process
  servers share nothing but `status.json` and its lock, which these two pairs
  contend for as well.
- Configs: two names with one identifier and one beside them.
- Metrics: a second backup makes the loop of renames run; with full backups at
  the start the first rotation already drops a file. A window of two blocks, with
  four to run, lets an error, and a fix, become too old for a reading.

Symmetry is used in runs without liveness only (session ids, runs, processes).

### Fairness

Safety runs use `Spec`. The liveness runs assume weak fairness of what the code
guarantees: the event loop resumes a coroutine whose await is over; timers fire
(`CONNECTION_TIMEOUT`, `SHUTDOWN_TIMEOUT`, `STARTUP_TIMEOUT`, `ROOTS_TIMEOUT`, the
timeout of a run and of a tool call); a transport that closes is closed (anyio
kills a process that does not go); a killed process is joined. Strong fairness
is used only for taking an `asyncio.Lock`, which serves waiters in order. Nothing
is assumed of user code, child processes, downstream servers or clients: they may
stop anywhere, hang and never cancel. In Blocks this goes for the code too: once the
deadline has cancelled it, its clean-up may wait for ever, and so may the holder
of the lock file; only the alarm and the kill of a child are counted on, and the
alarm only once: a block whose alarm was spent elsewhere owes nothing. The startup
of a pool ends in ProjectPools, where every connection has its timeout; Server does
not even assume that.

## 5. Proofs

Proved for all values of the constants, under the named assumptions of each
module (the markers such as `None` are not identities; bounds are naturals;
`Calls` and `Permissions` have their types; `MaxRefusals` and `BackupCount` are
positive; processes, and in Configs names, are finitely many). Every state machine
has its type invariant proved (`TypeCorrect`, `GateTypeCorrect`); the runs repeat it
only where it says more than the types: the cap of Sessions.

**ClientPool_proofs.** `TypeCorrect`, `NoHostIsLost` (`NoOrphan`), `AtMostOneServer`
(`OneServerProcess`), `SessionsAreCurrent` (`SessionMatchesHost`), `RetryIsFresh`
(`RetryUsesPublishedHost`, which the run checks as a part of `ServerSlot`),
`PoolIsAServerSlot` (`ImplementsServerSlot`). `NoOrphan` alone is not inductive: `Publish` overwrites
the slot, and if another live host were in it that one would be lost. `IInv` adds
why it never is: only the holder of the lock connects (`LockInv`); nothing happens
beside the startup (`StartupInv`); while somebody connects the slot is empty and
the new host has not been told to stop (`SlotInv`); unused identities are named
nowhere (`FreshInv`). `OneServerProcess` then follows from `NoOrphan`: two live
hosts not told to stop would be the published one and an awaited one, which
`SlotInv` excludes, or two awaited ones, which the lock excludes. The refinement
takes every action of the pool to one of the slot or to a stutter; besides `IInv`
it needs that no session exists before the startup is over (`NoSessionYet`), or
the first connection would not be the startup's.

**Broker_proofs.** `TypeCorrect`, `SingleReader` (`OneReaderUnlessAbandoned`),
`OwnAnswer` (`AnswersMatchUnlessAbandoned`), `RunPerformsItsCalls` (the initial
states and steps of `ImplementsRemoteCalls`). The bridge matches answers by nothing
but the order of the pipe. `PipeInv` says why this is enough while no call is
abandoned: there is at most one `recv`, queued or begun, its request is in exactly
one place (`Sent`, `Taken` or `Answered`) and nothing else is on the way; without
one the pipe holds at most the report. These theorems are implications because
`abandoned` ends the invariant for good (finding 2). `RunPerformsItsCalls` is not,
and assumes nothing of the threads, which may read each other's answers or never
begin: the parent takes the messages in the order they were sent, the report is the
last of them, and there is no verdict but from it while the parent serves
(`RunInv`). So the requests on the pipe are the queue of RemoteCalls, and a run
that reports has had all its calls performed, the abandoned ones too.

**Sessions_proofs, the gate.** `GateTypeCorrect`, `NoOverspending` (`BudgetHolds`),
`MemoryBounded` (`RefusedBounded`), `RepeatsAreJust` (`RepeatIsJust`).
`RefusalsStand` strengthens the last: until a reload, every remembered refusal
is one the gate makes under the permissions it is remembered with, whatever run
is under way; equal permission lists have equal entries (`SameEntries`) and
`RememberKeeps` says what the memory holds after a refusal. `BudgetIsNat` finds
the last entry of a name by well-founded order, without induction.

**Sessions_proofs.** `TypeCorrect` (`TypeOK`, with the cap), `OutputsAreOwn`
(`OwnOutputs`), `VariablesPersist` (`VarsPersistIfAny`), `EvictionsJustified`
(`EvictsExpiredOrLeastRecent`, an action property). A session that joins evicts
exactly the surplus of the others, whichever of equally old ones go, so the cap is
an equation between cardinalities (`StartKeeps`). An id that has no session has no
files (`OutputsInv`): a new session of an old id finds nothing of its
predecessor, until a restart forgets the sessions and keeps the files.

**Server_proofs.** `GlobalPoolIsOne` (`OneGlobalPool`), `SessionKeepsProject`
(`ProjectStays`), `CancelledStaySilent` (`NoReplyAfterCancel`). A second pool is
impossible because one that nobody gave up is either shared or awaited by the
holder of the lock while there is nothing to share (`OwnerInv`); a session's
project is safe because a request that asks alone has found nothing cached
(`RootsInv`); whatever cancellation the server has read is in the filter's set (`HeardInv`), so
that no reply, the SDK's or the handler's, passes it.

**ProjectPools_proofs.** `ProjectHasOnePool` (`OnePoolPerProject`), `BusyPoolStays`
(`UsedPoolStays`). A pool nobody told to stop is the one the registry names
(`PoolInv`). A call's pool was last accessed when the call got it or later
(`CallInv`), and what the lock's holder still has to evict stays expired, because
only it could refresh the time (`LockInv`): so no eviction meets a call that has
had its pool for less than the TTL, for any TTL.

**Skills_proofs.** `SkillsStayHome` (`CallsStayHome`): from its bind to its last
call a run keeps the lock, and nobody binds without it (`HomeInv`), so what works
elsewhere is a call that outlived its run or a function of a replaced set. `UntriedIsOut`
(`UntriedStaysOut`): what is swapped out for a trial was never a staged set, a
staged set is swapped in only by its own trial (`SwapInv`), and a trial that has
not passed writes nothing, nor does any loader find it (`TriedInv`). `SavedIsServed`
(`ServesTheSaved`): while the loop is free the executor's own set, or the one a
trial swapped out, is what is on disk (`ServeInv`). `TrialsAreOfTheirVersion`
(`TrialTriesItsVersion`) and `DrainsAreOwn` (`DrainsItsCalls`): who waits waits once
and who runs has the lock (`QueueInv`). The set a run is bound to is the executor's,
unless a save has brought one that nobody is bound to (`CurrentInv`), in which
nothing was called before (`FreshInv`); so a call of a run is where its end will
look for it (`MadeInv`), and what else is in that log has already gone astray
(`OwnLogInv`, `LogInv`).

**Blocks_proofs.** `TypeCorrect`, `AlarmsOfTheirBlocks` (`AlarmOfThisBlock`),
`OutcomesCountedOnce` (`OutcomesExact`), `EventsMatchTheCounts` (`EventsAreOutcomes`).
Between reading `status.json` and replacing it a process holds the lock file, and
what it read is still there (`StatusInv`). The balance of events and counts needs
that the call being made is not in the log already (`LogInv`). Then every step
keeps it (`Balanced`): most move an event from the log to the recorded or the missed ones
(`KeepsEvents`) and a call from those under way to the uncounted ones
(`KeepsCounts`), and the two that do more, `Outcome` and `Replace`, add to both sides
or move a call into the count. The kill, the alarm and a failing record are steps
like the others, because what they lose has a name.

**Metrics_proofs.** Any number of processes, backups and events; `TypeCorrect`,
`FilesStayBounded` (`FilesBounded`), `ReadersSeeInOrder` (`ReadsInOrder`),
`RotationKeepsHistory` (`HistoryKept`, an action property), `HintsAreFixes`
(`HintIsItsFix`), `LoopFindsThePairs` (`BuildIsTheLoop`), `IndexStaysCurrent`
(`IndexIsCurrent`).

- Bound: a file and the processes that may still write to it without another
  look at its size are together at most the bound (`BoundInv`).
- Order: names only move to older places and a reader goes to newer ones. The
  files are ordered for each process, and one that is late to write into a
  rotated file has nothing in the newer ones (`OrderInv`, `PastInv`).
- History: while no rotation met another process, a backup is missing below
  another only because that rotation has just moved it (`RotationInv`).
- Hints: everything in files and readings is a block that ran (`GenuineInv`). While
  no rotation met another process the log has no gaps, nor has a reading
  (`ReadingInv`), so the event before a success in the log is the block before it
  in the session (`MendInv`).
- Build: the loop skips what is older than its window, of another kind or of no
  session, and a failing event without a key takes its session's error away. After
  each event of the loop an error is pending in a session if it is
  the session's last event so far, and a key's fix is the last success so far that
  followed such an error (`Holds`); at the end that is `Build`.
- Cache: the stat an index is kept under does not come back once the file has
  changed (`Earlier`). An event written makes the file newer; a file that is created
  may have the time of the one rotated before it, but is empty where that one was
  not. So a reader for whom the stat is still the same has read the files as they
  are (`SeenFirst`), and `CacheInv` holds: the index is `Build` of the files with the
  window it was built with (`since`). It is conditional on `racing`: a late
  write into a rotated file, or a rotation during a reading, leaves an index made
  of other events.

The last two are about what `FoldLeft` and `FlattenSeq` compute, for sequences of any
length. The library's induction theorems cannot be used for it; instead, of the
numbers up to which the recursive function would not exist, or would go wrong, there
would be a least one (`LeastOf`, from the well-foundedness of `<`).

**ProjectPools_proofs, Configs.** `DaemonStartsTheSame` (`ModesAgree`): a name the daemon has is
the one a stdio process takes from the global file, and the pools are denied
exactly those (`ParsedAt`). `SearchShowsWhatRuns` (`SearchIsRun`): both readings end
at the last connected of the servers with an identifier (`LatestExists`, by
well-foundedness of finite sets).

Only model-checked: all liveness, with the fairness in `ImplementsRemoteCalls`
(`RunEnds`, `CallsEnd`, `StoppedHostsCloseUnlessHung`, `AsksEnd`, `EvictedPoolsGoOut`,
`SessionsStart`, `UncancelledAnswered`, `BlocksEnd`), which needs ENABLED.

## 6. Findings

1. *A hung server is never put out* (`ClientPool_hung`). `client_pool.py:144-145`
   says that any interrupted wait must put the host out or its process is
   orphaned. `stop()` sets an event that `_run` looks at only after the opener
   returned, and it does not cancel the task: a server that accepts the
   connection and never answers `initialize()` keeps its host and process.
2. *A call may get another call's answer* (`Broker_wrong_answer`).
   `subprocess_worker.py:151-152` relies on the lock for one reader at a time. When
   the user's code cancels a call (`asyncio.wait_for` is available to it), the lock
   is released while the thread still reads, or before any thread has begun to, so
   that nobody is left to take the answer; and line 180 discards the request
   number of the answer instead of comparing it.
3. *N calls may become 2N downstream* (`SideEffectGate_retry`). The specification
   of budgets promises at most N calls within a run; the pool repeats a request
   whose session was lost, although the server may have executed it.

## 7. Guarantees that end somewhere

Some properties hold only until an event the code allows. The condition is part
of the property, so that what remains is exact.

| property | ends with | code |
|---|---|---|
| `AnswersMatchUnlessAbandoned` | the user's code cancels a call in flight | `subprocess_worker.py:177` |
| `RepeatIsJust` | the skills are reloaded: owners change, the fingerprint does not hold them | `executor.py:436` |
| `OwnOutputs` | a restart: block numbers start again, files stay | `executor.py:2190` |
| `VarsPersistIfAny` | a block leaves nothing to carry: the child sends `None`, older variables stay | `executor.py:2113` |
| `UsedPoolStays` | a run is longer than the TTL: only `host_for` refreshes it | `project_pools.py:105` |
| `EvictedPoolsGoOut` | the evicting request is cancelled; or such a longer run reconnects in the old pool | `project_pools.py:62`, `client_pool.py:252` |
| `OneGlobalPool` | a session is cancelled while it waits for the pool: only `TimeoutError` stops it | `server.py:105` |
| `ProjectStays` | two requests ask for the roots at once, the slower answer wins | `server.py:166` |
| `DrainsItsCalls` | an in-process run is cancelled after a call or leaves one behind, as a successful block may that catches what `gather` raised or never awaits it; the child is killed; a save replaces the set during the run. A call of a set replaced before the run is in no list, against `skills.py:455-456` | `skills.py:452-460` |
| `CallsStayHome` | a call outlives its in-process run: it works with what the next run bound. A function of a replaced set, kept in a session variable, works with what was bound to that set last, against the comment at `executor.py:1959-1961` | `skills.py:474`, `executor.py:1975`, `executor.py:2396` |
| `EventsAreOutcomes` | nothing: it is an equation, whose terms name the losses. An event is `missed` when a kill or the alarm falls before it is drained, or the child's log is lost with its report; `adrift` in the set that a save replaced during the run; a call is `uncounted` when the recording fails, is killed or is interrupted after the event was logged | `skills.py:272`, `executor.py:2220`, `server.py:693` |
| `BlocksEnd` | the alarm is spent: the code catches it, as `except:` does, and so does `except Exception` when the alarm hits right after `os.replace` and `unlink(tmp)` raises in its place, against the docstring at `executor.py:806`; or it hits another task, where asyncio stores it, or a callback, of which it logs it. The block goes on without a timer and may hold `_exec_lock` for ever. Or the alarm hits the loop itself and the server goes down | `skill_status.py:79`, `executor.py:830` |
| `IndexIsCurrent` | nothing is written: the cached index keeps the window of its own reading, and a fix that has become too old since stays | `metrics.py:173`, `metrics.py:479` |
| `SearchIsRun` | two servers of one project share an identifier: it reaches the first to connect, a search shows the last | `executor.py:1904`, `server.py:402` |
| `HintIsItsFix` (the last error), `IndexIsCurrent`, `HistoryKept` | a rotation meets a read, a write or a rotation of another process | `metrics.py:387-435` |

Three more limits are in the models as what happens, without a property of their
own. A block whose alarm falls into its `finalize()` is reported as timed out
although its variables are stored (`executor.py:2396-2401`). A skill call that is
cancelled, or interrupted by the alarm, is counted neither way (`_with_outcome`
catches `Exception`). A block that deletes the session's only variable, or leaves
nothing but what cannot be pickled, sends no variables, and the earlier ones stay.

## 8. Not modelled

- Pure functions: validation and rewriting of the user's syntax tree, hints and
  wording of results, SQL limits, ranking and signatures of tools, the filters and
  summaries of metrics. They have no state to interleave.
- Path confinement and the write cap of the workspace: string and file-system
  work on one handle. (The cap counts `len(data)`, which in text mode is characters
  and not the bytes its docstring names.)
- What a session keeps for hints only: the last failed block, dropped names, the
  memory of repeated patterns; and the journal of calls.
- The external redactor behind the secret gate: an attribute of a call.
- The data of a skill call's event (counts of nested calls, the fatal mark and the
  fallback it selects), `init_trial` and manual changes of a skill's status.
- Reading JSON, the expansion of environment variables and the search for the
  project's root in `config_reader.py`.
- What user code computes, beyond the calls it makes, gathers and cancels.
- `ProjectPoolRegistry.shutdown`, which nothing calls; the lifespan of the stdio
  transport, which has one session and no sharing.

## 9. Plan

Done: the twelve components of section 3, the abstract specifications ServerSlot
and RemoteCalls with their refinements, and theorems for every safety property of
the passing runs.

Next: `Proxy` of an identifier that two projects' servers share
(`executor.py:1905`), once the sources fix an order to compare with.
