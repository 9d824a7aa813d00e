------------------------------ MODULE Metrics -------------------------------
(* The event log metrics.jsonl (metrics.py) that every code-runner process *)
(* of a user appends to and rotates, each under a lock of its own, and     *)
(* PastFixIndex, which reads it back to say how an error was mended.       *)
(*                                                                         *)
(* An event is the rollup of one block; each process runs the blocks of    *)
(* one session. Every event has size 1. An error's key and a fix line stay *)
(* abstract: a fix is named by the block it comes from. The clock moves on *)
(* from one block to the next and never goes back; what it moves while the *)
(* event of a block is on its way is nothing to the window of a reading.   *)
EXTENDS Integers, Sequences, FiniteSets, SequencesExt

CONSTANTS
  Procs,
  Keys,         \* what error_key distinguishes
  NoPastFix,    \* the keys of _NO_PAST_FIX_CLASSES
  NoKey,        \* an error that error_key makes no key of
  Ok,           \* the block succeeded
  None,
  MaxBytes,     \* max_bytes, in events
  BackupCount,  \* backup_count
  Window,       \* PAST_FIX_WINDOW_DAYS
  Pace,         \* bound: how far the clock moves from one block to the next
  MaxEvents     \* bound: blocks altogether

ASSUME MetricsAssumption ==
  /\ IsFiniteSet(Procs) /\ Procs # {} /\ NoPastFix \subseteq Keys
  /\ Ok \notin Keys /\ NoKey \notin Keys \cup {Ok}
  /\ None \notin Keys \cup Procs \cup {Ok}
  /\ MaxBytes \in Nat \ {0} /\ BackupCount \in Nat \ {0}
  /\ Window \in Nat /\ Pace \subseteq Nat /\ MaxEvents \in Nat

Inodes == 1..BackupCount + 1 + Cardinality(Procs)
Event == [by : Procs \cup {None}, n : Nat, ts : Nat, key : Keys \cup {NoKey, Ok},
          fix : BOOLEAN]
Fix == [by : Procs, n : Nat \ {0}]

VARIABLES
  now,     \* the clock
  file,    \* the inode of metrics.jsonl (0) and its rotated files, 0 if missing
  body,    \* the events in an inode
  mtime,   \* when it was last written or created
  pc,
  at,      \* the index of the file a loop is at
  found,   \* files the reader's listing found
  handle,  \* the inode a writer has open
  stat,    \* mtime and size of the file when _load began
  since,   \* from when on the last reading takes events
  sig,     \* _sig
  fixes,   \* _fixes
  seen,    \* events read so far, those before `since` with them
  hint,    \* the fix the last error's HINT named
  blocks,  \* history: the blocks each process ran
  written, \* history: events written
  racing   \* history: a rotation met another process's read, rotation or write

vars == <<now, file, body, mtime, pc, at, found, handle, stat, since, sig, fixes, seen,
          hint, blocks, written, racing>>
index == <<found, stat, since, sig, fixes, seen, hint>>

Reading == {"list", "read", "index"}
Rotating == {"oldest", "unlink", "look", "move", "last"}
Phases == {"idle", "load", "exists", "stat", "open", "write"} \cup Reading \cup Rotating
NoFixes == [k \in Keys |-> None]
Sig == IF file[0] = 0 THEN None
       ELSE [mtime |-> mtime[file[0]], size |-> Len(body[file[0]])]

(* Rotated files and the current one are different files.                  *)
LogTypeOK ==
  /\ file \in [0..BackupCount -> Inodes \cup {0}]
  /\ body \in [Inodes -> Seq(Event)] /\ mtime \in [Inodes -> Nat]
  /\ pc \in [Procs -> Phases]
  /\ at \in [Procs -> 0..BackupCount + 1] /\ found \in [Procs -> SUBSET (0..BackupCount)]
  /\ handle \in [Procs -> Inodes \cup {0}]
  /\ now \in Nat /\ since \in [Procs -> Int]
  /\ seen \in [Procs -> Seq(Event)] /\ blocks \in [Procs -> Seq(Event)]
  /\ written \in Nat /\ racing \in BOOLEAN
  /\ \A i, j \in 0..BackupCount : i # j /\ file[i] # 0 => file[i] # file[j]

(* The types; what an index names is a block.                              *)
TypeOK ==
  /\ LogTypeOK
  /\ fixes \in [Procs -> [Keys -> Fix \cup {None}]] /\ hint \in [Procs -> Fix \cup {None}]
-----------------------------------------------------------------------------
Total == FoldSet(LAMBDA p, n : n + Len(blocks[p]), 0, Procs)
Failed(p) == blocks[p] # <<>> /\ Last(blocks[p]).key # Ok

(* What read(since) leaves out is too old; events of no session are        *)
(* skipped by _build.                                                      *)
Counts(e, from) == e.by # None /\ e.ts >= from

(* PastFixIndex._build: the error that a session has pending is the one    *)
(* its last event before j reports, and a success with a fix line mends    *)
(* it; of several fixes of a key the last one stays.                       *)

(* Mutant of Pends: the error is kept without its session. *)
PendsAcross(s, j, k, from) == j > 1 /\ s[j - 1].key = k

Pends(s, j, k, from) ==
  \E i \in 1..j - 1 :
    /\ Counts(s[i], from) /\ s[i].by = s[j].by /\ s[i].key = k
    /\ \A m \in i + 1..j - 1 : ~(Counts(s[m], from) /\ s[m].by = s[j].by)

Mends(s, k, from) ==
  {j \in 1..Len(s) : Counts(s[j], from) /\ s[j].key = Ok /\ s[j].fix /\ Pends(s, j, k, from)}

Build(s, from) ==
  [k \in Keys |->
     IF Mends(s, k, from) = {} THEN None
     ELSE LET j == CHOOSE j \in Mends(s, k, from) : \A m \in Mends(s, k, from) : m <= j
          IN  [by |-> s[j].by, n |-> s[j].n]]

(* The loop itself, one event after the other: every one of a session      *)
(* takes the pending error away or puts its own in its place.              *)
Blank(from) == [since |-> from, pending |-> [p \in Procs |-> None], fixes |-> NoFixes]

(* Mutant of Paired: events too old are not left out. *)
PairedAtAnyAge(acc, e) ==
  IF e.by = None THEN acc
  ELSE [acc EXCEPT
          !.pending[e.by] = IF e.key \in Keys THEN e.key ELSE None,
          !.fixes = IF e.key = Ok /\ e.fix /\ acc.pending[e.by] # None
                    THEN [@ EXCEPT ![acc.pending[e.by]] = [by |-> e.by, n |-> e.n]]
                    ELSE @]

Paired(acc, e) ==
  IF ~Counts(e, acc.since) THEN acc
  ELSE [acc EXCEPT
          !.pending[e.by] = IF e.key \in Keys THEN e.key ELSE None,
          !.fixes = IF e.key = Ok /\ e.fix /\ acc.pending[e.by] # None
                    THEN [@ EXCEPT ![acc.pending[e.by]] = [by |-> e.by, n |-> e.n]]
                    ELSE @]

(* Mutant of Chronological: the newest backup is read first. *)
NewestFirst == [i \in 1..BackupCount + 1 |-> IF i > BackupCount THEN 0 ELSE i]

(* _iter_files_chronological: the order of the files.                      *)
Chronological == [i \in 1..BackupCount + 1 |-> BackupCount + 1 - i]

At(i) == IF file[i] = 0 THEN <<>> ELSE body[file[i]]
Retained == FlattenSeq([i \in 1..BackupCount + 1 |-> At(Chronological[i])])

(* The log starts empty, or with events of no session (of other kinds, or  *)
(* without an id): full backups, and room for one more in the current file.*)
OldFile(i) == [j \in 1..(IF i = 0 THEN MaxBytes - 1 ELSE MaxBytes) |->
  [by |-> None, n |-> (BackupCount - i) * MaxBytes + j, ts |-> 0, key |-> Ok, fix |-> FALSE]]

Init ==
  /\ \E old \in BOOLEAN :
       /\ file = [i \in 0..BackupCount |-> IF old THEN i + 1 ELSE 0]
       /\ body = [i \in Inodes |->
            IF old /\ i <= BackupCount + 1 THEN OldFile(i - 1) ELSE <<>>]
       /\ written = IF old THEN (BackupCount + 1) * MaxBytes - 1 ELSE 0
  /\ mtime = [i \in Inodes |-> 0] /\ now = 0
  /\ pc = [p \in Procs |-> "idle"]
  /\ at = [p \in Procs |-> 0] /\ found = [p \in Procs |-> {}]
  /\ handle = [p \in Procs |-> 0]
  /\ stat = [p \in Procs |-> None] /\ sig = stat /\ since = [p \in Procs |-> 0]
  /\ fixes = [p \in Procs |-> NoFixes] /\ hint = [p \in Procs |-> None]
  /\ seen = [p \in Procs |-> <<>>] /\ blocks = seen
  /\ racing = FALSE
-----------------------------------------------------------------------------
Go(p, to) == pc' = [pc EXCEPT ![p] = to]
Others(p) == Procs \ {p}

(* A block ends (finalize): its fix line is there only after a failure, if *)
(* a line of it shares a name with the failed one. An error asks for a     *)
(* HINT before its event is recorded.                                      *)
Block(p, key, fix) ==
  /\ pc[p] = "idle" /\ Total < MaxEvents
  /\ fix => key = Ok /\ Failed(p)
  /\ \E d \in Pace : now' = now + d
  /\ blocks' = [blocks EXCEPT ![p] =
       Append(@, [by |-> p, n |-> Len(@) + 1, ts |-> now', key |-> key, fix |-> fix])]
  /\ hint' = [hint EXCEPT ![p] = None]
  /\ Go(p, IF key \in Keys \ NoPastFix THEN "load" ELSE "exists")
  /\ UNCHANGED <<file, body, mtime, at, found, handle, stat, since, sig, fixes, seen,
                 written, racing>>

(* PastFixIndex._load: nothing without a file, the cache if the file is    *)
(* the same, else a reading of all files, from a window's length ago on.   *)
Hinted(p, known) == hint' = [hint EXCEPT ![p] = known[Last(blocks[p]).key]]

Load(p) ==
  /\ pc[p] = "load"
  /\ IF Sig \in {None, sig[p]}
     THEN /\ Hinted(p, IF Sig = None THEN NoFixes ELSE fixes[p])
          /\ Go(p, "exists")
          /\ UNCHANGED <<at, stat, since>>
     ELSE /\ stat' = [stat EXCEPT ![p] = Sig]
          /\ since' = [since EXCEPT ![p] = now - Window]
          /\ at' = [at EXCEPT ![p] = 1]
          /\ Go(p, "list")
          /\ UNCHANGED hint
  /\ UNCHANGED <<now, file, body, mtime, found, handle, sig, fixes, seen, blocks, written,
                 racing>>

(* MetricsRecorder.read: first which files exist, then one after another.  *)
List(p) ==
  /\ pc[p] = "list"
  /\ found' = [found EXCEPT ![p] =
       IF file[Chronological[at[p]]] = 0 THEN @ ELSE @ \cup {Chronological[at[p]]}]
  /\ IF at[p] <= BackupCount
     THEN at' = [at EXCEPT ![p] = @ + 1] /\ UNCHANGED pc
     ELSE at' = [at EXCEPT ![p] = 1] /\ Go(p, "read")
  /\ UNCHANGED <<now, file, body, mtime, handle, stat, since, sig, fixes, seen, hint, blocks,
                 written, racing>>

Read(p) ==
  LET i == Chronological[at[p]] IN
  /\ pc[p] = "read"
  /\ seen' = [seen EXCEPT ![p] = IF i \in found[p] THEN @ \o At(i) ELSE @]
  /\ IF at[p] <= BackupCount
     THEN at' = [at EXCEPT ![p] = @ + 1] /\ UNCHANGED pc
     ELSE at' = [at EXCEPT ![p] = 0] /\ Go(p, "index")
  /\ UNCHANGED <<now, file, body, mtime, found, handle, stat, since, sig, fixes, hint, blocks,
                 written, racing>>

(* Mutant of Indexed: the stat of after the reading. *)
IndexedNow(p) == sig' = [sig EXCEPT ![p] = Sig]

(* The index is kept under the stat of before the reading.                 *)
Indexed(p) == sig' = [sig EXCEPT ![p] = stat[p]]

Index(p) ==
  /\ pc[p] = "index"
  /\ fixes' = [fixes EXCEPT ![p] = Build(seen[p], since[p])]
  /\ Indexed(p)
  /\ Hinted(p, fixes'[p])
  /\ Go(p, "exists")
  /\ stat' = [stat EXCEPT ![p] = None]
  /\ seen' = [seen EXCEPT ![p] = <<>>] /\ found' = [found EXCEPT ![p] = {}]
  /\ UNCHANGED <<now, file, body, mtime, at, handle, since, blocks, written, racing>>
-----------------------------------------------------------------------------
(* _rotate_if_needed, one system call at a time.                           *)
Asks(p, from, to) ==
  /\ pc[p] = from /\ Go(p, to)
  /\ UNCHANGED <<now, file, body, mtime, handle, index, blocks, written, racing>>

Exists(p) ==
  /\ Asks(p, "exists", IF file[0] = 0 THEN "open" ELSE "stat")
  /\ UNCHANGED at

(* Mutant of Fits: the incoming event is not counted. *)
FitsWithoutIt(i) == Len(At(i)) <= MaxBytes

Fits(i) == Len(At(i)) + 1 <= MaxBytes

(* A file that another process moved away meanwhile is an OSError, and the *)
(* event is given up.                                                      *)
GivesUp(p, i) ==
  /\ file[i] = 0
  /\ Go(p, "idle")
  /\ racing' = TRUE
  /\ UNCHANGED file

Stat(p) ==
  /\ pc[p] = "stat"
  /\ \/ GivesUp(p, 0)
     \/ /\ file[0] # 0
        /\ Go(p, IF Fits(0) THEN "open" ELSE "oldest")
        /\ UNCHANGED <<file, racing>>
  /\ UNCHANGED <<now, body, mtime, at, handle, index, blocks, written>>

Oldest(p) ==
  /\ Asks(p, "oldest", IF file[BackupCount] # 0 THEN "unlink"
                       ELSE IF BackupCount > 1 THEN "look" ELSE "last")
  /\ at' = [at EXCEPT ![p] = BackupCount - 1]

(* A rotation step; the others that it meets.                              *)
Moved(p, to) ==
  /\ file' = to
  /\ racing' = (racing \/ \E q \in Others(p) : pc[q] \in Reading \cup Rotating)

Unlink(p) ==
  /\ pc[p] = "unlink"
  /\ \/ GivesUp(p, BackupCount)
     \/ /\ file[BackupCount] # 0
        /\ Moved(p, [file EXCEPT ![BackupCount] = 0])
        /\ Go(p, IF BackupCount > 1 THEN "look" ELSE "last")
  /\ UNCHANGED <<now, body, mtime, at, handle, index, blocks, written>>

NextBackup(p) == IF at[p] > 1 THEN "look" ELSE "last"

Look(p) ==
  /\ Asks(p, "look", IF file[at[p]] # 0 THEN "move" ELSE NextBackup(p))
  /\ at' = IF file[at[p]] # 0 THEN at ELSE [at EXCEPT ![p] = @ - 1]

(* Mutant of Renamed: the backup is not moved out of the way. *)
NotRenamed(i) == IF i = 0 THEN [file EXCEPT ![0] = 0, ![1] = file[0]] ELSE file

Renamed(i) == [file EXCEPT ![i] = 0, ![i + 1] = file[i]]

Move(p) ==
  /\ pc[p] = "move"
  /\ \/ GivesUp(p, at[p]) /\ at' = [at EXCEPT ![p] = 0]
     \/ /\ file[at[p]] # 0
        /\ Moved(p, Renamed(at[p]))
        /\ Go(p, NextBackup(p))
        /\ at' = [at EXCEPT ![p] = @ - 1]
  /\ UNCHANGED <<now, body, mtime, handle, index, blocks, written>>

MoveCurrent(p) ==
  /\ pc[p] = "last"
  /\ \/ GivesUp(p, 0)
     \/ /\ file[0] # 0
        /\ Moved(p, Renamed(0))
        /\ Go(p, "open")
  /\ at' = [at EXCEPT ![p] = 0]
  /\ UNCHANGED <<now, body, mtime, handle, index, blocks, written>>

(* record(): open for append, which creates the file, then write.          *)
Open(p) ==
  /\ pc[p] = "open"
  /\ LET free == CHOOSE i \in Inodes : \A j \in 0..BackupCount, q \in Procs :
                   i # file[j] /\ i # handle[q]
         i == IF file[0] = 0 THEN free ELSE file[0]
     IN /\ file' = [file EXCEPT ![0] = i]
        /\ handle' = [handle EXCEPT ![p] = i]
        /\ body' = IF file[0] = 0 THEN [body EXCEPT ![i] = <<>>] ELSE body
        /\ mtime' = IF file[0] = 0 THEN [mtime EXCEPT ![i] = written] ELSE mtime
  /\ Go(p, "write")
  /\ UNCHANGED <<now, at, index, blocks, written, racing>>

Write(p) ==
  /\ pc[p] = "write"
  /\ body' = [body EXCEPT ![handle[p]] = Append(@, Last(blocks[p]))]
  /\ mtime' = [mtime EXCEPT ![handle[p]] = written + 1]
  /\ written' = written + 1
  /\ racing' = (racing \/ handle[p] # file[0])
  /\ handle' = [handle EXCEPT ![p] = 0]
  /\ Go(p, "idle")
  /\ UNCHANGED <<now, file, at, index, blocks>>

Next ==
  \E p \in Procs :
    \/ \E key \in Keys \cup {NoKey, Ok}, fix \in BOOLEAN : Block(p, key, fix)
    \/ Load(p) \/ List(p) \/ Read(p) \/ Index(p)
    \/ Exists(p) \/ Stat(p) \/ Oldest(p) \/ Unlink(p) \/ Look(p) \/ Move(p) \/ MoveCurrent(p)
    \/ Open(p) \/ Write(p)

Spec == Init /\ [][Next]_vars
-----------------------------------------------------------------------------
(* A file outgrows max_bytes by at most one event of every other process:  *)
(* each may have asked for its size before it was full.                    *)
FilesBounded == \A i \in 0..BackupCount : Len(At(i)) <= MaxBytes + Cardinality(Procs) - 1

(* "Events are in file order" (summarize_fallbacks): whatever rotates      *)
(* meanwhile, a reader meets the events of one process in the order they   *)
(* were recorded, and none twice.                                          *)
ReadsInOrder ==
  \A p \in Procs : \A i, j \in DOMAIN seen[p] :
    i < j /\ seen[p][i].by = seen[p][j].by => seen[p][i].n < seen[p][j].n

(* A HINT names a block that succeeded in a session where that very error  *)
(* had occurred before, even if events were lost or missed; "how it was    *)
(* mended the last time": that block came right after the error, unless a  *)
(* rotation met another process on the way.                                *)
Key(p) == Last(blocks[p]).key
HintIsItsFix ==
  \A p \in Procs : hint[p] # None =>
    LET s == blocks[hint[p].by]
    IN  /\ s[hint[p].n].fix
        /\ \E i \in 1..hint[p].n - 1 :
             s[i].key = Key(p) /\ (racing \/ i = hint[p].n - 1)

(* What Build says of the pairs of a log is what the loop over it finds:   *)
(* whatever a reader meets, with events lost or in the midst of others.    *)
BuildIsTheLoop ==
  \A p \in Procs :
    Build(seen[p], since[p]) = FoldLeft(Paired, Blank(since[p]), seen[p]).fixes

(* The cache lives while the file keeps its mtime and size: it then says,  *)
(* once a rotation is over, what a reading of all files would say that     *)
(* reads from where the cached one did. Its window does not move on with   *)
(* the clock: a fix that has become too old stays until an event is        *)
(* written.                                                                *)
NoneRotates == \A p \in Procs : pc[p] \notin Rotating
IndexIsCurrent ==
  ~racing /\ NoneRotates =>
    \A p \in Procs : sig[p] # None /\ sig[p] = Sig => fixes[p] = Build(Retained, since[p])

(* Rotation drops a file only when backup_count full files remain.         *)
HistoryKept ==
  [][\A i \in 0..BackupCount :
       ~racing' /\ file[i] # 0 /\ (\A j \in 0..BackupCount : file'[j] # file[i]) =>
         \A j \in 0..BackupCount \ {i} : Len(At(j)) >= MaxBytes]_vars
=============================================================================
