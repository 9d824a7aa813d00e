--------------------------- MODULE Metrics_proofs ----------------------------
(***************************************************************************)
(* Proofs about Metrics, for any number of processes, any size and number  *)
(* of files and any events.                                                *)
(*                                                                         *)
(* A file is bounded because every event that may still come to it without *)
(* another look at its size belongs to a process of its own (BoundInv). A  *)
(* reader, which goes from old names to new ones, meets every process'     *)
(* events in order because names only move the other way, and because a    *)
(* process that is late to write into a rotated file has nothing in the    *)
(* newer ones (OrderInv, with PastInv for the event it is about to write). *)
(*                                                                         *)
(* While no rotation meets another process, a backup name is missing below *)
(* another only while its file is on the way (RotationInv): all names are  *)
(* taken when the oldest is dropped. Then the log has no gaps, nor has     *)
(* what a reader meets (ReadingInv), and the success that mends an error   *)
(* in the events read is the block right after it (GenuineInv, MendInv).   *)
(*                                                                         *)
(* Build is what the loop over the events finds: after each of them an     *)
(* error is pending in a session if it is its last event so far, and the   *)
(* fix of a key is the last success so far that followed such an error     *)
(* (Holds), of the events that are not older than the window of the        *)
(* reading. And a cached index is what a new reading with its window would *)
(* find: the stat it is kept under never comes back (Earlier), because an  *)
(* event that is written makes the file newer, and a file that is created  *)
(* is empty, where the one rotated before it was not; a reader for whom    *)
(* the stat is still the same has read the files as they are (SeenFirst,   *)
(* CacheInv).                                                              *)
(***************************************************************************)
EXTENDS Metrics, FiniteSetTheorems, SequenceTheorems, WellFoundedInduction, TLAPS

(* Where a process stands: the loops' indices, its open file, its events.  *)
Phase(p) ==
  /\ pc[p] \in {"list", "read"} => at[p] \in 1..BackupCount + 1
  /\ pc[p] = "unlink" => at[p] = BackupCount - 1
  /\ pc[p] \in {"look", "move"} => at[p] \in 1..BackupCount - 1
  /\ pc[p] = "write" <=> handle[p] # 0
  /\ pc[p] # "idle" => blocks[p] # <<>>
  /\ pc[p] \notin {"read", "index"} => seen[p] = <<>>

Numbered(p) ==
  \A i \in 1..Len(blocks[p]) : blocks[p][i].by = p /\ blocks[p][i].n = i

PhaseInv == \A p \in Procs : Phase(p) /\ Numbered(p)


TypeInv == LogTypeOK /\ PhaseInv

LEMMA ProcsAreMany == Cardinality(Procs) \in Nat /\ Cardinality(Procs) > 0
<1>1. Cardinality(Procs) \in Nat
  BY MetricsAssumption, FS_CardinalityType
<1>2. Cardinality(Procs) # 0
  BY MetricsAssumption, FS_EmptySet
<1>. QED  BY <1>1, <1>2

(* A file that is created has an inode that no name and no process has.    *)
Free == CHOOSE i \in Inodes : \A j \in 0..BackupCount, q \in Procs :
          i # file[j] /\ i # handle[q]

LEMMA FreeInode ==
  ASSUME LogTypeOK, file[0] = 0
  PROVE  /\ Free \in Inodes
         /\ \A j \in 0..BackupCount : Free # file[j]
         /\ \A q \in Procs : Free # handle[q]
<1>. DEFINE Names == 0..BackupCount
            InUse == {file[j] : j \in Names} \cup {handle[q] : q \in Procs}
<1>1. BackupCount \in Nat /\ 0 \in Names
  BY MetricsAssumption
<1>2. IsFiniteSet(Names) /\ Cardinality(Names) = BackupCount + 1
  <2>1. 0 \in Int /\ BackupCount \in Int /\ 0 <= BackupCount
    BY <1>1
  <2>. QED  BY <2>1, FS_Interval
<1>3. /\ IsFiniteSet({file[j] : j \in Names})
      /\ Cardinality({file[j] : j \in Names}) <= BackupCount + 1
  <2>. DEFINE f == [j \in Names |-> file[j]]
  <2>1. {file[j] : j \in Names} = {f[j] : j \in Names}
    OBVIOUS
  <2>2. f \in Surjection(Names, {f[j] : j \in Names})
    BY DEF Surjection
  <2>3. /\ IsFiniteSet({f[j] : j \in Names})
        /\ Cardinality({f[j] : j \in Names}) <= Cardinality(Names)
    BY <1>2, <2>2, FS_Surjection
  <2>. QED  BY <1>2, <2>1, <2>3
<1>4. /\ IsFiniteSet({handle[q] : q \in Procs})
      /\ Cardinality({handle[q] : q \in Procs}) <= Cardinality(Procs)
  <2>. DEFINE h == [q \in Procs |-> handle[q]]
  <2>1. {handle[q] : q \in Procs} = {h[q] : q \in Procs}
    OBVIOUS
  <2>2. h \in Surjection(Procs, {h[q] : q \in Procs})
    BY DEF Surjection
  <2>3. /\ IsFiniteSet({h[q] : q \in Procs})
        /\ Cardinality({h[q] : q \in Procs}) <= Cardinality(Procs)
    BY MetricsAssumption, <2>2, FS_Surjection
  <2>. QED  BY <2>1, <2>3
<1>5. IsFiniteSet(InUse) /\ Cardinality(InUse) <= BackupCount + 1 + Cardinality(Procs)
  <2>1. /\ IsFiniteSet(InUse)
        /\ Cardinality(InUse) = Cardinality({file[j] : j \in Names})
             + Cardinality({handle[q] : q \in Procs})
             - Cardinality({file[j] : j \in Names} \cap {handle[q] : q \in Procs})
    BY <1>3, <1>4, FS_Union
  <2>2. Cardinality({file[j] : j \in Names} \cap {handle[q] : q \in Procs}) \in Nat
    BY <1>3, FS_Intersection, FS_CardinalityType
  <2>3. /\ Cardinality({file[j] : j \in Names}) \in Nat
        /\ Cardinality({handle[q] : q \in Procs}) \in Nat
    BY <1>3, <1>4, FS_CardinalityType
  <2>. HIDE DEF InUse, Names
  <2>. QED  BY <1>1, <1>3, <1>4, <2>1, <2>2, <2>3, ProcsAreMany
<1>6. IsFiniteSet(Inodes) /\ Cardinality(Inodes) = BackupCount + 1 + Cardinality(Procs)
  <2>1. /\ 1 \in Int /\ BackupCount + 1 + Cardinality(Procs) \in Int
        /\ 1 <= BackupCount + 1 + Cardinality(Procs)
    BY <1>1, ProcsAreMany
  <2>. QED  BY <2>1, FS_Interval DEF Inodes
<1>7. 0 \in InUse /\ 0 \notin Inodes
  <2>1. file[0] \in {file[j] : j \in Names}
    BY <1>1
  <2>. QED  BY <2>1 DEF Inodes
<1>8. PICK i \in Inodes : i \notin InUse
  <2>1. SUFFICES ASSUME Inodes \subseteq InUse PROVE FALSE
    OBVIOUS
  <2>2. Inodes \subseteq InUse \ {0}
    BY <1>7, <2>1
  <2>3. /\ IsFiniteSet(InUse \ {0})
        /\ Cardinality(InUse \ {0}) = Cardinality(InUse) - 1
    BY <1>5, <1>7, FS_RemoveElement
  <2>4. Cardinality(Inodes) <= Cardinality(InUse \ {0})
    BY <2>2, <2>3, FS_Subset
  <2>5. Cardinality(InUse) \in Nat
    BY <1>5, FS_CardinalityType
  <2>. HIDE DEF InUse, Names
  <2>. QED  BY <1>1, <1>5, <1>6, <2>3, <2>4, <2>5, ProcsAreMany
<1>9. \A j \in 0..BackupCount, q \in Procs : i # file[j] /\ i # handle[q]
  BY <1>8
<1>10. Free \in Inodes /\ \A j \in 0..BackupCount, q \in Procs : Free # file[j] /\ Free # handle[q]
  BY <1>8, <1>9, Zenon DEF Free
<1>. QED  BY <1>1, <1>10, MetricsAssumption

LEMMA OldFileTypes ==
  ASSUME NEW i \in 0..BackupCount
  PROVE  OldFile(i) \in Seq(Event) /\ Len(OldFile(i)) <= MaxBytes
<1>. DEFINE n == IF i = 0 THEN MaxBytes - 1 ELSE MaxBytes
            d == (BackupCount - i) * MaxBytes
<1>1. n \in Nat /\ n <= MaxBytes /\ d \in Nat /\ MaxBytes \in Nat
  <2>1. BackupCount - i \in Nat /\ MaxBytes \in Nat \ {0}
    BY MetricsAssumption
  <2>2. \A a, b \in Nat : a * b \in Nat
    OBVIOUS
  <2>. QED  BY <2>1, <2>2
<1>2. OldFile(i) = [j \in 1..n |-> [by |-> None, n |-> d + j, ts |-> 0, key |-> Ok, fix |-> FALSE]]
  BY DEF OldFile
<1>. HIDE DEF n, d
<1>3. \A j \in 1..n : [by |-> None, n |-> d + j, ts |-> 0, key |-> Ok, fix |-> FALSE] \in Event
  BY <1>1 DEF Event
<1>4. OldFile(i) \in [1..n -> Event]
  BY <1>2, <1>3
<1>5. OldFile(i) \in Seq(Event)
  BY <1>1, <1>4, SeqDef
<1>6. Len(OldFile(i)) = n
  BY <1>1, <1>4, <1>5, LenProperties
<1>. QED  BY <1>1, <1>5, <1>6

LEMMA InitTypes == Init => TypeInv
<1>. SUFFICES ASSUME Init PROVE TypeInv
  OBVIOUS
<1>. USE MetricsAssumption
<1>1. PICK old \in BOOLEAN :
        /\ file = [i \in 0..BackupCount |-> IF old THEN i + 1 ELSE 0]
        /\ body = [i \in Inodes |->
             IF old /\ i <= BackupCount + 1 THEN OldFile(i - 1) ELSE <<>>]
        /\ written = IF old THEN (BackupCount + 1) * MaxBytes - 1 ELSE 0
  BY DEF Init
<1>2. file \in [0..BackupCount -> Inodes \cup {0}]
  BY <1>1, ProcsAreMany DEF Inodes
<1>3. body \in [Inodes -> Seq(Event)]
  <2>1. ASSUME NEW i \in Inodes, i <= BackupCount + 1 PROVE OldFile(i - 1) \in Seq(Event)
    BY <2>1, ProcsAreMany, OldFileTypes DEF Inodes
  <2>. QED  BY <1>1, <2>1
<1>4. written \in Nat
  <2>. DEFINE d == BackupCount * MaxBytes
  <2>1. d \in Nat /\ (BackupCount + 1) * MaxBytes = d + MaxBytes
    OBVIOUS
  <2>. HIDE DEF d
  <2>. QED  BY <1>1, <2>1
<1>5. \A i, j \in 0..BackupCount : i # j /\ file[i] # 0 => file[i] # file[j]
  BY <1>1
<1>6. LogTypeOK
  <2>1. mtime \in [Inodes -> Nat] /\ pc \in [Procs -> Phases]
    BY DEF Init, Phases
  <2>2. at \in [Procs -> 0..BackupCount + 1] /\ found \in [Procs -> SUBSET (0..BackupCount)]
    BY DEF Init
  <2>3. handle \in [Procs -> Inodes \cup {0}] /\ racing \in BOOLEAN
    BY DEF Init
  <2>4. seen \in [Procs -> Seq(Event)] /\ blocks \in [Procs -> Seq(Event)]
    BY DEF Init
  <2>5. now \in Nat /\ since \in [Procs -> Int]
    BY DEF Init
  <2>. QED  BY <1>2, <1>3, <1>4, <1>5, <2>1, <2>2, <2>3, <2>4, <2>5 DEF LogTypeOK
<1>7. PhaseInv
  BY DEF Init, PhaseInv, Phase, Numbered
<1>. QED  BY <1>6, <1>7 DEF TypeInv

(* Where the files are, a rotation step only takes away or moves one on.   *)
LEMMA RenamedTypes ==
  ASSUME LogTypeOK, NEW i \in 0..BackupCount - 1
  PROVE  /\ Renamed(i) \in [0..BackupCount -> Inodes \cup {0}]
         /\ \A j, k \in 0..BackupCount :
              j # k /\ Renamed(i)[j] # 0 => Renamed(i)[j] # Renamed(i)[k]
<1>1. BackupCount \in Nat /\ i \in 0..BackupCount /\ i + 1 \in 0..BackupCount
  BY MetricsAssumption
<1>2. \A j \in 0..BackupCount :
        Renamed(i)[j] = IF j = i + 1 THEN file[i] ELSE IF j = i THEN 0 ELSE file[j]
  BY <1>1 DEF LogTypeOK, Renamed
<1>3. Renamed(i) = [j \in 0..BackupCount |-> Renamed(i)[j]]
  BY <1>1 DEF LogTypeOK, Renamed
<1>4. \A j \in 0..BackupCount : file[j] \in Inodes \cup {0}
  BY DEF LogTypeOK
<1>5. Renamed(i) \in [0..BackupCount -> Inodes \cup {0}]
  BY <1>1, <1>2, <1>3, <1>4
<1>6. \A j, k \in 0..BackupCount : j # k /\ file[j] # 0 => file[j] # file[k]
  BY DEF LogTypeOK
<1>. QED  BY <1>1, <1>2, <1>5, <1>6

LEMMA Typed ==
  LogTypeOK => /\ pc \in [Procs -> Phases] /\ at \in [Procs -> 0..BackupCount + 1]
               /\ handle \in [Procs -> Inodes \cup {0}]
               /\ seen \in [Procs -> Seq(Event)] /\ blocks \in [Procs -> Seq(Event)]
BY DEF LogTypeOK

(* The clock, and from when on a reading takes events.                     *)
LEMMA ClockTypes ==
  ASSUME LogTypeOK, Next
  PROVE  now' \in Nat /\ since' \in [Procs -> Int]
<1>0. now \in Nat /\ since \in [Procs -> Int] /\ Pace \subseteq Nat /\ Window \in Nat
  BY MetricsAssumption DEF LogTypeOK
<1>1. ASSUME NEW p \in Procs, NEW key, NEW fix, Block(p, key, fix)
      PROVE  now' \in Nat /\ since' \in [Procs -> Int]
  BY <1>0, <1>1 DEF Block
<1>2. ASSUME NEW p \in Procs, Load(p)
      PROVE  now' \in Nat /\ since' \in [Procs -> Int]
  <2>1. now' = now /\ (since' = since \/ since' = [since EXCEPT ![p] = now - Window])
    BY <1>2, Zenon DEF Load
  <2>. QED  BY <1>0, <2>1
<1>3. ASSUME NEW p \in Procs,
             \/ List(p) \/ Read(p) \/ Index(p) \/ Exists(p) \/ Stat(p) \/ Oldest(p)
             \/ Unlink(p) \/ Look(p) \/ Move(p) \/ MoveCurrent(p) \/ Open(p) \/ Write(p)
      PROVE  UNCHANGED <<now, since>>
  <2>1. List(p) \/ Read(p) \/ Index(p) => UNCHANGED <<now, since>>
    BY DEF List, Read, Index
  <2>2. Exists(p) \/ Oldest(p) \/ Look(p) => UNCHANGED <<now, since>>
    BY DEF Exists, Oldest, Look, Asks, index
  <2>3. Stat(p) \/ Unlink(p) \/ Move(p) \/ MoveCurrent(p) => UNCHANGED <<now, since>>
    BY DEF Stat, Unlink, Move, MoveCurrent, index
  <2>4. Open(p) \/ Write(p) => UNCHANGED <<now, since>>
    BY DEF Open, Write, index
  <2>. QED  BY <1>3, <2>1, <2>2, <2>3, <2>4
<1>. QED  BY <1>0, <1>1, <1>2, <1>3 DEF Next

(* A step of one process leaves the others where they are.                 *)
Same(q) ==
  /\ pc'[q] = pc[q] /\ at'[q] = at[q] /\ handle'[q] = handle[q]
  /\ seen'[q] = seen[q] /\ blocks'[q] = blocks[q]

LEMMA PhaseSteps ==
  ASSUME PhaseInv, NEW p \in Procs, \A q \in Procs \ {p} : Same(q),
         Phase(p)', Numbered(p)'
  PROVE  PhaseInv'
<1>1. ASSUME NEW q \in Procs, q # p PROVE Phase(q)' /\ Numbered(q)'
  <2>1. Same(q) /\ Phase(q) /\ Numbered(q)
    BY <1>1 DEF PhaseInv
  <2>. QED  BY <2>1 DEF Same, Phase, Numbered
<1>. QED  BY <1>1 DEF PhaseInv

LEMMA Quiet ==
  ASSUME LogTypeOK, UNCHANGED <<file, body, mtime, handle, seen, blocks, written>>,
         pc' \in [Procs -> Phases], at' \in [Procs -> 0..BackupCount + 1],
         found' \in [Procs -> SUBSET (0..BackupCount)], racing' \in BOOLEAN,
         now' \in Nat, since' \in [Procs -> Int]
  PROVE  LogTypeOK'
BY DEF LogTypeOK

LEMMA BlockTypes ==
  ASSUME TypeInv, NEW p \in Procs, NEW key \in Keys \cup {NoKey, Ok}, NEW fix \in BOOLEAN,
         Block(p, key, fix)
  PROVE  TypeInv'
<1>. DEFINE e == [by |-> p, n |-> Len(blocks[p]) + 1, ts |-> now', key |-> key, fix |-> fix]
            to == IF key \in Keys \ NoPastFix THEN "load" ELSE "exists"
<1>0. LogTypeOK /\ PhaseInv /\ Phase(p) /\ Numbered(p)
  BY DEF TypeInv, PhaseInv
<1>00. now' \in Nat /\ since' \in [Procs -> Int]
  BY <1>0, ClockTypes DEF Next
<1>1. blocks[p] \in Seq(Event) /\ e \in Event /\ e.by = p /\ e.n = Len(blocks[p]) + 1
  <2>1. blocks[p] \in Seq(Event)
    BY <1>0, Typed
  <2>2. Len(blocks[p]) + 1 \in Nat
    BY <2>1, LenProperties
  <2>. QED  BY <1>00, <2>1, <2>2 DEF Event
<1>2. blocks' = [blocks EXCEPT ![p] = Append(blocks[p], e)] /\ pc' = [pc EXCEPT ![p] = to]
  BY DEF Block, Go
<1>3. to \in {"load", "exists"} /\ to \in Phases
  BY DEF Phases, Reading
<1>. HIDE DEF e, to
<1>4. /\ pc[p] = "idle" /\ pc'[p] = to /\ blocks'[p] = Append(blocks[p], e)
      /\ at'[p] = at[p] /\ handle'[p] = handle[p] /\ seen'[p] = seen[p]
  BY <1>0, <1>2, Typed DEF Block
<1>5. LogTypeOK'
  <2>1. blocks' \in [Procs -> Seq(Event)]
    BY <1>0, <1>1, <1>2, Typed
  <2>2. pc' \in [Procs -> Phases]
    BY <1>0, <1>2, <1>3, Typed
  <2>. QED  BY <1>0, <1>00, <2>1, <2>2 DEF LogTypeOK, Block
<1>6. Append(blocks[p], e) # <<>>
  BY <1>1
<1>7. Phase(p)'
  BY <1>0, <1>3, <1>4, <1>6 DEF Phase
<1>8. Numbered(p)'
  BY <1>0, <1>1, <1>4 DEF Numbered
<1>9. \A q \in Procs \ {p} : Same(q)
  BY <1>0, <1>2, Typed DEF Same, Block
<1>. QED  BY <1>0, <1>5, <1>7, <1>8, <1>9, PhaseSteps DEF TypeInv

(* The steps of an index, and of a rotation that changes no file.          *)
LEMMA QuietTypes ==
  ASSUME TypeInv, NEW p \in Procs,
         Load(p) \/ List(p) \/ Exists(p) \/ Oldest(p) \/ Look(p)
  PROVE  TypeInv'
<1>0. LogTypeOK /\ PhaseInv /\ Phase(p) /\ Numbered(p)
  BY DEF TypeInv, PhaseInv
<1>00. now' \in Nat /\ since' \in [Procs -> Int]
  BY <1>0, ClockTypes DEF Next
<1>1. BackupCount \in Nat \ {0}
  BY MetricsAssumption
<1>. DEFINE to == pc'[p]
            n == at'[p]
<1>2. /\ pc' = [pc EXCEPT ![p] = to] /\ at' = [at EXCEPT ![p] = n]
      /\ to \in Phases /\ n \in 0..BackupCount + 1
      /\ pc[p] \notin {"idle", "index", "read", "write"}
      /\ to \notin {"idle", "index", "write"}
      /\ to \in {"list", "read"} => n \in 1..BackupCount + 1
      /\ to = "unlink" => n = BackupCount - 1
      /\ to \in {"look", "move"} => n \in 1..BackupCount - 1
  <2>0. /\ at[p] \in 0..BackupCount + 1 /\ pc[p] \in Phases
        /\ pc \in [Procs -> Phases] /\ at \in [Procs -> 0..BackupCount + 1]
    BY <1>0, Typed
  <2>1. CASE Load(p)
    BY <1>1, <2>0, <2>1 DEF Load, Go, Phases, Reading
  <2>2. CASE List(p)
    BY <1>0, <1>1, <2>0, <2>2 DEF List, Go, Phases, Reading, Phase
  <2>3. CASE Exists(p)
    BY <1>1, <2>0, <2>3 DEF Exists, Asks, Go, Phases
  <2>4. CASE Oldest(p)
    BY <1>1, <2>0, <2>4 DEF Oldest, Asks, Go, Phases, Rotating
  <2>5. CASE Look(p)
    <3>1. at[p] \in 1..BackupCount - 1
      BY <1>0, <2>5 DEF Look, Asks, Phase
    <3>2. CASE file[at[p]] # 0
      BY <1>1, <2>0, <2>5, <3>1, <3>2 DEF Look, Asks, Go, Phases, Rotating
    <3>3. CASE file[at[p]] = 0
      BY <1>1, <2>0, <2>5, <3>1, <3>3 DEF Look, Asks, Go, NextBackup, Phases, Rotating
    <3>. QED  BY <3>2, <3>3
  <2>. QED  BY <2>1, <2>2, <2>3, <2>4, <2>5
<1>. HIDE DEF to, n
<1>3. UNCHANGED <<file, body, mtime, handle, seen, blocks, written, racing>>
  BY DEF Load, List, Exists, Oldest, Look, Asks, index
<1>4. found' \in [Procs -> SUBSET (0..BackupCount)]
  <2>1. found \in [Procs -> SUBSET (0..BackupCount)]
    BY <1>0 DEF LogTypeOK
  <2>2. CASE List(p)
    <3>1. Chronological[at[p]] \in 0..BackupCount
      BY <1>0, <1>1, <2>2 DEF Phase, List, Chronological
    <3>. QED  BY <2>1, <2>2, <3>1 DEF List
  <2>3. CASE ~List(p)
    BY <2>1, <2>3 DEF Load, Exists, Oldest, Look, Asks, index
  <2>. QED  BY <2>2, <2>3
<1>5. LogTypeOK'
  <2>1. pc' \in [Procs -> Phases] /\ at' \in [Procs -> 0..BackupCount + 1]
    BY <1>0, <1>2, Typed
  <2>2. racing' \in BOOLEAN
    BY <1>0, <1>3 DEF LogTypeOK
  <2>. QED  BY <1>0, <1>00, <1>3, <1>4, <2>1, <2>2, Quiet
<1>6. pc'[p] = to /\ at'[p] = n /\ \A q \in Procs \ {p} : pc'[q] = pc[q] /\ at'[q] = at[q]
  BY <1>0, <1>2, Typed
<1>7. Phase(p)' /\ Numbered(p)'
  BY <1>0, <1>2, <1>3, <1>6 DEF Phase, Numbered
<1>8. \A q \in Procs \ {p} : Same(q)
  BY <1>3, <1>6 DEF Same
<1>. QED  BY <1>0, <1>5, <1>7, <1>8, PhaseSteps DEF TypeInv

LEMMA ReadTypes ==
  ASSUME TypeInv, NEW p \in Procs, Read(p)
  PROVE  TypeInv'
<1>0. LogTypeOK /\ PhaseInv /\ Phase(p) /\ Numbered(p)
  BY DEF TypeInv, PhaseInv
<1>00. now' \in Nat /\ since' \in [Procs -> Int]
  BY <1>0, ClockTypes DEF Next
<1>1. BackupCount \in Nat \ {0}
  BY MetricsAssumption
<1>2. at[p] \in 1..BackupCount + 1 /\ pc[p] = "read" /\ Chronological[at[p]] \in 0..BackupCount
  BY <1>0, <1>1 DEF Read, Phase, Chronological
<1>3. At(Chronological[at[p]]) \in Seq(Event)
  <2>1. \A i \in 0..BackupCount : file[i] # 0 => body[file[i]] \in Seq(Event)
    BY <1>0 DEF LogTypeOK
  <2>. QED  BY <1>2, <2>1 DEF At
<1>4. seen' \in [Procs -> Seq(Event)]
  <2>1. seen[p] \o At(Chronological[at[p]]) \in Seq(Event)
    BY <1>0, <1>3, Typed
  <2>. QED  BY <1>0, <2>1, Typed DEF Read
<1>5. /\ pc' \in [Procs -> Phases] /\ at' \in [Procs -> 0..BackupCount + 1]
      /\ pc'[p] \in {"read", "index"}
      /\ pc'[p] = "read" => at'[p] \in 1..BackupCount + 1
  <2>1. CASE at[p] <= BackupCount
    <3>1. pc' = pc /\ at' = [at EXCEPT ![p] = at[p] + 1]
      BY <2>1 DEF Read
    <3>. QED  BY <1>0, <1>1, <1>2, <2>1, <3>1, Typed
  <2>2. CASE ~(at[p] <= BackupCount)
    <3>1. pc' = [pc EXCEPT ![p] = "index"] /\ at' = [at EXCEPT ![p] = 0]
      BY <2>2 DEF Read, Go
    <3>. QED  BY <1>0, <1>1, <1>2, <2>2, <3>1, Typed DEF Phases, Reading
  <2>. QED  BY <2>1, <2>2
<1>6. LogTypeOK'
  BY <1>0, <1>00, <1>4, <1>5 DEF LogTypeOK, Read
<1>7. Phase(p)' /\ Numbered(p)'
  <2>1. handle'[p] = handle[p] /\ blocks'[p] = blocks[p]
    BY DEF Read
  <2>2. handle[p] = 0 /\ blocks[p] # <<>>
    BY <1>0, <1>2 DEF Phase
  <2>3. Phase(p)'
    BY <1>1, <1>5, <2>1, <2>2 DEF Phase
  <2>. QED  BY <1>0, <2>1, <2>3 DEF Numbered
<1>8. \A q \in Procs \ {p} : Same(q)
  <2>1. /\ \A q \in Procs \ {p} : pc'[q] = pc[q]
        /\ \A q \in Procs \ {p} : at'[q] = at[q]
    BY <1>0, Typed DEF Read, Go
  <2>2. \A q \in Procs \ {p} : seen'[q] = seen[q]
    BY <1>0, Typed DEF Read
  <2>. QED  BY <2>1, <2>2 DEF Same, Read
<1>. QED  BY <1>0, <1>6, <1>7, <1>8, PhaseSteps DEF TypeInv

LEMMA IndexTypes ==
  ASSUME TypeInv, NEW p \in Procs, Index(p)
  PROVE  TypeInv'
<1>0. LogTypeOK /\ PhaseInv /\ Phase(p) /\ Numbered(p)
  BY DEF TypeInv, PhaseInv
<1>00. now' \in Nat /\ since' \in [Procs -> Int]
  BY <1>0, ClockTypes DEF Next
<1>1. pc' = [pc EXCEPT ![p] = "exists"] /\ pc' \in [Procs -> Phases] /\ pc'[p] = "exists"
  BY <1>0, Typed DEF Index, Go, Phases
<1>2. seen' \in [Procs -> Seq(Event)] /\ seen'[p] = <<>>
  BY <1>0, Typed DEF Index
<1>3. found' \in [Procs -> SUBSET (0..BackupCount)]
  BY <1>0 DEF Index, LogTypeOK
<1>4. LogTypeOK'
  BY <1>0, <1>00, <1>1, <1>2, <1>3 DEF LogTypeOK, Index
<1>5. Phase(p)' /\ Numbered(p)'
  BY <1>0, <1>1, <1>2 DEF Phase, Numbered, Index
<1>6. \A q \in Procs \ {p} : Same(q)
  BY <1>0, <1>1, Typed DEF Same, Index
<1>. QED  BY <1>0, <1>4, <1>5, <1>6, PhaseSteps DEF TypeInv

(* What the steps of a rotation that look at a file or touch one can do.   *)
LEMMA RotationSteps ==
  ASSUME TypeInv, NEW p \in Procs, Stat(p) \/ Unlink(p) \/ Move(p) \/ MoveCurrent(p)
  PROVE  /\ \/ file' = file
            \/ file' = [file EXCEPT ![BackupCount] = 0]
            \/ \E i \in 0..BackupCount - 1 : file' = Renamed(i)
         /\ pc[p] \in {"stat", "unlink", "move", "last"}
         /\ pc' = [pc EXCEPT ![p] = pc'[p]] /\ at' = [at EXCEPT ![p] = at'[p]]
         /\ pc'[p] \in {"idle", "oldest", "look", "last", "open"}
         /\ at'[p] \in 0..BackupCount + 1
         /\ pc'[p] = "look" => at'[p] \in 1..BackupCount - 1
         /\ pc'[p] = "open" => file'[0] = 0 \/ (file' = file /\ Fits(0))
         /\ racing' \in BOOLEAN
         /\ UNCHANGED <<body, mtime, handle, seen, blocks, written, found>>
<1>0. LogTypeOK /\ Phase(p)
  BY DEF TypeInv, PhaseInv
<1>1. BackupCount \in Nat \ {0} /\ 0 \in 0..BackupCount - 1
  BY MetricsAssumption
<1>2. /\ pc \in [Procs -> Phases] /\ at \in [Procs -> 0..BackupCount + 1]
      /\ racing \in BOOLEAN /\ at[p] \in 0..BackupCount + 1
  BY <1>0, Typed DEF LogTypeOK
<1>3. CASE Stat(p)
  BY <1>2, <1>3 DEF Stat, GivesUp, Go, index
<1>4. CASE Unlink(p)
  <2>1. at[p] = BackupCount - 1
    BY <1>0, <1>4 DEF Unlink, Phase
  <2>2. CASE GivesUp(p, BackupCount)
    BY <1>1, <1>2, <1>4, <2>2 DEF Unlink, GivesUp, Go, index
  <2>3. CASE ~GivesUp(p, BackupCount)
    <3>1. racing' \in BOOLEAN /\ file' = [file EXCEPT ![BackupCount] = 0]
      BY <1>2, <1>4, <2>3 DEF Unlink, Moved
    <3>2. pc' = [pc EXCEPT ![p] = IF BackupCount > 1 THEN "look" ELSE "last"]
      BY <1>4, <2>3 DEF Unlink, Go
    <3>3. pc'[p] \in {"look", "last"} /\ (pc'[p] = "look" => BackupCount > 1)
      BY <1>2, <3>2
    <3>. QED  BY <1>1, <1>2, <1>4, <2>1, <3>1, <3>2, <3>3 DEF Unlink, index
  <2>. QED  BY <2>2, <2>3
<1>5. CASE Move(p)
  <2>1. at[p] \in 1..BackupCount - 1 /\ at[p] \in 0..BackupCount - 1
    BY <1>0, <1>5 DEF Move, Phase
  <2>2. CASE GivesUp(p, at[p]) /\ at' = [at EXCEPT ![p] = 0]
    BY <1>1, <1>2, <1>5, <2>2 DEF Move, GivesUp, Go, index
  <2>3. CASE Moved(p, Renamed(at[p])) /\ Go(p, NextBackup(p)) /\ at' = [at EXCEPT ![p] = @ - 1]
    <3>1. racing' \in BOOLEAN /\ file' = Renamed(at[p])
      BY <1>2, <2>3, Zenon DEF Moved
    <3>2. pc'[p] \in {"look", "last"} /\ (pc'[p] = "look" => at[p] > 1) /\ at'[p] = at[p] - 1
      BY <1>2, <2>3 DEF Go, NextBackup
    <3>. QED  BY <1>1, <1>2, <1>5, <2>1, <2>3, <3>1, <3>2 DEF Move, Go, index
  <2>. QED  BY <1>5, <2>2, <2>3 DEF Move
<1>6. CASE MoveCurrent(p)
  <2>1. CASE GivesUp(p, 0)
    BY <1>1, <1>2, <1>6, <2>1 DEF MoveCurrent, GivesUp, Go, index
  <2>2. CASE Moved(p, Renamed(0)) /\ Go(p, "open")
    <3>1. racing' \in BOOLEAN /\ file' = Renamed(0)
      BY <1>2, <2>2, Zenon DEF Moved
    <3>2. file'[0] = 0
      BY <1>0, <1>1, <3>1 DEF Renamed, LogTypeOK
    <3>. QED  BY <1>1, <1>2, <1>6, <2>2, <3>1, <3>2 DEF MoveCurrent, Go, index
  <2>. QED  BY <1>6, <2>1, <2>2 DEF MoveCurrent
<1>. QED  BY <1>3, <1>4, <1>5, <1>6

LEMMA RotationTypes ==
  ASSUME TypeInv, NEW p \in Procs, Stat(p) \/ Unlink(p) \/ Move(p) \/ MoveCurrent(p)
  PROVE  TypeInv'
<1>0. LogTypeOK /\ PhaseInv /\ Phase(p) /\ Numbered(p)
  BY DEF TypeInv, PhaseInv
<1>00. now' \in Nat /\ since' \in [Procs -> Int]
  BY <1>0, ClockTypes DEF Next
<1>1. BackupCount \in Nat \ {0}
  BY MetricsAssumption
<1>2. /\ file' \in [0..BackupCount -> Inodes \cup {0}]
      /\ \A i, j \in 0..BackupCount : i # j /\ file'[i] # 0 => file'[i] # file'[j]
  <2>1. CASE file' = file
    BY <1>0, <2>1 DEF LogTypeOK
  <2>2. CASE file' = [file EXCEPT ![BackupCount] = 0]
    BY <1>0, <1>1, <2>2 DEF LogTypeOK
  <2>3. CASE \E i \in 0..BackupCount - 1 : file' = Renamed(i)
    BY <1>0, <2>3, RenamedTypes
  <2>. QED  BY <2>1, <2>2, <2>3, RotationSteps
<1>3. pc' \in [Procs -> Phases] /\ at' \in [Procs -> 0..BackupCount + 1]
  <2>1. pc'[p] \in Phases
    BY RotationSteps DEF Phases, Rotating
  <2>. QED  BY <1>0, <2>1, RotationSteps, Typed
<1>4. LogTypeOK'
  BY <1>0, <1>00, <1>2, <1>3, RotationSteps DEF LogTypeOK
<1>5. Phase(p)' /\ Numbered(p)'
  BY <1>0, RotationSteps DEF Phase, Numbered
<1>6. \A q \in Procs \ {p} : Same(q)
  BY <1>0, RotationSteps, Typed DEF Same
<1>. QED  BY <1>0, <1>4, <1>5, <1>6, PhaseSteps DEF TypeInv

(* The file that is opened is the current one, or a new and empty one.     *)
LEMMA OpenSteps ==
  ASSUME LogTypeOK, NEW p \in Procs, Open(p)
  PROVE  \E i \in Inodes :
           /\ file' = [file EXCEPT ![0] = i] /\ handle' = [handle EXCEPT ![p] = i]
           /\ file[0] # 0 => i = file[0] /\ body' = body /\ mtime' = mtime
           /\ file[0] = 0 => /\ \A j \in 0..BackupCount : i # file[j]
                             /\ \A q \in Procs : i # handle[q]
                             /\ body' = [body EXCEPT ![i] = <<>>]
                             /\ mtime' = [mtime EXCEPT ![i] = written]
<1>1. 0 \in 0..BackupCount
  BY MetricsAssumption
<1>2. CASE file[0] = 0
  <2>1. /\ file' = [file EXCEPT ![0] = Free] /\ handle' = [handle EXCEPT ![p] = Free]
        /\ body' = [body EXCEPT ![Free] = <<>>] /\ mtime' = [mtime EXCEPT ![Free] = written]
    BY <1>2 DEF Open, Free
  <2>. QED  BY <1>2, <2>1, FreeInode
<1>3. CASE file[0] # 0
  <2>1. file[0] \in Inodes
    BY <1>1, <1>3 DEF LogTypeOK
  <2>2. /\ file' = [file EXCEPT ![0] = file[0]] /\ handle' = [handle EXCEPT ![p] = file[0]]
        /\ body' = body /\ mtime' = mtime
    BY <1>3 DEF Open
  <2>. QED  BY <1>3, <2>1, <2>2
<1>. QED  BY <1>2, <1>3

LEMMA OpenTypes ==
  ASSUME TypeInv, NEW p \in Procs, Open(p)
  PROVE  TypeInv'
<1>0. LogTypeOK /\ PhaseInv /\ Phase(p) /\ Numbered(p)
  BY DEF TypeInv, PhaseInv
<1>00. now' \in Nat /\ since' \in [Procs -> Int]
  BY <1>0, ClockTypes DEF Next
<1>1. PICK i \in Inodes :
        /\ file' = [file EXCEPT ![0] = i] /\ handle' = [handle EXCEPT ![p] = i]
        /\ file[0] # 0 => i = file[0] /\ body' = body /\ mtime' = mtime
        /\ file[0] = 0 => /\ \A j \in 0..BackupCount : i # file[j]
                          /\ body' = [body EXCEPT ![i] = <<>>]
                          /\ mtime' = [mtime EXCEPT ![i] = written]
  BY <1>0, OpenSteps
<1>2. i # 0 /\ 0 \in 0..BackupCount
  BY MetricsAssumption DEF Inodes
<1>3. /\ file' \in [0..BackupCount -> Inodes \cup {0}]
      /\ \A j, k \in 0..BackupCount : j # k /\ file'[j] # 0 => file'[j] # file'[k]
  BY <1>0, <1>1, <1>2 DEF LogTypeOK
<1>4. body' \in [Inodes -> Seq(Event)] /\ mtime' \in [Inodes -> Nat]
  <2>1. /\ body \in [Inodes -> Seq(Event)] /\ <<>> \in Seq(Event)
        /\ mtime \in [Inodes -> Nat] /\ written \in Nat
    BY <1>0 DEF LogTypeOK
  <2>2. CASE file[0] = 0
    BY <1>1, <2>1, <2>2
  <2>3. CASE file[0] # 0
    BY <1>1, <2>1, <2>3
  <2>. QED  BY <2>2, <2>3
<1>5. pc' = [pc EXCEPT ![p] = "write"] /\ pc' \in [Procs -> Phases] /\ pc'[p] = "write"
  BY <1>0, Typed DEF Open, Go, Phases
<1>6. handle' \in [Procs -> Inodes \cup {0}] /\ handle'[p] # 0
  BY <1>0, <1>1, <1>2, Typed
<1>7. UNCHANGED <<at, found, seen, blocks, written, racing>> /\ pc[p] = "open"
  BY DEF Open, index
<1>8. LogTypeOK'
  BY <1>0, <1>00, <1>3, <1>4, <1>5, <1>6, <1>7 DEF LogTypeOK
<1>9. Phase(p)' /\ Numbered(p)'
  BY <1>0, <1>5, <1>6, <1>7 DEF Phase, Numbered
<1>10. \A q \in Procs \ {p} : Same(q)
  BY <1>0, <1>1, <1>5, <1>7, Typed DEF Same
<1>. QED  BY <1>0, <1>8, <1>9, <1>10, PhaseSteps DEF TypeInv

(* A process writes the event of its last block into the file it has open. *)
LEMMA WriteSteps ==
  ASSUME TypeInv, NEW p \in Procs, Write(p)
  PROVE  \E e \in Event :
           /\ e = Last(blocks[p]) /\ e.by = p /\ e.n = Len(blocks[p])
           /\ handle[p] \in Inodes /\ pc[p] = "write"
           /\ body' = [body EXCEPT ![handle[p]] = Append(body[handle[p]], e)]
           /\ handle' = [handle EXCEPT ![p] = 0] /\ pc' = [pc EXCEPT ![p] = "idle"]
           /\ UNCHANGED <<file, at, found, seen, blocks>>
<1>0. LogTypeOK /\ PhaseInv /\ Phase(p) /\ Numbered(p)
  BY DEF TypeInv, PhaseInv
<1>1. handle[p] \in Inodes /\ blocks[p] # <<>> /\ pc[p] = "write"
  BY <1>0, Typed DEF Write, Phase
<1>2. Len(blocks[p]) \in 1..Len(blocks[p]) /\ Last(blocks[p]) \in Event
  <2>1. blocks[p] \in Seq(Event)
    BY <1>0, Typed
  <2>. QED  BY <1>1, <2>1 DEF Last
<1>3. Last(blocks[p]).by = p /\ Last(blocks[p]).n = Len(blocks[p])
  BY <1>0, <1>2 DEF Numbered, Last
<1>. QED  BY <1>1, <1>2, <1>3 DEF Write, Go, index

LEMMA WriteTypes ==
  ASSUME TypeInv, NEW p \in Procs, Write(p)
  PROVE  TypeInv'
<1>0. LogTypeOK /\ PhaseInv /\ Phase(p) /\ Numbered(p)
  BY DEF TypeInv, PhaseInv
<1>00. now' \in Nat /\ since' \in [Procs -> Int]
  BY <1>0, ClockTypes DEF Next
<1>1. PICK e \in Event :
        /\ handle[p] \in Inodes /\ pc[p] = "write"
        /\ body' = [body EXCEPT ![handle[p]] = Append(body[handle[p]], e)]
        /\ handle' = [handle EXCEPT ![p] = 0] /\ pc' = [pc EXCEPT ![p] = "idle"]
        /\ UNCHANGED <<file, at, found, seen, blocks>>
  BY WriteSteps
<1>2. body' \in [Inodes -> Seq(Event)]
  <2>1. body[handle[p]] \in Seq(Event) /\ body \in [Inodes -> Seq(Event)]
    BY <1>0, <1>1 DEF LogTypeOK
  <2>2. Append(body[handle[p]], e) \in Seq(Event)
    BY <2>1
  <2>. QED  BY <1>1, <2>1, <2>2
<1>3. mtime' \in [Inodes -> Nat] /\ written' \in Nat /\ racing' \in BOOLEAN
  <2>1. mtime \in [Inodes -> Nat] /\ written + 1 \in Nat
    BY <1>0 DEF LogTypeOK
  <2>2. racing' = (racing \/ handle[p] # file[0]) /\ racing \in BOOLEAN
    BY <1>0, Zenon DEF LogTypeOK, Write
  <2>3. racing' \in BOOLEAN
    BY <2>2, Zenon
  <2>. QED  BY <1>1, <2>1, <2>3 DEF Write
<1>4. pc' \in [Procs -> Phases] /\ handle' \in [Procs -> Inodes \cup {0}]
  BY <1>0, <1>1, Typed DEF Phases
<1>5. pc'[p] = "idle" /\ handle'[p] = 0
  BY <1>0, <1>1, Typed
<1>6. LogTypeOK'
  BY <1>0, <1>00, <1>1, <1>2, <1>3, <1>4 DEF LogTypeOK
<1>7. Phase(p)' /\ Numbered(p)'
  BY <1>0, <1>1, <1>5 DEF Phase, Numbered
<1>8. \A q \in Procs \ {p} : Same(q)
  BY <1>0, <1>1, Typed DEF Same
<1>. QED  BY <1>0, <1>6, <1>7, <1>8, PhaseSteps DEF TypeInv

LEMMA StepTypes == TypeInv /\ [Next]_vars => TypeInv'
<1>. SUFFICES ASSUME TypeInv, [Next]_vars PROVE TypeInv'
  OBVIOUS
<1>1. CASE UNCHANGED vars
  <2>1. LogTypeOK'
    BY <1>1 DEF vars, TypeInv, LogTypeOK
  <2>2. PhaseInv'
    BY <1>1 DEF vars, TypeInv, PhaseInv, Phase, Numbered
  <2>. QED  BY <2>1, <2>2 DEF TypeInv
<1>2. ASSUME NEW p \in Procs, NEW key \in Keys \cup {NoKey, Ok}, NEW fix \in BOOLEAN, Block(p, key, fix)
      PROVE  TypeInv'
  BY <1>2, BlockTypes
<1>3. ASSUME NEW p \in Procs, Load(p) \/ List(p) \/ Exists(p) \/ Oldest(p) \/ Look(p)
      PROVE  TypeInv'
  BY <1>3, QuietTypes
<1>4. ASSUME NEW p \in Procs, Read(p) PROVE TypeInv'
  BY <1>4, ReadTypes
<1>5. ASSUME NEW p \in Procs, Index(p) PROVE TypeInv'
  BY <1>5, IndexTypes
<1>6. ASSUME NEW p \in Procs, Stat(p) \/ Unlink(p) \/ Move(p) \/ MoveCurrent(p)
      PROVE  TypeInv'
  BY <1>6, RotationTypes
<1>7. ASSUME NEW p \in Procs, Open(p) PROVE TypeInv'
  BY <1>7, OpenTypes
<1>8. ASSUME NEW p \in Procs, Write(p) PROVE TypeInv'
  BY <1>8, WriteTypes
<1>. QED  BY <1>1, <1>2, <1>3, <1>4, <1>5, <1>6, <1>7, <1>8 DEF Next

LEMMA TypeInvHolds == Spec => []TypeInv
BY InitTypes, StepTypes, PTL DEF Spec
-----------------------------------------------------------------------------
(* The bound of a file counts the processes that may still write into it.  *)

(* Whoever passed the size check and has not written into x yet.           *)
Pending(x) == {p \in Procs : \/ pc[p] = "open" /\ file[0] = x
                             \/ pc[p] = "write" /\ handle[p] = x}

Bound == MaxBytes + Cardinality(Procs) - 1
BoundInv == \A x \in Inodes : Len(body[x]) + Cardinality(Pending(x)) <= Bound

(* The steps that touch neither a file nor an open one.                    *)
LEMMA StaySteps ==
  ASSUME TypeInv, NEW p \in Procs,
         \/ \E key \in Keys \cup {NoKey, Ok}, fix \in BOOLEAN : Block(p, key, fix)
         \/ Load(p) \/ List(p) \/ Read(p) \/ Index(p)
         \/ Exists(p) \/ Oldest(p) \/ Look(p)
  PROVE  /\ UNCHANGED <<file, body, handle>>
         /\ pc' = [pc EXCEPT ![p] = pc'[p]]
         /\ pc'[p] # "write"
         /\ pc'[p] = "open" => file[0] = 0
<1>0. pc \in [Procs -> Phases]
  BY Typed DEF TypeInv
<1>1. ASSUME NEW key, NEW fix, Block(p, key, fix)
      PROVE  /\ UNCHANGED <<file, body, handle>>
             /\ pc' = [pc EXCEPT ![p] = pc'[p]] /\ pc'[p] \in {"load", "exists"}
  BY <1>0, <1>1 DEF Block, Go
<1>2. CASE Load(p) \/ Index(p)
  BY <1>0, <1>2 DEF Load, Index, Go
<1>3. CASE List(p)
  BY <1>0, <1>3 DEF List, Go
<1>4. CASE Read(p)
  <2>1. UNCHANGED <<file, body, handle>> /\ pc[p] = "read"
    BY <1>4 DEF Read
  <2>2. pc' = pc \/ pc' = [pc EXCEPT ![p] = "index"]
    BY <1>4 DEF Read, Go
  <2>. QED  BY <1>0, <2>1, <2>2
<1>5. CASE Exists(p) \/ Oldest(p)
  BY <1>0, <1>5 DEF Exists, Oldest, Asks, Go
<1>6. CASE Look(p)
  BY <1>0, <1>6 DEF Look, NextBackup, Asks, Go
<1>. QED  BY <1>1, <1>2, <1>3, <1>4, <1>5, <1>6

LEMMA PendingAre ==
  ASSUME NEW x
  PROVE  /\ Pending(x) \subseteq Procs /\ IsFiniteSet(Pending(x))
         /\ Cardinality(Pending(x)) \in Nat
         /\ Cardinality(Pending(x)) <= Cardinality(Procs)
<1>1. Pending(x) \subseteq Procs
  BY DEF Pending
<1>. QED  BY <1>1, MetricsAssumption, FS_Subset, FS_CardinalityType

LEMMA NoMorePending ==
  ASSUME TypeInv, TypeInv', BoundInv, NEW x \in Inodes,
         Pending(x)' \subseteq Pending(x), body'[x] = body[x]
  PROVE  (Len(body[x]) + Cardinality(Pending(x)) <= Bound)'
<1>1. Cardinality(Pending(x)') <= Cardinality(Pending(x)) /\ Cardinality(Pending(x)') \in Nat
  BY PendingAre, FS_Subset, FS_CardinalityType
<1>2. Len(body[x]) \in Nat
  <2>1. body[x] \in Seq(Event)
    BY DEF TypeInv, LogTypeOK
  <2>. QED  BY <2>1
<1>3. Len(body[x]) + Cardinality(Pending(x)) <= Bound /\ Bound \in Int
  BY MetricsAssumption, ProcsAreMany DEF BoundInv, Bound
<1>4. Len(body'[x]) + Cardinality(Pending(x)') <= Bound
  BY <1>1, <1>2, <1>3, PendingAre
<1>. QED  BY <1>4 DEF Bound

(* There is room for an event of every process.                            *)
LEMMA RoomForAll ==
  ASSUME TypeInv', NEW x \in Inodes, Len(body'[x]) + 1 <= MaxBytes
  PROVE  (Len(body[x]) + Cardinality(Pending(x)) <= Bound)'
<1>1. Pending(x)' \subseteq Procs
  BY DEF Pending
<1>2. Cardinality(Pending(x)') <= Cardinality(Procs) /\ Cardinality(Pending(x)') \in Nat
  BY <1>1, MetricsAssumption, FS_Subset, FS_CardinalityType
<1>3. Len(body'[x]) \in Nat
  <2>1. body'[x] \in Seq(Event)
    BY DEF TypeInv, LogTypeOK
  <2>. QED  BY <2>1
<1>4. Len(body'[x]) + Cardinality(Pending(x)') <= Bound
  BY <1>2, <1>3, MetricsAssumption, ProcsAreMany DEF Bound
<1>. QED  BY <1>4 DEF Bound

LEMMA InitBound == Init => BoundInv
<1>. SUFFICES ASSUME Init, NEW x \in Inodes
              PROVE  Len(body[x]) + Cardinality(Pending(x)) <= Bound
  BY DEF BoundInv
<1>1. Pending(x) = {}
  BY DEF Pending, Init
<1>2. Cardinality(Pending(x)) = 0
  BY <1>1, FS_EmptySet
<1>3. Len(body[x]) \in Nat /\ Len(body[x]) <= MaxBytes
  <2>1. body[x] = <<>> \/ (x <= BackupCount + 1 /\ body[x] = OldFile(x - 1))
    BY DEF Init
  <2>2. CASE body[x] = <<>>
    BY <2>2, MetricsAssumption
  <2>3. CASE x <= BackupCount + 1 /\ body[x] = OldFile(x - 1)
    <3>1. x - 1 \in 0..BackupCount
      BY <2>3, MetricsAssumption DEF Inodes
    <3>. QED  BY <2>3, <3>1, OldFileTypes
  <2>. QED  BY <2>1, <2>2, <2>3
<1>. QED  BY <1>2, <1>3, MetricsAssumption, ProcsAreMany DEF Bound

LEMMA StepBound == TypeInv /\ TypeInv' /\ BoundInv /\ [Next]_vars => BoundInv'
<1>. SUFFICES ASSUME TypeInv, TypeInv', BoundInv, [Next]_vars, NEW x \in Inodes
              PROVE  (Len(body[x]) + Cardinality(Pending(x)) <= Bound)'
  BY DEF BoundInv, Inodes
<1>0. /\ pc \in [Procs -> Phases] /\ handle \in [Procs -> Inodes \cup {0}]
      /\ body \in [Inodes -> Seq(Event)] /\ x # 0 /\ 0 \in 0..BackupCount
      /\ file \in [0..BackupCount -> Inodes \cup {0}]
  <2>1. x # 0 /\ 0 \in 0..BackupCount
    BY MetricsAssumption DEF Inodes
  <2>2. LogTypeOK
    BY DEF TypeInv
  <2>. QED  BY <2>1, <2>2 DEF LogTypeOK
<1>1. CASE UNCHANGED vars
  <2>1. Pending(x)' = Pending(x) /\ body' = body
    BY <1>1 DEF vars, Pending
  <2>. QED  BY <2>1, NoMorePending
<1>2. ASSUME NEW p \in Procs, UNCHANGED <<body, handle>>, file'[0] \in {file[0], 0},
             pc' = [pc EXCEPT ![p] = pc'[p]], pc'[p] # "write",
             pc'[p] = "open" => file'[0] = 0 \/ (file' = file /\ Fits(0))
      PROVE  (Len(body[x]) + Cardinality(Pending(x)) <= Bound)'
  <2>1. CASE pc'[p] = "open" /\ file'[0] = x
    <3>1. Fits(0) /\ file[0] = x
      BY <1>0, <1>2, <2>1
    <3>2. Len(body'[x]) + 1 <= MaxBytes
      BY <1>0, <1>2, <3>1 DEF Fits, At
    <3>. QED  BY <3>2, RoomForAll
  <2>2. CASE ~(pc'[p] = "open" /\ file'[0] = x)
    <3>1. Pending(x)' \subseteq Pending(x)
      BY <1>0, <1>2, <2>2 DEF Pending
    <3>. QED  BY <1>2, <3>1, NoMorePending
  <2>. QED  BY <2>1, <2>2
<1>3. ASSUME NEW p \in Procs,
             \/ \E key \in Keys \cup {NoKey, Ok}, fix \in BOOLEAN : Block(p, key, fix)
             \/ Load(p) \/ List(p) \/ Read(p) \/ Index(p)
             \/ Exists(p) \/ Oldest(p) \/ Look(p)
      PROVE  (Len(body[x]) + Cardinality(Pending(x)) <= Bound)'
  BY <1>2, <1>3, StaySteps
<1>4. ASSUME NEW p \in Procs, Stat(p) \/ Unlink(p) \/ Move(p) \/ MoveCurrent(p)
      PROVE  (Len(body[x]) + Cardinality(Pending(x)) <= Bound)'
  <2>1. file'[0] \in {file[0], 0}
    <3>1. CASE file' = [file EXCEPT ![BackupCount] = 0]
      BY <1>0, <3>1, MetricsAssumption
    <3>2. ASSUME NEW i \in 0..BackupCount - 1, file' = Renamed(i) PROVE file'[0] \in {file[0], 0}
      BY <1>0, <3>2, MetricsAssumption DEF Renamed
    <3>. QED  BY <1>4, <3>1, <3>2, RotationSteps
  <2>2. pc'[p] # "write"
    BY <1>4, RotationSteps
  <2>. QED  BY <1>2, <1>4, <2>1, <2>2, RotationSteps
<1>5. ASSUME NEW p \in Procs, Open(p)
      PROVE  (Len(body[x]) + Cardinality(Pending(x)) <= Bound)'
  <2>1. PICK i \in Inodes :
          /\ file' = [file EXCEPT ![0] = i] /\ handle' = [handle EXCEPT ![p] = i]
          /\ file[0] # 0 => i = file[0] /\ body' = body
          /\ file[0] = 0 => body' = [body EXCEPT ![i] = <<>>]
    BY <1>5, OpenSteps DEF TypeInv
  <2>2. pc' = [pc EXCEPT ![p] = "write"] /\ pc[p] = "open"
    BY <1>5 DEF Open, Go
  <2>3. CASE x = i /\ file[0] = 0
    <3>1. Len(body'[x]) = 0
      BY <1>0, <2>1, <2>3
    <3>. QED  BY <3>1, RoomForAll, MetricsAssumption
  <2>4. CASE ~(x = i /\ file[0] = 0)
    <3>1. body'[x] = body[x]
      BY <1>0, <2>1, <2>4
    <3>2. Pending(x)' \subseteq Pending(x)
      BY <1>0, <2>1, <2>2, <2>4 DEF Pending
    <3>. QED  BY <3>1, <3>2, NoMorePending
  <2>. QED  BY <2>3, <2>4
<1>6. ASSUME NEW p \in Procs, Write(p)
      PROVE  (Len(body[x]) + Cardinality(Pending(x)) <= Bound)'
  <2>1. PICK e \in Event :
          /\ handle[p] \in Inodes /\ pc[p] = "write" /\ file' = file
          /\ body' = [body EXCEPT ![handle[p]] = Append(body[handle[p]], e)]
          /\ handle' = [handle EXCEPT ![p] = 0] /\ pc' = [pc EXCEPT ![p] = "idle"]
    BY <1>6, WriteSteps
  <2>2. CASE x # handle[p]
    <3>1. Pending(x)' \subseteq Pending(x)
      BY <1>0, <2>1, <2>2 DEF Pending
    <3>2. body'[x] = body[x]
      BY <1>0, <2>1, <2>2
    <3>. QED  BY <3>1, <3>2, NoMorePending
  <2>3. CASE x = handle[p]
    <3>1. Pending(x)' = Pending(x) \ {p} /\ p \in Pending(x)
      BY <1>0, <2>1, <2>3 DEF Pending
    <3>2. Cardinality(Pending(x)') = Cardinality(Pending(x)) - 1
      BY <3>1, PendingAre, FS_RemoveElement
    <3>3. Len(body'[x]) = Len(body[x]) + 1 /\ Len(body[x]) \in Nat
      BY <1>0, <2>1, <2>3
    <3>4. Len(body[x]) + Cardinality(Pending(x)) <= Bound /\ Cardinality(Pending(x)) \in Nat
      BY PendingAre DEF BoundInv
    <3>5. Len(body'[x]) + Cardinality(Pending(x)') <= Bound
      BY <3>2, <3>3, <3>4
    <3>. QED  BY <3>5 DEF Bound
  <2>. QED  BY <2>2, <2>3
<1>. QED  BY <1>1, <1>3, <1>4, <1>5, <1>6 DEF Next

(* However many processes append and rotate, a file outgrows max_bytes by  *)
(* at most one event of each of the others.                                *)
THEOREM FilesStayBounded == Spec => []FilesBounded
<1>1. TypeInv /\ BoundInv => FilesBounded
  <2>. SUFFICES ASSUME TypeInv, BoundInv, NEW i \in 0..BackupCount
                PROVE  Len(At(i)) <= MaxBytes + Cardinality(Procs) - 1
    BY DEF FilesBounded
  <2>1. CASE file[i] = 0
    BY <2>1, ProcsAreMany, MetricsAssumption DEF At
  <2>2. CASE file[i] # 0
    <3>1. file[i] \in Inodes /\ body[file[i]] \in Seq(Event)
      BY <2>2 DEF TypeInv, LogTypeOK
    <3>2. Len(body[file[i]]) + Cardinality(Pending(file[i])) <= Bound
      BY <3>1 DEF BoundInv
    <3>3. Cardinality(Pending(file[i])) \in Nat /\ Len(body[file[i]]) \in Nat
      BY <3>1, PendingAre
    <3>. QED  BY <2>2, <3>2, <3>3, ProcsAreMany, MetricsAssumption DEF At, Bound
  <2>. QED  BY <2>1, <2>2
<1>. QED  BY <1>1, InitBound, StepBound, TypeInvHolds, PTL DEF Spec
-----------------------------------------------------------------------------
(* The order a reader meets the events in. Older files precede newer ones; *)
(* a process that is late to write into an older file has nothing in the   *)
(* newer ones; what a reader has precedes all that it will meet.           *)

(* The events of a process grow within a sequence, and from s to t.        *)
Sorted(s) ==
  \A i, j \in 1..Len(s) : i < j /\ s[i].by = s[j].by => s[i].n < s[j].n
Precedes(s, t) ==
  \A i \in 1..Len(s), j \in 1..Len(t) : s[i].by = t[j].by => s[i].n < t[j].n
NoneBy(q, s) == \A i \in 1..Len(s) : s[i].by # q

(* The blocks of a process whose events may be recorded already.           *)
Upto(q) == IF pc[q] = "idle" THEN Len(blocks[q]) ELSE Len(blocks[q]) - 1
Past(s) == \A i \in 1..Len(s) : \A q \in Procs : s[i].by = q => s[i].n <= Upto(q)
PastInv == (\A x \in Inodes : Past(body[x])) /\ (\A p \in Procs : Past(seen[p]))

Log == [i \in 0..BackupCount |-> At(i)]

FilesInOrder == \A i, j \in 0..BackupCount : j < i => Precedes(Log[i], Log[j])
LateHasNone ==
  \A q \in Procs, i, j \in 0..BackupCount :
    j < i /\ handle[q] # 0 /\ handle[q] = file[i] => NoneBy(q, Log[j])
Ahead(s, n) == \A j \in 0..BackupCount : j <= n => Precedes(s, Log[j])

OrderInv ==
  /\ \A x \in Inodes : Sorted(body[x])
  /\ \A p \in Procs : Sorted(seen[p])
  /\ FilesInOrder /\ LateHasNone
  /\ \A p \in Procs : pc[p] = "read" => Ahead(seen[p], BackupCount + 1 - at[p])

LEMMA ConcatAt ==
  ASSUME NEW s \in Seq(Event), NEW t \in Seq(Event)
  PROVE  /\ Len(s \o t) = Len(s) + Len(t) /\ Len(s) \in Nat /\ Len(t) \in Nat
         /\ \A i \in 1..Len(s \o t) :
              \/ i \in 1..Len(s) /\ (s \o t)[i] = s[i]
              \/ i > Len(s) /\ i - Len(s) \in 1..Len(t) /\ (s \o t)[i] = t[i - Len(s)]
OBVIOUS

LEMMA AppendAt ==
  ASSUME NEW s \in Seq(Event), NEW e \in Event
  PROVE  /\ Append(s, e) \in Seq(Event)
         /\ Len(Append(s, e)) = Len(s) + 1 /\ Len(s) \in Nat
         /\ \A i \in 1..Len(s) + 1 : Append(s, e)[i] = IF i <= Len(s) THEN s[i] ELSE e
OBVIOUS

LEMMA SortedConcat ==
  ASSUME NEW s \in Seq(Event), NEW t \in Seq(Event), Sorted(s), Sorted(t), Precedes(s, t)
  PROVE  Sorted(s \o t)
<1>. SUFFICES ASSUME NEW i \in 1..Len(s \o t), NEW j \in 1..Len(s \o t), i < j,
                     (s \o t)[i].by = (s \o t)[j].by
              PROVE  (s \o t)[i].n < (s \o t)[j].n
  BY DEF Sorted
<1>1. CASE i \in 1..Len(s) /\ (s \o t)[i] = s[i] /\ j \in 1..Len(s) /\ (s \o t)[j] = s[j]
  BY <1>1 DEF Sorted
<1>2. CASE i \in 1..Len(s) /\ (s \o t)[i] = s[i]
           /\ j - Len(s) \in 1..Len(t) /\ (s \o t)[j] = t[j - Len(s)]
  BY <1>2 DEF Precedes
<1>3. CASE /\ i - Len(s) \in 1..Len(t) /\ (s \o t)[i] = t[i - Len(s)]
           /\ j - Len(s) \in 1..Len(t) /\ (s \o t)[j] = t[j - Len(s)]
  <2>1. i - Len(s) < j - Len(s)
    BY ConcatAt
  <2>. QED  BY <1>3, <2>1 DEF Sorted
<1>. QED  BY <1>1, <1>2, <1>3, ConcatAt

LEMMA ConcatPrecedes ==
  ASSUME NEW s \in Seq(Event), NEW t \in Seq(Event), NEW u, Precedes(s, u), Precedes(t, u)
  PROVE  Precedes(s \o t, u)
<1>. SUFFICES ASSUME NEW i \in 1..Len(s \o t), NEW j \in 1..Len(u), (s \o t)[i].by = u[j].by
              PROVE  (s \o t)[i].n < u[j].n
  BY DEF Precedes
<1>1. CASE i \in 1..Len(s) /\ (s \o t)[i] = s[i]
  BY <1>1 DEF Precedes
<1>2. CASE i - Len(s) \in 1..Len(t) /\ (s \o t)[i] = t[i - Len(s)]
  BY <1>2 DEF Precedes
<1>. QED  BY <1>1, <1>2, ConcatAt

(* An event that a process adds to its own.                                *)
LEMMA SortedAppend ==
  ASSUME NEW s \in Seq(Event), NEW e \in Event, Sorted(s),
         \A i \in 1..Len(s) : s[i].by = e.by => s[i].n < e.n
  PROVE  Sorted(Append(s, e))
<1>. SUFFICES ASSUME NEW i \in 1..Len(s) + 1, NEW j \in 1..Len(s) + 1, i < j,
                     Append(s, e)[i].by = Append(s, e)[j].by
              PROVE  Append(s, e)[i].n < Append(s, e)[j].n
  BY AppendAt DEF Sorted
<1>1. i \in 1..Len(s) /\ Append(s, e)[i] = s[i]
  BY AppendAt
<1>2. CASE j <= Len(s)
  <2>1. j \in 1..Len(s) /\ Append(s, e)[j] = s[j]
    BY <1>2, AppendAt
  <2>. QED  BY <1>1, <2>1 DEF Sorted
<1>3. CASE ~(j <= Len(s))
  <2>1. Append(s, e)[j] = e
    BY <1>3, AppendAt
  <2>. QED  BY <1>1, <2>1
<1>. QED  BY <1>2, <1>3

LEMMA PrecedesAppend ==
  ASSUME NEW s, NEW t \in Seq(Event), NEW e \in Event, Precedes(s, t),
         \A i \in 1..Len(s) : s[i].by = e.by => s[i].n < e.n
  PROVE  Precedes(s, Append(t, e))
<1>. SUFFICES ASSUME NEW i \in 1..Len(s), NEW j \in 1..Len(t) + 1,
                     s[i].by = Append(t, e)[j].by
              PROVE  s[i].n < Append(t, e)[j].n
  BY AppendAt DEF Precedes
<1>1. CASE j <= Len(t)
  BY <1>1, AppendAt DEF Precedes
<1>2. CASE ~(j <= Len(t))
  BY <1>2, AppendAt
<1>. QED  BY <1>1, <1>2

LEMMA AppendPrecedes ==
  ASSUME NEW s \in Seq(Event), NEW t, NEW e \in Event, Precedes(s, t), NoneBy(e.by, t)
  PROVE  Precedes(Append(s, e), t)
<1>. SUFFICES ASSUME NEW i \in 1..Len(s) + 1, NEW j \in 1..Len(t),
                     Append(s, e)[i].by = t[j].by
              PROVE  Append(s, e)[i].n < t[j].n
  BY AppendAt DEF Precedes
<1>1. CASE i <= Len(s)
  BY <1>1, AppendAt DEF Precedes
<1>2. CASE ~(i <= Len(s))
  BY <1>2, AppendAt DEF NoneBy
<1>. QED  BY <1>1, <1>2

LEMMA SeqsAre ==
  ASSUME TypeInv
  PROVE  /\ \A x \in Inodes : body[x] \in Seq(Event)
         /\ \A p \in Procs : /\ seen[p] \in Seq(Event) /\ blocks[p] \in Seq(Event)
                             /\ Len(blocks[p]) \in Nat /\ Upto(p) \in Int
         /\ \A i \in 0..BackupCount : At(i) \in Seq(Event) /\ Log[i] = At(i)
         /\ body \in [Inodes -> Seq(Event)] /\ pc \in [Procs -> Phases]
         /\ seen \in [Procs -> Seq(Event)] /\ blocks \in [Procs -> Seq(Event)]
         /\ handle \in [Procs -> Inodes \cup {0}]
         /\ file \in [0..BackupCount -> Inodes \cup {0}]
<1>1. /\ body \in [Inodes -> Seq(Event)] /\ pc \in [Procs -> Phases]
      /\ seen \in [Procs -> Seq(Event)] /\ blocks \in [Procs -> Seq(Event)]
      /\ handle \in [Procs -> Inodes \cup {0}]
      /\ file \in [0..BackupCount -> Inodes \cup {0}]
  BY DEF TypeInv, LogTypeOK
<1>2. \A i \in 0..BackupCount : At(i) \in Seq(Event) /\ Log[i] = At(i)
  <2>. SUFFICES ASSUME NEW i \in 0..BackupCount PROVE At(i) \in Seq(Event) /\ Log[i] = At(i)
    OBVIOUS
  <2>1. file[i] \in Inodes \cup {0}
    BY <1>1
  <2>. QED  BY <1>1, <2>1 DEF At, Log
<1>3. \A p \in Procs : Len(blocks[p]) \in Nat
  BY <1>1
<1>. QED  BY <1>1, <1>2, <1>3 DEF Upto

(* A process' recorded events stay of the past.                            *)
LEMMA UptoGrows ==
  ASSUME TypeInv, TypeInv', [Next]_vars, NEW q \in Procs
  PROVE  Upto(q) <= Upto(q)'
<1>0. /\ pc \in [Procs -> Phases] /\ blocks \in [Procs -> Seq(Event)]
      /\ Len(blocks[q]) \in Nat /\ Len(blocks'[q]) \in Nat
  <2>1. blocks'[q] \in Seq(Event)
    BY DEF TypeInv, LogTypeOK
  <2>. QED  BY <2>1, SeqsAre
<1>1. ASSUME blocks' = blocks, pc'[q] = pc[q] \/ pc[q] # "idle"
      PROVE  Upto(q) <= Upto(q)'
  BY <1>0, <1>1 DEF Upto
<1>2. CASE UNCHANGED vars
  BY <1>1, <1>2 DEF vars
<1>3. ASSUME NEW p \in Procs, NEW key \in Keys \cup {NoKey, Ok}, NEW fix \in BOOLEAN, Block(p, key, fix)
      PROVE  Upto(q) <= Upto(q)'
  <2>. DEFINE e == [by |-> p, n |-> Len(blocks[p]) + 1, ts |-> now', key |-> key, fix |-> fix]
  <2>1. pc[p] = "idle" /\ blocks' = [blocks EXCEPT ![p] = Append(blocks[p], e)]
    BY <1>3 DEF Block
  <2>. HIDE DEF e
  <2>2. CASE q = p
    <3>1. blocks'[q] = Append(blocks[q], e) /\ blocks[q] \in Seq(Event)
      BY <1>0, <2>1, <2>2
    <3>2. Len(blocks'[q]) = Len(blocks[q]) + 1
      BY <3>1
    <3>. QED  BY <1>0, <2>1, <2>2, <3>2 DEF Upto
  <2>3. CASE q # p
    <3>1. blocks'[q] = blocks[q] /\ pc'[q] = pc[q]
      BY <1>0, <1>3, <2>1, <2>3 DEF Block, Go
    <3>. QED  BY <1>0, <3>1 DEF Upto
  <2>. QED  BY <2>2, <2>3
<1>4. ASSUME NEW p \in Procs, pc[p] # "idle", pc' = [pc EXCEPT ![p] = pc'[p]], blocks' = blocks
      PROVE  Upto(q) <= Upto(q)'
  <2>1. pc'[q] = pc[q] \/ pc[q] # "idle"
    BY <1>0, <1>4
  <2>. QED  BY <1>1, <1>4, <2>1
<1>5. ASSUME NEW p \in Procs, Load(p) \/ List(p) \/ Read(p) \/ Index(p)
                              \/ Exists(p) \/ Oldest(p) \/ Look(p)
      PROVE  pc[p] # "idle" /\ pc' = [pc EXCEPT ![p] = pc'[p]] /\ blocks' = blocks
  <2>1. pc[p] # "idle" /\ blocks' = blocks
    BY <1>5 DEF Load, List, Read, Index, Exists, Oldest, Look, Asks
  <2>. QED  BY <1>5, <2>1, StaySteps
<1>6. ASSUME NEW p \in Procs, Stat(p) \/ Unlink(p) \/ Move(p) \/ MoveCurrent(p)
      PROVE  pc[p] # "idle" /\ pc' = [pc EXCEPT ![p] = pc'[p]] /\ blocks' = blocks
  BY <1>6, RotationSteps
<1>7. ASSUME NEW p \in Procs, Open(p) \/ Write(p)
      PROVE  pc[p] # "idle" /\ pc' = [pc EXCEPT ![p] = pc'[p]] /\ blocks' = blocks
  BY <1>0, <1>7 DEF Open, Write, Go
<1>. QED  BY <1>2, <1>3, <1>4, <1>5, <1>6, <1>7 DEF Next

PastNext(s) == \A i \in 1..Len(s) : \A q \in Procs : s[i].by = q => s[i].n <= Upto(q)'

LEMMA PastGrows ==
  ASSUME TypeInv, TypeInv', [Next]_vars, NEW s \in Seq(Event), Past(s)
  PROVE  PastNext(s)
<1>. SUFFICES ASSUME NEW i \in 1..Len(s), NEW q \in Procs, s[i].by = q
              PROVE  s[i].n <= Upto(q)'
  BY DEF PastNext
<1>1. s[i] \in Event
  OBVIOUS
<1>2. s[i].n \in Nat
  BY <1>1 DEF Event
<1>3. s[i].n <= Upto(q) /\ Upto(q) <= Upto(q)' /\ Upto(q) \in Int
  BY UptoGrows, SeqsAre DEF Past
<1>4. Upto(q)' \in Int
  <2>1. blocks'[q] \in Seq(Event)
    BY DEF TypeInv, LogTypeOK
  <2>2. Len(blocks'[q]) \in Nat
    BY <2>1
  <2>. QED  BY <2>2 DEF Upto
<1>. QED  BY <1>2, <1>3, <1>4

LEMMA PastConcat ==
  ASSUME NEW s \in Seq(Event), NEW t \in Seq(Event), PastNext(s), PastNext(t)
  PROVE  PastNext(s \o t)
<1>. SUFFICES ASSUME NEW i \in 1..Len(s \o t), NEW q \in Procs, (s \o t)[i].by = q
              PROVE  (s \o t)[i].n <= Upto(q)'
  BY DEF PastNext
<1>1. CASE i \in 1..Len(s) /\ (s \o t)[i] = s[i]
  BY <1>1 DEF PastNext
<1>2. CASE i - Len(s) \in 1..Len(t) /\ (s \o t)[i] = t[i - Len(s)]
  BY <1>2 DEF PastNext
<1>. QED  BY <1>1, <1>2, ConcatAt

LEMMA PastAppend ==
  ASSUME NEW s \in Seq(Event), NEW e \in Event, NEW p \in Procs, PastNext(s),
         e.by = p, e.n <= Upto(p)'
  PROVE  PastNext(Append(s, e))
<1>. SUFFICES ASSUME NEW i \in 1..Len(s) + 1, NEW q \in Procs, Append(s, e)[i].by = q
              PROVE  Append(s, e)[i].n <= Upto(q)'
  BY AppendAt DEF PastNext
<1>1. CASE i <= Len(s)
  <2>1. i \in 1..Len(s) /\ Append(s, e)[i] = s[i]
    BY <1>1, AppendAt
  <2>. QED  BY <2>1 DEF PastNext
<1>2. CASE ~(i <= Len(s))
  <2>1. Append(s, e)[i] = e
    BY <1>2, AppendAt
  <2>. QED  BY <2>1
<1>. QED  BY <1>1, <1>2

LEMMA PastEmpty == PastNext(<<>>)
BY DEF PastNext

(* What becomes of the inodes' contents and of the readers' events.        *)
LEMMA BodySteps ==
  ASSUME TypeInv, [Next]_vars, NEW x \in Inodes
  PROVE  \/ body'[x] = body[x]
         \/ body'[x] = <<>>
         \/ \E p \in Procs, e \in Event :
              /\ body'[x] = Append(body[x], e) /\ e.by = p /\ e.n = Len(blocks[p])
              /\ e = Last(blocks[p]) /\ Write(p)
<1>1. CASE UNCHANGED vars
  BY <1>1 DEF vars
<1>2. ASSUME NEW p \in Procs,
             \/ \E key \in Keys \cup {NoKey, Ok}, fix \in BOOLEAN : Block(p, key, fix)
             \/ Load(p) \/ List(p) \/ Read(p) \/ Index(p)
             \/ Exists(p) \/ Oldest(p) \/ Look(p)
      PROVE  body'[x] = body[x]
  BY <1>2, StaySteps
<1>3. ASSUME NEW p \in Procs, Stat(p) \/ Unlink(p) \/ Move(p) \/ MoveCurrent(p)
      PROVE  body'[x] = body[x]
  BY <1>3, RotationSteps
<1>4. ASSUME NEW p \in Procs, Open(p) PROVE body'[x] \in {body[x], <<>>}
  BY <1>4, OpenSteps, SeqsAre DEF TypeInv
<1>5. ASSUME NEW p \in Procs, Write(p)
      PROVE  \/ body'[x] = body[x]
             \/ \E e \in Event : /\ body'[x] = Append(body[x], e) /\ e.by = p
                                 /\ e.n = Len(blocks[p]) /\ e = Last(blocks[p])
  <2>1. PICK e \in Event :
          /\ e.by = p /\ e.n = Len(blocks[p]) /\ e = Last(blocks[p]) /\ handle[p] \in Inodes
          /\ body' = [body EXCEPT ![handle[p]] = Append(body[handle[p]], e)]
    BY <1>5, WriteSteps
  <2>. QED  BY <2>1, SeqsAre
<1>. QED  BY <1>1, <1>2, <1>3, <1>4, <1>5 DEF Next

LEMMA SeenSteps ==
  ASSUME TypeInv, [Next]_vars, NEW p \in Procs
  PROVE  \/ seen'[p] = seen[p] \/ seen'[p] = <<>>
         \/ \E i \in 0..BackupCount :
              /\ seen'[p] = seen[p] \o At(i)
              /\ pc[p] = "read" /\ i = BackupCount + 1 - at[p]
<1>1. CASE UNCHANGED vars
  BY <1>1 DEF vars
<1>2. ASSUME NEW q \in Procs,
             \/ \E key \in Keys \cup {NoKey, Ok}, fix \in BOOLEAN : Block(q, key, fix)
             \/ Load(q) \/ List(q)
             \/ Exists(q) \/ Oldest(q) \/ Look(q)
             \/ Stat(q) \/ Unlink(q) \/ Move(q) \/ MoveCurrent(q)
             \/ Open(q) \/ Write(q)
      PROVE  seen'[p] = seen[p]
  BY <1>2 DEF Block, Load, List, Exists, Oldest, Look, Stat, Unlink, Move, MoveCurrent,
              Open, Write, Asks, index
<1>3. ASSUME NEW q \in Procs, Index(q) PROVE seen'[p] \in {seen[p], <<>>}
  BY <1>3, SeqsAre DEF Index
<1>4. ASSUME NEW q \in Procs, Read(q)
      PROVE  \/ seen'[p] = seen[p]
             \/ \E i \in 0..BackupCount :
                  /\ seen'[p] = seen[p] \o At(i)
                  /\ pc[p] = "read" /\ i = BackupCount + 1 - at[p]
  <2>1. pc[q] = "read" /\ at[q] \in 1..BackupCount + 1
    BY <1>4 DEF Read, TypeInv, PhaseInv, Phase
  <2>2. Chronological[at[q]] = BackupCount + 1 - at[q] /\ BackupCount + 1 - at[q] \in 0..BackupCount
    BY <2>1, MetricsAssumption DEF Chronological
  <2>3. seen'[q] \in {seen[q], seen[q] \o At(BackupCount + 1 - at[q])} /\ (p # q => seen'[p] = seen[p])
    BY <1>4, <2>2, SeqsAre DEF Read
  <2>. QED  BY <2>1, <2>2, <2>3
<1>. QED  BY <1>1, <1>2, <1>3, <1>4 DEF Next

LEMMA StepPast == TypeInv /\ TypeInv' /\ PastInv /\ [Next]_vars => PastInv'
<1>. SUFFICES ASSUME TypeInv, TypeInv', PastInv, [Next]_vars PROVE PastInv'
  OBVIOUS
<1>1. ASSUME NEW x \in Inodes PROVE PastNext(body'[x])
  <2>1. PastNext(body[x]) /\ body[x] \in Seq(Event)
    BY PastGrows, SeqsAre DEF PastInv
  <2>2. ASSUME NEW p \in Procs, NEW e \in Event, e.by = p, e.n = Len(blocks[p]), Write(p)
        PROVE  PastNext(Append(body[x], e))
    <3>1. pc'[p] = "idle" /\ blocks'[p] = blocks[p]
      BY <2>2, WriteSteps, SeqsAre
    <3>2. e.n <= Upto(p)'
      BY <2>2, <3>1, SeqsAre DEF Upto
    <3>. QED  BY <2>1, <2>2, <3>2, PastAppend
  <2>. QED  BY <2>1, <2>2, BodySteps, PastEmpty
<1>2. ASSUME NEW p \in Procs PROVE PastNext(seen'[p])
  <2>1. PastNext(seen[p]) /\ seen[p] \in Seq(Event)
    BY PastGrows, SeqsAre DEF PastInv
  <2>2. ASSUME NEW i \in 0..BackupCount PROVE PastNext(At(i)) /\ At(i) \in Seq(Event)
    <3>1. CASE file[i] = 0
      BY <3>1, PastEmpty, SeqsAre DEF At
    <3>2. CASE file[i] # 0
      <4>1. file[i] \in Inodes /\ At(i) = body[file[i]]
        BY <3>2, SeqsAre DEF At
      <4>. QED  BY <4>1, PastGrows, SeqsAre DEF PastInv
    <3>. QED  BY <3>1, <3>2
  <2>. QED  BY <2>1, <2>2, SeenSteps, PastEmpty, PastConcat
<1>3. Inodes' = Inodes
  BY DEF Inodes
<1>. QED  BY <1>1, <1>2, <1>3 DEF PastInv, Past, PastNext

LEMMA Trivially ==
  /\ Sorted(<<>>)
  /\ \A s : Precedes(<<>>, s) /\ Precedes(s, <<>>)
  /\ \A q : NoneBy(q, <<>>)
BY DEF Sorted, Precedes, NoneBy

(* A step keeps the order of the files, and what was ahead of a sequence.  *)
AheadNext(s, n) == \A j \in 0..BackupCount : j <= n => Precedes(s, Log'[j])
KeepsLogOrder ==
  /\ FilesInOrder' /\ LateHasNone'
  /\ \A s \in Seq(Event), n \in Int : Past(s) /\ Ahead(s, n) => AheadNext(s, n)

(* Names move on to higher numbers, or their files go.                     *)
LEMMA MovesKeepOrder ==
  ASSUME TypeInv, TypeInv', OrderInv, body' = body, handle' = handle,
         NEW m \in [0..BackupCount -> 0..BackupCount],
         \A i \in 0..BackupCount : m[i] <= i /\ file'[i] \in {0, file[m[i]]},
         \A i, j \in 0..BackupCount :
           j < i /\ file'[i] # 0 /\ file'[j] # 0 => m[j] < m[i]
  PROVE  KeepsLogOrder
<1>0. /\ \A i \in 0..BackupCount : Log[i] = IF file[i] = 0 THEN <<>> ELSE body[file[i]]
      /\ \A i \in 0..BackupCount : Log'[i] = IF file'[i] = 0 THEN <<>> ELSE body[file'[i]]
  BY DEF Log, At
<1>1. ASSUME NEW i \in 0..BackupCount
      PROVE  Log'[i] = <<>> \/ (file'[i] # 0 /\ file'[i] = file[m[i]] /\ Log'[i] = Log[m[i]])
  BY <1>0
<1>2. FilesInOrder'
  <2>. SUFFICES ASSUME NEW i \in 0..BackupCount, NEW j \in 0..BackupCount, j < i
                PROVE  Precedes(Log'[i], Log'[j])
    BY DEF FilesInOrder
  <2>. QED  BY <1>1, Trivially DEF OrderInv, FilesInOrder
<1>3. LateHasNone'
  <2>. SUFFICES ASSUME NEW q \in Procs, NEW i \in 0..BackupCount, NEW j \in 0..BackupCount,
                       j < i, handle[q] # 0, handle[q] = file'[i]
                PROVE  NoneBy(q, Log'[j])
    BY DEF LateHasNone
  <2>1. file[m[i]] = handle[q]
    OBVIOUS
  <2>. QED  BY <1>1, <2>1, Trivially DEF OrderInv, LateHasNone
<1>4. ASSUME NEW s \in Seq(Event), NEW n \in Int, Ahead(s, n), NEW j \in 0..BackupCount, j <= n
      PROVE  Precedes(s, Log'[j])
  <2>1. CASE Log'[j] = <<>>
    BY <2>1, Trivially
  <2>2. CASE Log'[j] = Log[m[j]]
    <3>1. m[j] \in 0..BackupCount /\ m[j] <= n
      BY <1>4
    <3>. QED  BY <1>4, <2>2, <3>1 DEF Ahead
  <2>. QED  BY <1>1, <2>1, <2>2
<1>. QED  BY <1>2, <1>3, <1>4 DEF KeepsLogOrder, AheadNext

LEMMA StayKeepsOrder ==
  ASSUME TypeInv, TypeInv', OrderInv, UNCHANGED <<file, body, handle>>
  PROVE  KeepsLogOrder
<1>. DEFINE m == [i \in 0..BackupCount |-> i]
<1>1. m \in [0..BackupCount -> 0..BackupCount]
  OBVIOUS
<1>2. \A i \in 0..BackupCount : m[i] <= i /\ file'[i] \in {0, file[m[i]]}
  OBVIOUS
<1>3. \A i, j \in 0..BackupCount : j < i => m[j] < m[i]
  OBVIOUS
<1>. HIDE DEF m
<1>. QED  BY <1>1, <1>2, <1>3, MovesKeepOrder

LEMMA RotationKeepsOrder ==
  ASSUME TypeInv, TypeInv', OrderInv, NEW p \in Procs,
         Stat(p) \/ Unlink(p) \/ Move(p) \/ MoveCurrent(p)
  PROVE  KeepsLogOrder
<1>0. body' = body /\ handle' = handle /\ BackupCount \in Nat
  BY RotationSteps, MetricsAssumption
<1>1. CASE file' = file
  BY <1>0, <1>1, StayKeepsOrder
<1>2. CASE file' = [file EXCEPT ![BackupCount] = 0]
  <2>. DEFINE m == [i \in 0..BackupCount |-> i]
  <2>1. m \in [0..BackupCount -> 0..BackupCount]
    OBVIOUS
  <2>2. \A i \in 0..BackupCount : m[i] <= i /\ file'[i] \in {0, file[m[i]]}
    BY <1>2, SeqsAre
  <2>3. \A i, j \in 0..BackupCount : j < i => m[j] < m[i]
    OBVIOUS
  <2>. HIDE DEF m
  <2>. QED  BY <1>0, <2>1, <2>2, <2>3, MovesKeepOrder
<1>3. ASSUME NEW k \in 0..BackupCount - 1, file' = Renamed(k)
      PROVE  KeepsLogOrder
  <2>. DEFINE m == [i \in 0..BackupCount |-> IF i = k + 1 THEN k ELSE i]
  <2>1. m \in [0..BackupCount -> 0..BackupCount]
    BY <1>0
  <2>2. file'[k] = 0
    BY <1>0, <1>3, SeqsAre DEF Renamed
  <2>3. \A i \in 0..BackupCount : m[i] <= i /\ file'[i] \in {0, file[m[i]]}
    BY <1>0, <1>3, SeqsAre DEF Renamed
  <2>4. \A i, j \in 0..BackupCount : j < i /\ file'[i] # 0 /\ file'[j] # 0 => m[j] < m[i]
    BY <1>0, <2>2
  <2>. HIDE DEF m
  <2>. QED  BY <1>0, <2>1, <2>3, <2>4, MovesKeepOrder
<1>. QED  BY <1>1, <1>2, <1>3, RotationSteps

LEMMA OpenKeepsOrder ==
  ASSUME TypeInv, TypeInv', OrderInv, NEW p \in Procs, Open(p)
  PROVE  KeepsLogOrder
<1>0. /\ \A i \in 0..BackupCount : Log[i] = IF file[i] = 0 THEN <<>> ELSE body[file[i]]
      /\ \A i \in 0..BackupCount : Log'[i] = IF file'[i] = 0 THEN <<>> ELSE body'[file'[i]]
      /\ \A i, j \in 0..BackupCount : i # j /\ file'[i] # 0 => file'[i] # file'[j]
      /\ 0 \in 0..BackupCount
  BY MetricsAssumption DEF Log, At, TypeInv, LogTypeOK
<1>1. PICK new \in Inodes :
        /\ file' = [file EXCEPT ![0] = new] /\ handle' = [handle EXCEPT ![p] = new]
        /\ file[0] # 0 => new = file[0] /\ body' = body
        /\ file[0] = 0 => /\ \A j \in 0..BackupCount : new # file[j]
                          /\ \A q \in Procs : new # handle[q]
                          /\ body' = [body EXCEPT ![new] = <<>>]
  BY OpenSteps DEF TypeInv
<1>2. \A i \in 0..BackupCount : Log'[i] = Log[i]
  <2>. TAKE i \in 0..BackupCount
  <2>1. new # 0
    BY DEF Inodes
  <2>2. CASE file[0] # 0
    <3>1. file'[i] = file[i] /\ body' = body
      BY <1>1, <2>2, SeqsAre
    <3>. QED  BY <1>0, <3>1
  <2>3. CASE file[0] = 0 /\ i = 0
    <3>1. file'[i] = new /\ body'[new] = <<>>
      BY <1>0, <1>1, <2>3, SeqsAre
    <3>. QED  BY <1>0, <2>1, <2>3, <3>1
  <2>4. CASE file[0] = 0 /\ i # 0
    <3>1. file'[i] = file[i] /\ file[i] # new /\ file[i] \in Inodes \cup {0}
      BY <1>1, <2>4, SeqsAre
    <3>2. file[i] # 0 => body'[file[i]] = body[file[i]]
      BY <1>1, <2>4, <3>1, SeqsAre
    <3>. QED  BY <1>0, <3>1, <3>2
  <2>. QED  BY <2>2, <2>3, <2>4
<1>3. FilesInOrder'
  BY <1>2 DEF OrderInv, FilesInOrder
<1>4. LateHasNone'
  <2>. SUFFICES ASSUME NEW q \in Procs, NEW i \in 0..BackupCount, NEW j \in 0..BackupCount,
                       j < i, handle'[q] # 0, handle'[q] = file'[i]
                PROVE  NoneBy(q, Log'[j])
    BY DEF LateHasNone
  <2>1. i # 0 /\ file'[0] = new /\ file'[i] = file[i]
    BY <1>0, <1>1, SeqsAre
  <2>2. q # p
    <3>1. file'[i] # file'[0]
      BY <1>0, <2>1
    <3>. QED  BY <1>1, <2>1, <3>1, SeqsAre
  <2>3. handle'[q] = handle[q]
    BY <1>1, <2>2, SeqsAre
  <2>. QED  BY <1>2, <2>1, <2>3 DEF OrderInv, LateHasNone
<1>5. \A s \in Seq(Event), n \in Int : Ahead(s, n) => AheadNext(s, n)
  BY <1>2 DEF Ahead, AheadNext
<1>. QED  BY <1>3, <1>4, <1>5 DEF KeepsLogOrder

LEMMA WriteKeepsOrder ==
  ASSUME TypeInv, TypeInv', PastInv, OrderInv, NEW p \in Procs, Write(p)
  PROVE  KeepsLogOrder
<1>0. /\ \A i \in 0..BackupCount : Log[i] = IF file[i] = 0 THEN <<>> ELSE body[file[i]]
      /\ \A i \in 0..BackupCount : Log'[i] = IF file'[i] = 0 THEN <<>> ELSE body'[file'[i]]
      /\ \A i, j \in 0..BackupCount : i # j /\ file[i] # 0 => file[i] # file[j]
      /\ \A i \in 0..BackupCount : Log[i] \in Seq(Event)
  BY SeqsAre DEF Log, At, TypeInv, LogTypeOK
<1>1. PICK e \in Event :
        /\ e.by = p /\ e.n = Len(blocks[p]) /\ handle[p] \in Inodes /\ pc[p] = "write"
        /\ body' = [body EXCEPT ![handle[p]] = Append(body[handle[p]], e)]
        /\ handle' = [handle EXCEPT ![p] = 0] /\ file' = file
  BY WriteSteps
<1>2. ASSUME NEW i \in 0..BackupCount
      PROVE  Log'[i] = IF file[i] = handle[p] THEN Append(Log[i], e) ELSE Log[i]
  <2>1. handle[p] # 0
    BY <1>1 DEF Inodes
  <2>2. CASE file[i] = handle[p]
    <3>1. Log[i] = body[handle[p]] /\ Log'[i] = body'[handle[p]]
      BY <1>0, <1>1, <2>1, <2>2
    <3>2. body'[handle[p]] = Append(body[handle[p]], e)
      BY <1>1, SeqsAre
    <3>. QED  BY <2>2, <3>1, <3>2
  <2>3. CASE file[i] # handle[p]
    <3>1. file[i] # 0 => body'[file[i]] = body[file[i]]
      BY <1>1, <2>3, SeqsAre
    <3>. QED  BY <1>0, <1>1, <2>3, <3>1
  <2>. QED  BY <2>2, <2>3
<1>3. ASSUME NEW s \in Seq(Event), Past(s), NEW i \in 1..Len(s), s[i].by = e.by
      PROVE  s[i].n < e.n
  <2>1. s[i].n <= Len(blocks[p]) - 1 /\ Len(blocks[p]) \in Nat
    BY <1>1, <1>3, SeqsAre DEF Past, Upto
  <2>2. s[i] \in Event
    OBVIOUS
  <2>3. s[i].n \in Nat
    BY <2>2 DEF Event
  <2>. QED  BY <1>1, <2>1, <2>3
<1>4. ASSUME NEW s \in Seq(Event), Past(s), NEW i \in 0..BackupCount, Precedes(s, Log[i])
      PROVE  Precedes(s, Log'[i])
  <2>1. \A k \in 1..Len(s) : s[k].by = e.by => s[k].n < e.n
    BY <1>3, <1>4
  <2>2. Precedes(s, Append(Log[i], e))
    BY <1>0, <1>4, <2>1, PrecedesAppend
  <2>. QED  BY <1>2, <1>4, <2>2
<1>5. ASSUME NEW i \in 0..BackupCount PROVE Past(Log[i])
  <2>1. CASE file[i] = 0
    BY <1>0, <2>1 DEF Past
  <2>2. CASE file[i] # 0
    <3>1. file[i] \in Inodes /\ Log[i] = body[file[i]]
      BY <1>0, <2>2, SeqsAre
    <3>. QED  BY <3>1 DEF PastInv
  <2>. QED  BY <2>1, <2>2
<1>6. FilesInOrder'
  <2>. SUFFICES ASSUME NEW i \in 0..BackupCount, NEW j \in 0..BackupCount, j < i
                PROVE  Precedes(Log'[i], Log'[j])
    BY DEF FilesInOrder
  <2>1. Precedes(Log[i], Log[j])
    BY DEF OrderInv, FilesInOrder
  <2>2. CASE file[i] = handle[p]
    <3>1. handle[p] # 0 /\ file[j] # handle[p]
      BY <1>0, <1>1, <2>2 DEF Inodes
    <3>2. NoneBy(e.by, Log[j])
      BY <1>1, <2>2, <3>1 DEF OrderInv, LateHasNone
    <3>3. Log'[i] = Append(Log[i], e) /\ Log'[j] = Log[j]
      BY <1>2, <2>2, <3>1
    <3>. QED  BY <1>0, <2>1, <3>2, <3>3, AppendPrecedes
  <2>3. CASE file[i] # handle[p]
    <3>1. Log'[i] = Log[i]
      BY <1>2, <2>3
    <3>. QED  BY <1>0, <1>4, <1>5, <2>1, <3>1
  <2>. QED  BY <2>2, <2>3
<1>7. LateHasNone'
  <2>. SUFFICES ASSUME NEW q \in Procs, NEW i \in 0..BackupCount, NEW j \in 0..BackupCount,
                       j < i, handle'[q] # 0, handle'[q] = file'[i]
                PROVE  NoneBy(q, Log'[j])
    BY DEF LateHasNone
  <2>1. q # p /\ handle[q] # 0 /\ handle[q] = file[i]
    BY <1>1, SeqsAre
  <2>2. NoneBy(q, Log[j])
    BY <2>1 DEF OrderInv, LateHasNone
  <2>3. NoneBy(q, Append(Log[j], e))
    <3>. SUFFICES ASSUME NEW k \in 1..Len(Log[j]) + 1 PROVE Append(Log[j], e)[k].by # q
      BY <1>0, AppendAt DEF NoneBy
    <3>1. CASE k <= Len(Log[j])
      BY <1>0, <2>2, <3>1, AppendAt DEF NoneBy
    <3>2. CASE ~(k <= Len(Log[j]))
      BY <1>0, <1>1, <2>1, <3>2, AppendAt
    <3>. QED  BY <3>1, <3>2
  <2>. QED  BY <1>2, <2>2, <2>3
<1>8. \A s \in Seq(Event), n \in Int : Past(s) /\ Ahead(s, n) => AheadNext(s, n)
  BY <1>4 DEF Ahead, AheadNext
<1>. QED  BY <1>6, <1>7, <1>8 DEF KeepsLogOrder

LEMMA LogKeepsOrder ==
  ASSUME TypeInv, TypeInv', PastInv, OrderInv, [Next]_vars
  PROVE  KeepsLogOrder
<1>1. CASE UNCHANGED vars
  BY <1>1, StayKeepsOrder DEF vars
<1>2. ASSUME NEW p \in Procs,
             \/ \E key \in Keys \cup {NoKey, Ok}, fix \in BOOLEAN : Block(p, key, fix)
             \/ Load(p) \/ List(p) \/ Read(p) \/ Index(p)
             \/ Exists(p) \/ Oldest(p) \/ Look(p)
      PROVE  KeepsLogOrder
  BY <1>2, StaySteps, StayKeepsOrder
<1>3. ASSUME NEW p \in Procs, Stat(p) \/ Unlink(p) \/ Move(p) \/ MoveCurrent(p)
      PROVE  KeepsLogOrder
  BY <1>3, RotationKeepsOrder
<1>4. ASSUME NEW p \in Procs, Open(p) PROVE KeepsLogOrder
  BY <1>4, OpenKeepsOrder
<1>5. ASSUME NEW p \in Procs, Write(p) PROVE KeepsLogOrder
  BY <1>5, WriteKeepsOrder
<1>. QED  BY <1>1, <1>2, <1>3, <1>4, <1>5 DEF Next

(* How a process comes to read on.                                         *)
LEMMA ReadingOn ==
  ASSUME TypeInv, [Next]_vars, NEW p \in Procs, pc'[p] = "read"
  PROVE  \/ pc[p] = "read" /\ seen'[p] = seen[p] /\ at'[p] = at[p]
         \/ seen'[p] = <<>>
         \/ Read(p) /\ at'[p] = at[p] + 1
<1>0. pc \in [Procs -> Phases] /\ at \in [Procs -> 0..BackupCount + 1]
  BY Typed DEF TypeInv
<1>1. CASE UNCHANGED vars
  BY <1>1 DEF vars
<1>2. ASSUME NEW q \in Procs, q # p, pc' = [pc EXCEPT ![q] = pc'[q]],
             at'[p] = at[p], seen'[p] = seen[p]
      PROVE  pc[p] = "read" /\ seen'[p] = seen[p] /\ at'[p] = at[p]
  BY <1>0, <1>2
<1>3. ASSUME NEW q \in Procs,
             \/ \E key \in Keys \cup {NoKey, Ok}, fix \in BOOLEAN : Block(q, key, fix)
             \/ Load(q) \/ Index(q) \/ Exists(q) \/ Oldest(q) \/ Look(q)
             \/ Stat(q) \/ Unlink(q) \/ Move(q) \/ MoveCurrent(q) \/ Open(q) \/ Write(q)
      PROVE  /\ q # p /\ pc' = [pc EXCEPT ![q] = pc'[q]]
             /\ at'[p] = at[p] /\ seen'[p] = seen[p]
  <2>1. ASSUME NEW key, NEW fix, Block(q, key, fix)
        PROVE  /\ q # p /\ pc' = [pc EXCEPT ![q] = pc'[q]] /\ UNCHANGED <<at, seen>>
    BY <1>0, <2>1 DEF Block, Go
  <2>2. CASE Load(q) \/ Index(q) \/ Exists(q) \/ Oldest(q) \/ Look(q)
    <3>1. pc'[q] # "read" /\ pc' = [pc EXCEPT ![q] = pc'[q]]
      <4>1. pc' = [pc EXCEPT ![q] = pc'[q]]
        BY <2>2, StaySteps
      <4>2. CASE Load(q) \/ Index(q)
        BY <1>0, <4>2 DEF Load, Index, Go
      <4>3. CASE Exists(q) \/ Oldest(q) \/ Look(q)
        BY <1>0, <4>3 DEF Exists, Oldest, Look, NextBackup, Asks, Go
      <4>. QED  BY <2>2, <4>1, <4>2, <4>3
    <3>2. q # p
      BY <3>1
    <3>3. at'[p] = at[p] /\ seen'[p] = seen[p]
      BY <1>0, <2>2, <3>2, SeqsAre DEF Load, Index, Exists, Oldest, Look, Asks, index
    <3>. QED  BY <3>1, <3>2, <3>3
  <2>3. CASE Stat(q) \/ Unlink(q) \/ Move(q) \/ MoveCurrent(q)
    BY <1>0, <2>3, RotationSteps
  <2>4. CASE Open(q) \/ Write(q)
    BY <1>0, <2>4 DEF Open, Write, Go, index
  <2>. QED  BY <1>3, <2>1, <2>2, <2>3, <2>4
<1>4. ASSUME NEW q \in Procs, List(q), q # p
      PROVE  pc[p] = "read" /\ seen'[p] = seen[p] /\ at'[p] = at[p]
  BY <1>0, <1>4 DEF List, Go
<1>5. CASE List(p)
  <2>1. seen[p] = <<>>
    BY <1>5 DEF List, TypeInv, PhaseInv, Phase
  <2>. QED  BY <1>5, <2>1 DEF List
<1>6. ASSUME NEW q \in Procs, Read(q), q # p
      PROVE  pc[p] = "read" /\ seen'[p] = seen[p] /\ at'[p] = at[p]
  <2>1. /\ seen'[p] = seen[p] /\ at'[p] = at[p]
    BY <1>0, <1>6, SeqsAre DEF Read
  <2>. QED  BY <1>2, <1>6, <2>1, StaySteps
<1>7. CASE Read(p)
  <2>1. pc'[p] # "read" \/ at'[p] = at[p] + 1
    BY <1>0, <1>7 DEF Read, Go
  <2>. QED  BY <1>7, <2>1
<1>. QED  BY <1>1, <1>2, <1>3, <1>4, <1>5, <1>6, <1>7 DEF Next

LEMMA StepOrder == TypeInv /\ TypeInv' /\ PastInv /\ OrderInv /\ [Next]_vars => OrderInv'
<1>. SUFFICES ASSUME TypeInv, TypeInv', PastInv, OrderInv, [Next]_vars PROVE OrderInv'
  OBVIOUS
<1>0. KeepsLogOrder
  BY LogKeepsOrder
<1>1. ASSUME NEW x \in Inodes PROVE Sorted(body'[x])
  <2>1. Sorted(body[x]) /\ body[x] \in Seq(Event)
    BY SeqsAre DEF OrderInv
  <2>2. ASSUME NEW p \in Procs, NEW e \in Event, e.by = p, e.n = Len(blocks[p]), Write(p)
        PROVE  Sorted(Append(body[x], e))
    <3>1. pc[p] = "write" /\ Upto(p) = Len(blocks[p]) - 1 /\ Len(blocks[p]) \in Nat
      BY <2>2, SeqsAre DEF Write, Upto
    <3>2. ASSUME NEW i \in 1..Len(body[x]), body[x][i].by = e.by
          PROVE  body[x][i].n < e.n
      <4>1. body[x][i].n <= Upto(p)
        BY <2>2, <3>2 DEF PastInv, Past
      <4>2. body[x][i] \in Event
        BY <2>1
      <4>3. body[x][i].n \in Nat
        BY <4>2 DEF Event
      <4>. QED  BY <2>2, <3>1, <4>1, <4>3
    <3>. QED  BY <2>1, <3>2, SortedAppend
  <2>. QED  BY <2>1, <2>2, BodySteps, Trivially
<1>2. ASSUME NEW p \in Procs PROVE Sorted(seen'[p])
  <2>1. Sorted(seen[p]) /\ seen[p] \in Seq(Event)
    BY SeqsAre DEF OrderInv
  <2>2. ASSUME NEW i \in 0..BackupCount, pc[p] = "read", i = BackupCount + 1 - at[p]
        PROVE  Sorted(seen[p] \o At(i))
    <3>1. Precedes(seen[p], At(i)) /\ At(i) \in Seq(Event)
      <4>1. Ahead(seen[p], i) /\ i <= i
        BY <2>2 DEF OrderInv
      <4>2. Precedes(seen[p], Log[i])
        BY <4>1 DEF Ahead
      <4>. QED  BY <4>2, SeqsAre
    <3>2. Sorted(At(i))
      <4>1. CASE file[i] = 0
        BY <4>1, Trivially DEF At
      <4>2. CASE file[i] # 0
        <5>1. file[i] \in Inodes
          BY <4>2, SeqsAre
        <5>. QED  BY <4>2, <5>1 DEF At, OrderInv
      <4>. QED  BY <4>1, <4>2
    <3>. QED  BY <2>1, <3>1, <3>2, SortedConcat
  <2>. QED  BY <2>1, <2>2, SeenSteps, Trivially
<1>3. ASSUME NEW p \in Procs, pc'[p] = "read"
      PROVE  AheadNext(seen'[p], BackupCount + 1 - at'[p])
  <2>0. BackupCount \in Nat /\ at[p] \in Nat /\ seen[p] \in Seq(Event)
    BY MetricsAssumption, Typed, SeqsAre DEF TypeInv
  <2>1. CASE pc[p] = "read" /\ seen'[p] = seen[p] /\ at'[p] = at[p]
    <3>1. Past(seen[p]) /\ Ahead(seen[p], BackupCount + 1 - at[p])
      BY <2>1 DEF OrderInv, PastInv
    <3>. QED  BY <1>0, <2>0, <2>1, <3>1 DEF KeepsLogOrder
  <2>2. CASE seen'[p] = <<>>
    BY <2>2, Trivially DEF AheadNext
  <2>3. CASE Read(p) /\ at'[p] = at[p] + 1
    <3>. DEFINE i == BackupCount + 1 - at[p]
    <3>1. pc[p] = "read" /\ at[p] \in 1..BackupCount + 1 /\ i \in 0..BackupCount
      BY <2>0, <2>3 DEF Read, TypeInv, PhaseInv, Phase
    <3>2. seen'[p] = seen[p] \/ seen'[p] = seen[p] \o At(i)
      BY <2>3, <3>1, SeqsAre DEF Read, Chronological
    <3>3. Ahead(seen[p], i)
      BY <3>1 DEF OrderInv
    <3>4. Log' = Log
      <4>1. file' = file /\ body' = body
        BY <2>3, StaySteps
      <4>. QED  BY <4>1 DEF Log, At
    <3>5. Log[i] = At(i) /\ At(i) \in Seq(Event)
      BY <3>1, SeqsAre
    <3>6. ASSUME NEW j \in 0..BackupCount, j <= BackupCount + 1 - at'[p]
          PROVE  Precedes(seen'[p], Log'[j])
      <4>1. j < i
        BY <2>0, <2>3, <3>6
      <4>2. Precedes(seen[p], Log[j]) /\ Precedes(Log[i], Log[j])
        BY <3>1, <3>3, <4>1, <2>0 DEF Ahead, OrderInv, FilesInOrder
      <4>. HIDE DEF i
      <4>. QED  BY <2>0, <3>2, <3>4, <3>5, <4>2, ConcatPrecedes
    <3>. QED  BY <3>6 DEF AheadNext
  <2>. QED  BY <1>3, <2>1, <2>2, <2>3, ReadingOn
<1>4. Inodes' = Inodes
  BY DEF Inodes
<1>. QED  BY <1>0, <1>1, <1>2, <1>3, <1>4 DEF OrderInv, KeepsLogOrder, Ahead, AheadNext

(* The events of earlier processes that the log may begin with.            *)
LEMMA OldFileAt ==
  ASSUME NEW i \in 0..BackupCount, NEW j \in 1..Len(OldFile(i))
  PROVE  /\ OldFile(i)[j].by = None /\ OldFile(i)[j].n = (BackupCount - i) * MaxBytes + j
         /\ j <= MaxBytes /\ ~OldFile(i)[j].fix
<1>. DEFINE n == IF i = 0 THEN MaxBytes - 1 ELSE MaxBytes
            d == (BackupCount - i) * MaxBytes
<1>1. n \in Nat /\ n <= MaxBytes
  BY MetricsAssumption
<1>2. OldFile(i) = [k \in 1..n |-> [by |-> None, n |-> d + k, ts |-> 0, key |-> Ok, fix |-> FALSE]]
  BY DEF OldFile
<1>. HIDE DEF n, d
<1>3. OldFile(i) \in Seq(Event)
  BY OldFileTypes
<1>4. DOMAIN OldFile(i) = 1..Len(OldFile(i)) /\ DOMAIN OldFile(i) = 1..n
  BY <1>2, <1>3, LenProperties
<1>5. j \in 1..n
  BY <1>4
<1>. QED  BY <1>1, <1>2, <1>5, MetricsAssumption DEF d

LEMMA OldFilesInOrder ==
  /\ \A i \in 0..BackupCount : Sorted(OldFile(i)) /\ \A q \in Procs : NoneBy(q, OldFile(i))
  /\ \A i, j \in 0..BackupCount : j < i => Precedes(OldFile(i), OldFile(j))
<1>0. BackupCount \in Nat /\ MaxBytes \in Nat /\ None \notin Procs
  BY MetricsAssumption
<1>1. \A a, c \in Nat : /\ a * c \in Nat
                        /\ (a + 1) * c = a * c + c
  OBVIOUS
<1>2. ASSUME NEW i \in 0..BackupCount
      PROVE  Sorted(OldFile(i)) /\ \A q \in Procs : NoneBy(q, OldFile(i))
  <2>. DEFINE d == (BackupCount - i) * MaxBytes
  <2>1. d \in Nat
    <3>1. BackupCount - i \in Nat
      BY <1>0
    <3>. QED  BY <1>0, <1>1, <3>1
  <2>2. \A j \in 1..Len(OldFile(i)) : OldFile(i)[j].n = d + j /\ OldFile(i)[j].by = None
    BY OldFileAt
  <2>. HIDE DEF d
  <2>. QED  BY <1>0, <2>1, <2>2 DEF Sorted, NoneBy
<1>3. ASSUME NEW i \in 0..BackupCount, NEW j \in 0..BackupCount, j < i
      PROVE  Precedes(OldFile(i), OldFile(j))
  <2>. DEFINE a == BackupCount - i
              c == i - j - 1
              d == a * MaxBytes
              e == (BackupCount - j) * MaxBytes
              g == c * MaxBytes
  <2>1. a \in Nat /\ c \in Nat /\ BackupCount - j = a + c + 1
    BY <1>0, <1>3
  <2>2. (a + c + 1) * MaxBytes = a * MaxBytes + c * MaxBytes + MaxBytes
    BY <1>0, <2>1
  <2>3. d \in Nat /\ g \in Nat /\ e = d + g + MaxBytes
    BY <1>0, <1>1, <2>1, <2>2
  <2>4. /\ \A k \in 1..Len(OldFile(i)) : OldFile(i)[k].n = d + k /\ k <= MaxBytes
        /\ \A k \in 1..Len(OldFile(j)) : OldFile(j)[k].n = e + k
    BY OldFileAt
  <2>. HIDE DEF d, e, g
  <2>. QED  BY <1>0, <2>3, <2>4 DEF Precedes
<1>. QED  BY <1>2, <1>3

LEMMA InitOrder == Init => PastInv /\ OrderInv
<1>. SUFFICES ASSUME Init PROVE PastInv /\ OrderInv
  OBVIOUS
<1>1. PICK old \in BOOLEAN :
        /\ file = [i \in 0..BackupCount |-> IF old THEN i + 1 ELSE 0]
        /\ body = [i \in Inodes |->
             IF old /\ i <= BackupCount + 1 THEN OldFile(i - 1) ELSE <<>>]
  BY DEF Init
<1>2. \A p \in Procs : handle[p] = 0 /\ seen[p] = <<>> /\ pc[p] = "idle"
  BY DEF Init
<1>3. ASSUME NEW x \in Inodes
      PROVE  body[x] = <<>> \/ \E i \in 0..BackupCount : body[x] = OldFile(i)
  <2>1. x <= BackupCount + 1 => x - 1 \in 0..BackupCount
    BY MetricsAssumption DEF Inodes
  <2>. QED  BY <1>1, <2>1
<1>4. \A i \in 0..BackupCount : Log[i] = IF old THEN OldFile(i) ELSE <<>>
  <2>. TAKE i \in 0..BackupCount
  <2>1. i + 1 \in Inodes /\ i + 1 # 0 /\ i + 1 <= BackupCount + 1 /\ (i + 1) - 1 = i
    BY MetricsAssumption, ProcsAreMany DEF Inodes
  <2>. QED  BY <1>1, <2>1 DEF Log, At
<1>5. PastInv
  <2>1. \A x \in Inodes : Past(body[x])
    <3>. TAKE x \in Inodes
    <3>1. \A q \in Procs : NoneBy(q, body[x])
      BY <1>3, OldFilesInOrder, Trivially
    <3>. QED  BY <3>1 DEF Past, NoneBy
  <2>2. \A p \in Procs : Past(seen[p])
    BY <1>2 DEF Past
  <2>. QED  BY <2>1, <2>2 DEF PastInv
<1>6. \A x \in Inodes : Sorted(body[x])
  BY <1>3, OldFilesInOrder, Trivially
<1>7. FilesInOrder
  BY <1>4, OldFilesInOrder, Trivially DEF FilesInOrder
<1>8. LateHasNone
  BY <1>2 DEF LateHasNone
<1>. QED  BY <1>2, <1>5, <1>6, <1>7, <1>8, Trivially DEF OrderInv

(* Whatever is rotated, dropped or written meanwhile, a reader meets the   *)
(* events of a process in the order they were recorded, and none twice.    *)
THEOREM ReadersSeeInOrder == Spec => []ReadsInOrder
<1>1. TypeInv /\ OrderInv => ReadsInOrder
  <2>. SUFFICES ASSUME TypeInv, OrderInv, NEW p \in Procs
                PROVE  \A i, j \in DOMAIN seen[p] :
                         i < j /\ seen[p][i].by = seen[p][j].by => seen[p][i].n < seen[p][j].n
    BY DEF ReadsInOrder
  <2>1. DOMAIN seen[p] = 1..Len(seen[p])
    BY SeqsAre, LenProperties
  <2>. QED  BY <2>1 DEF OrderInv, Sorted
<1>. QED  BY <1>1, InitOrder, StepPast, StepOrder, TypeInvHolds, PTL DEF Spec
-----------------------------------------------------------------------------
(* What rotation may drop, as long as no rotation met another process.     *)

(* The steps of the loop that moves the backups up: the name above the one *)
(* it is at is free.                                                       *)
Vacates == {"look", "move", "last"}
LastAtCurrent == \A p \in Procs : pc[p] = "last" => at[p] = 0

Full(i) == file[i] # 0 /\ Len(At(i)) >= MaxBytes

(* A name is missing below another one only while its file is on the way.  *)
OnlyGap(i, j) ==
  /\ \A m \in 0..i - 1 : m # j => file[m] # 0
  /\ j = 0 \/ \E p \in Procs : pc[p] \in Vacates /\ at[p] + 1 = j
Gaps ==
  \A i, j \in 0..BackupCount : j < i /\ file[i] # 0 /\ file[j] = 0 => OnlyGap(i, j)

FullInv ==
  /\ \A p \in Procs : pc[p] \in Rotating => Full(0)
  /\ \A p \in Procs : pc[p] \in Vacates => file[at[p] + 1] = 0
  /\ \A i \in 1..BackupCount : file[i] # 0 => Full(i)
  /\ Gaps

RotationInv == LastAtCurrent /\ (~racing => FullInv)

LEMMA Places ==
  ASSUME TypeInv
  PROVE  /\ BackupCount \in Nat /\ BackupCount # 0 /\ MaxBytes \in Nat /\ MaxBytes # 0
         /\ file \in [0..BackupCount -> Inodes \cup {0}] /\ 0 \notin Inodes
         /\ pc \in [Procs -> Phases] /\ at \in [Procs -> 0..BackupCount + 1]
         /\ handle \in [Procs -> Inodes \cup {0}]
         /\ racing \in BOOLEAN
         /\ \A i \in 0..BackupCount : At(i) \in Seq(Event) /\ Len(At(i)) \in Nat
         /\ \A p \in Procs : Phase(p)
<1>1. \A i \in 0..BackupCount : At(i) \in Seq(Event)
  BY SeqsAre
<1>2. \A i \in 0..BackupCount : Len(At(i)) \in Nat
  BY <1>1, LenProperties
<1>3. file \in [0..BackupCount -> Inodes \cup {0}] /\ racing \in BOOLEAN
  BY DEF TypeInv, LogTypeOK
<1>4. 0 \notin Inodes
  BY DEF Inodes
<1>. QED  BY <1>1, <1>2, <1>3, <1>4, Typed, MetricsAssumption DEF TypeInv, PhaseInv

(* A step that leaves the files as they are.                               *)
LEMMA FullStays ==
  ASSUME TypeInv, FullInv, NEW p \in Procs,
         UNCHANGED <<file, body>>,
         \A q \in Procs \ {p} : pc'[q] = pc[q] /\ at'[q] = at[q],
         pc'[p] \in Rotating => Full(0),
         pc'[p] \in Vacates => file[at'[p] + 1] = 0,
         pc[p] \in Vacates => \/ pc'[p] \in Vacates /\ at'[p] = at[p]
                              \/ at[p] \in 1..BackupCount /\ file[at[p]] = 0
  PROVE  FullInv'
<1>0. BackupCount \in Nat /\ at[p] \in Nat /\ \A q \in Procs : at[q] \in Nat
  BY Places
<1>1. (\A q \in Procs : pc[q] \in Rotating => Full(0))'
  BY DEF FullInv, Full, At
<1>2. (\A q \in Procs : pc[q] \in Vacates => file[at[q] + 1] = 0)'
  BY DEF FullInv
<1>3. (\A i \in 1..BackupCount : file[i] # 0 => Full(i))'
  BY DEF FullInv, Full, At
<1>4. ASSUME NEW i \in 0..BackupCount, NEW j \in 0..BackupCount,
             j < i, file[i] # 0, file[j] = 0
      PROVE  OnlyGap(i, j)'
  <2>1. OnlyGap(i, j)
    BY <1>4 DEF FullInv, Gaps
  <2>2. (\A m \in 0..i - 1 : m # j => file[m] # 0)'
    BY <2>1 DEF OnlyGap
  <2>3. ASSUME j # 0 PROVE \E q \in Procs : pc'[q] \in Vacates /\ at'[q] + 1 = j
    <3>1. PICK q \in Procs : pc[q] \in Vacates /\ at[q] + 1 = j
      BY <2>1, <2>3 DEF OnlyGap
    <3>2. CASE q # p
      BY <3>1, <3>2
    <3>3. CASE q = p
      <4>1. ~(at[p] \in 1..BackupCount /\ file[at[p]] = 0)
        <5>1. at[p] \in 0..i - 1 /\ at[p] # j
          BY <1>0, <1>4, <3>1, <3>3
        <5>. QED  BY <2>1, <5>1 DEF OnlyGap
      <4>. QED  BY <3>1, <3>3, <4>1
    <3>. QED  BY <3>2, <3>3
  <2>. QED  BY <2>2, <2>3 DEF OnlyGap
<1>. QED  BY <1>1, <1>2, <1>3, <1>4 DEF FullInv, Gaps

LEMMA MovedAlone ==
  ASSUME NEW p \in Procs, NEW to, Moved(p, to), ~racing'
  PROVE  file' = to /\ ~racing
         /\ \A q \in Procs \ {p} : pc[q] \notin Rotating /\ pc[q] \notin Reading
BY Zenon DEF Moved, Others

(* A file moves up one name, to where none is.                             *)
LEMMA FullMoves ==
  ASSUME TypeInv, FullInv, NEW p \in Procs, NEW a \in 0..BackupCount - 1,
         pc[p] \in Vacates, at[p] = a, file[a] # 0,
         file' = Renamed(a), UNCHANGED body,
         \A q \in Procs \ {p} : pc'[q] = pc[q] /\ at'[q] = at[q] /\ pc[q] \notin Rotating,
         IF a = 0 THEN pc'[p] \notin Rotating
                  ELSE pc'[p] \in Vacates /\ at'[p] + 1 = a
  PROVE  /\ FullInv'
         /\ \A i \in 0..BackupCount : file[i] # 0 => \E j \in 0..BackupCount : file'[j] = file[i]
<1>0. /\ BackupCount \in Nat /\ BackupCount # 0 /\ 0 \in 0..BackupCount /\ a \in 0..BackupCount
      /\ a + 1 \in 1..BackupCount /\ a + 1 \in 0..BackupCount /\ a \in Nat
      /\ Vacates \subseteq Rotating
  BY Places DEF Vacates, Rotating
<1>1. /\ file'[a + 1] = file[a] /\ file'[a] = 0
      /\ \A j \in 0..BackupCount : j # a /\ j # a + 1 => file'[j] = file[j]
  <2>1. file \in [0..BackupCount -> Inodes \cup {0}]
    BY Places
  <2>. QED  BY <1>0, <2>1 DEF Renamed
<1>2. file[a + 1] = 0 /\ Full(0)
  BY <1>0 DEF FullInv
<1>3. ASSUME NEW i \in 0..BackupCount, NEW j \in 0..BackupCount,
             j < i, file[i] # 0, file[j] = 0
      PROVE  j = a + 1 /\ \A m \in 0..i - 1 : m # a + 1 => file[m] # 0
  <2>1. OnlyGap(i, j)
    BY <1>3 DEF FullInv, Gaps
  <2>2. j # 0
    BY <1>2, <1>3 DEF Full
  <2>3. PICK q \in Procs : pc[q] \in Vacates /\ at[q] + 1 = j
    BY <2>1, <2>2 DEF OnlyGap
  <2>4. q = p
    BY <1>0, <2>3
  <2>. QED  BY <2>1, <2>3, <2>4 DEF OnlyGap
<1>4. ASSUME NEW i \in 0..BackupCount, NEW j \in 0..BackupCount,
             j < i, file'[i] # 0, file'[j] = 0
      PROVE  OnlyGap(i, j)'
  <2>1. j = a /\ \A m \in 0..i - 1 : m # a => file'[m] # 0
    <3>1. CASE i = a + 1
      <4>1. \A m \in 0..BackupCount : m < a => file[m] # 0
        BY <1>0, <1>3
      <4>. QED  BY <1>0, <1>1, <1>4, <3>1, <4>1
    <3>2. CASE i # a + 1
      <4>1. i # a /\ file[i] # 0 /\ j # a + 1
        BY <1>1, <1>4, <3>2
      <4>2. j = a
        BY <1>1, <1>3, <1>4, <4>1
      <4>3. a + 1 < i
        BY <1>0, <1>4, <3>2, <4>2
      <4>4. \A m \in 0..i - 1 : m # a + 1 => file[m] # 0
        BY <1>0, <1>2, <1>3, <4>1, <4>3
      <4>. QED  BY <1>0, <1>1, <4>2, <4>4
    <3>. QED  BY <3>1, <3>2
  <2>. QED  BY <2>1 DEF OnlyGap
<1>5. ASSUME NEW i \in 1..BackupCount, file'[i] # 0 PROVE Full(i)'
  <2>1. CASE i = a + 1
    <3>1. Full(a)
      BY <1>0, <1>2 DEF FullInv
    <3>2. At(i)' = At(a)
      BY <1>1, <2>1 DEF At, Full
    <3>. QED  BY <1>5, <3>1, <3>2 DEF Full
  <2>2. CASE i # a + 1
    <3>1. file'[i] = file[i] /\ Full(i)
      BY <1>1, <1>5, <2>2 DEF FullInv
    <3>. QED  BY <3>1 DEF Full, At
  <2>. QED  BY <2>1, <2>2
<1>6. ASSUME NEW q \in Procs
      PROVE  /\ pc'[q] \in Rotating => Full(0)'
             /\ pc'[q] \in Vacates => file'[at'[q] + 1] = 0
  <2>1. CASE q # p
    BY <1>0, <2>1
  <2>2. CASE q = p /\ a = 0
    BY <1>0, <2>2
  <2>3. CASE q = p /\ a # 0
    <3>1. file'[0] = file[0]
      BY <1>0, <1>1, <2>3
    <3>2. Full(0)'
      BY <1>2, <3>1 DEF Full, At
    <3>. QED  BY <1>1, <2>3, <3>2
  <2>. QED  BY <2>1, <2>2, <2>3
<1>7. \A i \in 0..BackupCount : file[i] # 0 => \E j \in 0..BackupCount : file'[j] = file[i]
  BY <1>0, <1>1, <1>2
<1>. QED  BY <1>4, <1>5, <1>6, <1>7 DEF FullInv, Gaps

(* The oldest file is dropped when every name is taken.                    *)
LEMMA FullDrops ==
  ASSUME TypeInv, FullInv, NEW p \in Procs,
         pc[p] = "unlink", file[BackupCount] # 0,
         file' = [file EXCEPT ![BackupCount] = 0], UNCHANGED body,
         \A q \in Procs \ {p} : pc'[q] = pc[q] /\ at'[q] = at[q] /\ pc[q] \notin Rotating,
         pc'[p] \in Vacates, at'[p] = BackupCount - 1
  PROVE  FullInv' /\ \A j \in 0..BackupCount : Full(j)
<1>0. /\ BackupCount \in Nat /\ BackupCount # 0 /\ 0 \in 0..BackupCount
      /\ BackupCount \in 0..BackupCount
      /\ Vacates \subseteq Rotating /\ "unlink" \in Rotating /\ "unlink" \notin Vacates
  BY Places DEF Vacates, Rotating
<1>1. /\ file'[BackupCount] = 0
      /\ \A j \in 0..BackupCount : j # BackupCount => file'[j] = file[j]
  <2>1. file \in [0..BackupCount -> Inodes \cup {0}]
    BY Places
  <2>. QED  BY <1>0, <2>1
<1>2. Full(0)
  BY <1>0 DEF FullInv
<1>3. ASSUME NEW j \in 0..BackupCount PROVE Full(j)
  <2>1. CASE file[j] = 0
    <3>1. j # 0 /\ j < BackupCount
      BY <1>0, <1>2, <2>1 DEF Full
    <3>2. OnlyGap(BackupCount, j)
      BY <1>0, <2>1, <3>1 DEF FullInv, Gaps
    <3>3. PICK q \in Procs : pc[q] \in Vacates
      BY <3>1, <3>2 DEF OnlyGap
    <3>. QED  BY <1>0, <3>3
  <2>2. CASE file[j] # 0
    BY <1>2, <2>2 DEF FullInv
  <2>. QED  BY <2>1, <2>2
<1>4. Gaps'
  <2>1. \A i, j \in 0..BackupCount : j < i => file'[j] # 0
    BY <1>0, <1>1, <1>3 DEF Full
  <2>. QED  BY <2>1 DEF Gaps
<1>5. ASSUME NEW i \in 0..BackupCount, i # BackupCount PROVE Full(i)'
  BY <1>1, <1>3, <1>5 DEF Full, At
<1>6. ASSUME NEW q \in Procs
      PROVE  /\ pc'[q] \in Rotating => Full(0)'
             /\ pc'[q] \in Vacates => file'[at'[q] + 1] = 0
  <2>1. CASE q # p
    BY <1>0, <2>1
  <2>2. CASE q = p
    BY <1>0, <1>1, <1>5, <2>2
  <2>. QED  BY <2>1, <2>2
<1>7. \A i \in 1..BackupCount : file'[i] # 0 => Full(i)'
  BY <1>0, <1>1, <1>5
<1>. QED  BY <1>3, <1>4, <1>6, <1>7 DEF FullInv

(* What a step drops while no rotation has met another process.            *)
Drops(i) == file[i] # 0 /\ \A j \in 0..BackupCount : file'[j] # file[i]
DropsWhenFull ==
  ~racing' => \A i \in 0..BackupCount :
                Drops(i) => \A j \in 0..BackupCount \ {i} : Len(At(j)) >= MaxBytes

LEMMA AsideRotates ==
  ASSUME TypeInv, RotationInv, NEW p \in Procs,
         \/ \E key \in Keys \cup {NoKey, Ok}, fix \in BOOLEAN : Block(p, key, fix)
         \/ Load(p) \/ List(p) \/ Read(p) \/ Index(p) \/ Exists(p) \/ Oldest(p) \/ Look(p)
  PROVE  RotationInv' /\ DropsWhenFull
<1>0. /\ BackupCount \in Nat /\ BackupCount # 0
      /\ pc \in [Procs -> Phases] /\ at \in [Procs -> 0..BackupCount + 1] /\ Phase(p)
  BY Places
<1>1. /\ UNCHANGED <<file, body>> /\ pc' = [pc EXCEPT ![p] = pc'[p]]
  BY StaySteps
<1>2. /\ at' = [at EXCEPT ![p] = at'[p]] /\ racing' = racing
      /\ pc'[p] \in Rotating => pc[p] \in Rotating
      /\ pc'[p] \in Vacates =>
           /\ \/ pc[p] = "oldest" /\ at'[p] = BackupCount - 1 /\ file[BackupCount] = 0
              \/ pc[p] = "look" /\ at'[p] = at[p]
              \/ pc[p] = "look" /\ at'[p] = at[p] - 1 /\ file[at[p]] = 0
           /\ pc'[p] = "last" => at'[p] = 0
      /\ pc[p] \in Vacates => pc[p] = "look" /\ pc'[p] \in Vacates
  <2>1. ASSUME NEW key, NEW fix, Block(p, key, fix)
        PROVE  /\ UNCHANGED <<at, racing>> /\ pc[p] = "idle" /\ pc'[p] \in {"load", "exists"}
    BY <1>0, <2>1 DEF Block, Go
  <2>2. ASSUME Load(p)
        PROVE  /\ at' = [at EXCEPT ![p] = at'[p]] /\ racing' = racing /\ pc[p] = "load"
               /\ pc'[p] \in {"exists", "list"}
    BY <1>0, <2>2 DEF Load, Go, Hinted
  <2>3. ASSUME List(p) \/ Read(p)
        PROVE  /\ at' = [at EXCEPT ![p] = at'[p]] /\ racing' = racing
               /\ pc[p] \in {"list", "read"} /\ pc'[p] \in {"list", "read", "index"}
    BY <1>0, <2>3 DEF List, Read, Go
  <2>4. ASSUME Index(p) \/ Exists(p)
        PROVE  /\ UNCHANGED <<at, racing>> /\ pc[p] \in {"index", "exists"}
               /\ pc'[p] \in {"exists", "open", "stat"}
    BY <1>0, <2>4 DEF Index, Exists, Asks, Go
  <2>5. ASSUME Oldest(p)
        PROVE  /\ at' = [at EXCEPT ![p] = at'[p]] /\ racing' = racing /\ pc[p] = "oldest"
               /\ at'[p] = BackupCount - 1
               /\ \/ pc'[p] = "unlink"
                  \/ pc'[p] = "look" /\ file[BackupCount] = 0
                  \/ pc'[p] = "last" /\ BackupCount = 1 /\ file[BackupCount] = 0
    BY <1>0, <2>5 DEF Oldest, Asks, Go
  <2>6. ASSUME Look(p)
        PROVE  /\ at' = [at EXCEPT ![p] = at'[p]] /\ racing' = racing /\ pc[p] = "look"
               /\ \/ at'[p] = at[p] /\ pc'[p] = "move"
                  \/ at'[p] = at[p] - 1 /\ file[at[p]] = 0 /\ pc'[p] = "look"
                  \/ at'[p] = at[p] - 1 /\ file[at[p]] = 0 /\ pc'[p] = "last" /\ at[p] = 1
    <3>1. at[p] \in 1..BackupCount - 1
      BY <1>0, <2>6 DEF Look, Asks, Phase
    <3>2. CASE file[at[p]] # 0
      BY <1>0, <2>6, <3>1, <3>2 DEF Look, Asks, Go
    <3>3. CASE file[at[p]] = 0
      BY <1>0, <2>6, <3>1, <3>3 DEF Look, Asks, NextBackup, Go
    <3>. QED  BY <3>2, <3>3
  <2>. QED  BY <1>0, <2>1, <2>2, <2>3, <2>4, <2>5, <2>6 DEF Rotating, Vacates
<1>3. LastAtCurrent'
  BY <1>0, <1>1, <1>2 DEF RotationInv, LastAtCurrent, Vacates
<1>4. ASSUME ~racing' PROVE FullInv'
  <2>1. FullInv
    BY <1>2, <1>4 DEF RotationInv
  <2>2. pc[p] = "look" => at[p] \in 1..BackupCount /\ file[at[p] + 1] = 0
    BY <1>0, <2>1 DEF FullInv, Phase, Vacates
  <2>3. pc'[p] \in Vacates => file[at'[p] + 1] = 0
    BY <1>0, <1>2, <2>2
  <2>4. pc'[p] \in Rotating => Full(0)
    BY <1>2, <2>1 DEF FullInv
  <2>5. \A q \in Procs \ {p} : pc'[q] = pc[q] /\ at'[q] = at[q]
    BY <1>0, <1>1, <1>2
  <2>6. pc[p] \in Vacates => \/ pc'[p] \in Vacates /\ at'[p] = at[p]
                             \/ at[p] \in 1..BackupCount /\ file[at[p]] = 0
    BY <1>2, <2>2
  <2>. QED  BY <1>1, <2>1, <2>3, <2>4, <2>5, <2>6, FullStays
<1>5. DropsWhenFull
  BY <1>1 DEF DropsWhenFull, Drops
<1>. QED  BY <1>3, <1>4, <1>5 DEF RotationInv

(* A process that gives its event up: this is racing.                      *)
LEMMA GivenUp ==
  ASSUME TypeInv, RotationInv, NEW p \in Procs, NEW i, GivesUp(p, i),
         at' = at \/ at' = [at EXCEPT ![p] = 0]
  PROVE  RotationInv' /\ DropsWhenFull
<1>0. pc \in [Procs -> Phases] /\ at \in [Procs -> 0..BackupCount + 1]
  BY Places
<1>1. racing' = TRUE /\ pc' = [pc EXCEPT ![p] = "idle"]
  BY DEF GivesUp, Go
<1>2. LastAtCurrent'
  BY <1>0, <1>1 DEF RotationInv, LastAtCurrent
<1>. QED  BY <1>1, <1>2 DEF RotationInv, DropsWhenFull

LEMMA StatRotates ==
  ASSUME TypeInv, RotationInv, NEW p \in Procs, Stat(p)
  PROVE  RotationInv' /\ DropsWhenFull
<1>0. /\ BackupCount \in Nat /\ MaxBytes \in Nat /\ 0 \in 0..BackupCount
      /\ pc \in [Procs -> Phases] /\ Len(At(0)) \in Nat
  BY Places
<1>1. CASE GivesUp(p, 0)
  BY <1>1, GivenUp DEF Stat
<1>2. CASE ~GivesUp(p, 0)
  <2>1. /\ file[0] # 0 /\ pc[p] = "stat" /\ UNCHANGED <<file, racing, body, at>>
        /\ pc' = [pc EXCEPT ![p] = IF Fits(0) THEN "open" ELSE "oldest"]
    BY <1>2 DEF Stat, Go
  <2>2. /\ pc[p] \notin Vacates /\ pc'[p] \notin Vacates
        /\ pc'[p] \in Rotating => ~Fits(0)
        /\ \A q \in Procs \ {p} : pc'[q] = pc[q] /\ at'[q] = at[q]
    BY <1>0, <2>1 DEF Vacates, Rotating
  <2>3. ~Fits(0) => Full(0)
    BY <1>0, <2>1 DEF Fits, Full
  <2>4. LastAtCurrent'
    BY <2>1, <2>2 DEF RotationInv, LastAtCurrent, Vacates
  <2>5. ASSUME ~racing' PROVE FullInv'
    BY <2>1, <2>2, <2>3, <2>5, FullStays DEF RotationInv
  <2>6. DropsWhenFull
    BY <2>1 DEF DropsWhenFull, Drops
  <2>. QED  BY <2>4, <2>5, <2>6 DEF RotationInv
<1>. QED  BY <1>1, <1>2

LEMMA UnlinkRotates ==
  ASSUME TypeInv, RotationInv, NEW p \in Procs, Unlink(p)
  PROVE  RotationInv' /\ DropsWhenFull
<1>. DEFINE to == [file EXCEPT ![BackupCount] = 0]
<1>0. /\ BackupCount \in Nat /\ BackupCount # 0 /\ BackupCount \in 0..BackupCount
      /\ pc \in [Procs -> Phases] /\ file \in [0..BackupCount -> Inodes \cup {0}]
      /\ at \in [Procs -> 0..BackupCount + 1] /\ Phase(p)
  BY Places
<1>1. CASE GivesUp(p, BackupCount)
  BY <1>1, GivenUp DEF Unlink
<1>2. CASE ~GivesUp(p, BackupCount)
  <2>1. /\ file[BackupCount] # 0 /\ pc[p] = "unlink" /\ UNCHANGED <<body, at>>
        /\ Moved(p, to)
        /\ pc' = [pc EXCEPT ![p] = IF BackupCount > 1 THEN "look" ELSE "last"]
    BY <1>2 DEF Unlink, Go
  <2>2. /\ at'[p] = BackupCount - 1 /\ pc'[p] \in Vacates
        /\ pc'[p] = "last" => at'[p] = 0
        /\ \A q \in Procs \ {p} : pc'[q] = pc[q] /\ at'[q] = at[q]
    BY <1>0, <2>1 DEF Vacates, Phase
  <2>3. LastAtCurrent'
    BY <2>1, <2>2 DEF RotationInv, LastAtCurrent
  <2>4. ASSUME ~racing' PROVE FullInv' /\ file' = to /\ \A j \in 0..BackupCount : Full(j)
    <3>1. /\ file' = to /\ FullInv
          /\ \A q \in Procs \ {p} : pc[q] \notin Rotating
      BY <2>1, <2>4, MovedAlone DEF RotationInv
    <3>. HIDE DEF to
    <3>2. file' = [file EXCEPT ![BackupCount] = 0]
      BY <3>1 DEF to
    <3>. QED  BY <2>1, <2>2, <3>1, <3>2, FullDrops
  <2>5. DropsWhenFull
    BY <2>4 DEF DropsWhenFull, Full
  <2>. QED  BY <2>3, <2>4, <2>5 DEF RotationInv
<1>. QED  BY <1>1, <1>2

LEMMA MoveRotates ==
  ASSUME TypeInv, RotationInv, NEW p \in Procs, Move(p) \/ MoveCurrent(p)
  PROVE  RotationInv' /\ DropsWhenFull
<1>0. /\ BackupCount \in Nat /\ BackupCount # 0
      /\ pc \in [Procs -> Phases] /\ at \in [Procs -> 0..BackupCount + 1] /\ Phase(p)
  BY Places
<1>. DEFINE a == at[p]
<1>1. CASE Move(p) /\ GivesUp(p, at[p]) /\ at' = [at EXCEPT ![p] = 0]
  BY <1>1, GivenUp
<1>2. CASE MoveCurrent(p) /\ GivesUp(p, 0)
  BY <1>2, GivenUp DEF MoveCurrent
<1>3. CASE ~(Move(p) /\ GivesUp(p, at[p]) /\ at' = [at EXCEPT ![p] = 0])
           /\ ~(MoveCurrent(p) /\ GivesUp(p, 0))
  <2>1. /\ a \in 0..BackupCount - 1 /\ file[a] # 0 /\ Moved(p, Renamed(a))
        /\ pc[p] \in Vacates /\ UNCHANGED body
        /\ pc' = [pc EXCEPT ![p] = pc'[p]] /\ at' = [at EXCEPT ![p] = at'[p]]
        /\ IF a = 0 THEN pc'[p] = "open"
                    ELSE pc'[p] \in {"look", "last"} /\ at'[p] = a - 1
        /\ pc'[p] = "last" => at'[p] = 0
    <3>1. CASE Move(p)
      <4>1. a \in 1..BackupCount - 1 /\ a # 0
        BY <1>0, <3>1 DEF Move, Phase
      <4>2. /\ file[a] # 0 /\ Moved(p, Renamed(a)) /\ pc[p] = "move" /\ UNCHANGED body
            /\ pc' = [pc EXCEPT ![p] = NextBackup(p)]
            /\ at' = [at EXCEPT ![p] = @ - 1]
        BY <1>3, <3>1 DEF Move, Go
      <4>. QED  BY <1>0, <4>1, <4>2 DEF NextBackup, Vacates
    <3>2. CASE MoveCurrent(p)
      <4>1. /\ file[0] # 0 /\ Moved(p, Renamed(0)) /\ pc[p] = "last" /\ UNCHANGED body
            /\ pc' = [pc EXCEPT ![p] = "open"]
            /\ at' = [at EXCEPT ![p] = 0]
        BY <1>3, <3>2 DEF MoveCurrent, Go
      <4>2. a = 0
        BY <4>1 DEF RotationInv, LastAtCurrent
      <4>. QED  BY <1>0, <4>1, <4>2 DEF Vacates
    <3>. QED  BY <3>1, <3>2
  <2>2. \A q \in Procs \ {p} : pc'[q] = pc[q] /\ at'[q] = at[q]
    BY <1>0, <2>1
  <2>3. LastAtCurrent'
    BY <1>0, <2>1, <2>2 DEF RotationInv, LastAtCurrent
  <2>4. ASSUME ~racing'
        PROVE  FullInv' /\ \A i \in 0..BackupCount :
                 file[i] # 0 => \E j \in 0..BackupCount : file'[j] = file[i]
    <3>1. /\ file' = Renamed(a) /\ FullInv
          /\ \A q \in Procs \ {p} : pc[q] \notin Rotating
      BY <2>1, <2>4, MovedAlone DEF RotationInv
    <3>2. IF a = 0 THEN pc'[p] \notin Rotating ELSE pc'[p] \in Vacates /\ at'[p] + 1 = a
      BY <1>0, <2>1 DEF Vacates, Rotating
    <3>. QED  BY <2>1, <2>2, <3>1, <3>2, FullMoves
  <2>5. DropsWhenFull
    BY <2>4 DEF DropsWhenFull, Drops
  <2>. QED  BY <2>3, <2>4, <2>5 DEF RotationInv
<1>. QED  BY <1>1, <1>2, <1>3

LEMMA OpenRotates ==
  ASSUME TypeInv, RotationInv, NEW p \in Procs, Open(p)
  PROVE  RotationInv' /\ DropsWhenFull
<1>0. /\ BackupCount \in Nat /\ 0 \in 0..BackupCount /\ 0 \notin Inodes
      /\ pc \in [Procs -> Phases] /\ file \in [0..BackupCount -> Inodes \cup {0}]
      /\ body \in [Inodes -> Seq(Event)]
  BY Places DEF TypeInv, LogTypeOK
<1>1. PICK x \in Inodes :
        /\ file' = [file EXCEPT ![0] = x]
        /\ file[0] # 0 => x = file[0] /\ body' = body
        /\ file[0] = 0 => /\ \A j \in 0..BackupCount : x # file[j]
                          /\ body' = [body EXCEPT ![x] = <<>>]
  BY OpenSteps DEF TypeInv
<1>2. /\ pc[p] = "open" /\ UNCHANGED <<at, racing>> /\ pc' = [pc EXCEPT ![p] = "write"]
  BY DEF Open, Go
<1>3. /\ pc[p] \notin Rotating /\ pc'[p] \notin Rotating
      /\ pc[p] \notin Vacates /\ pc'[p] \notin Vacates
      /\ \A q \in Procs \ {p} : pc'[q] = pc[q] /\ at'[q] = at[q]
  BY <1>0, <1>2 DEF Vacates, Rotating
<1>4. LastAtCurrent'
  BY <1>2, <1>3 DEF RotationInv, LastAtCurrent, Vacates
<1>5. CASE file[0] # 0
  <2>1. file' = file /\ body' = body
    BY <1>0, <1>1, <1>5
  <2>2. ASSUME ~racing' PROVE FullInv'
    BY <1>2, <1>3, <2>1, <2>2, FullStays DEF RotationInv
  <2>. QED  BY <1>4, <2>1, <2>2 DEF RotationInv, DropsWhenFull, Drops
<1>6. CASE file[0] = 0
  <2>1. /\ file'[0] # 0 /\ \A j \in 0..BackupCount : j # 0 => file'[j] = file[j]
        /\ \A j \in 0..BackupCount : j # 0 => At(j)' = At(j)
    <3>1. file'[0] # 0 /\ \A j \in 0..BackupCount : j # 0 => file'[j] = file[j]
      BY <1>0, <1>1
    <3>2. ASSUME NEW j \in 0..BackupCount, j # 0 PROVE At(j)' = At(j)
      <4>1. file[j] # 0 => file[j] \in Inodes /\ file[j] # x
        BY <1>0, <1>1, <1>6
      <4>2. file[j] # 0 => body'[file[j]] = body[file[j]]
        BY <1>0, <1>1, <1>6, <4>1
      <4>. QED  BY <3>1, <3>2, <4>2 DEF At
    <3>. QED  BY <3>1, <3>2
  <2>2. ASSUME ~racing' PROVE FullInv'
    <3>1. FullInv
      BY <1>2, <2>2 DEF RotationInv
    <3>2. \A q \in Procs : pc[q] \notin Rotating /\ pc'[q] \notin Rotating
      <4>1. \A q \in Procs : pc[q] \notin Rotating
        BY <1>6, <3>1 DEF FullInv, Full
      <4>. QED  BY <1>3, <4>1
    <3>3. \A q \in Procs : pc[q] \notin Vacates /\ pc'[q] \notin Vacates
      BY <3>2 DEF Vacates, Rotating
    <3>4. \A i \in 1..BackupCount : file'[i] # 0 => Full(i)'
      <4>1. \A i \in 1..BackupCount : i \in 0..BackupCount /\ i # 0
        BY <1>0
      <4>. QED  BY <2>1, <3>1, <4>1 DEF FullInv, Full
    <3>5. \A i, j \in 0..BackupCount : j < i => file'[i] = 0 \/ file'[j] # 0
      <4>. SUFFICES ASSUME NEW i \in 0..BackupCount, NEW j \in 0..BackupCount,
                           j < i, file'[i] # 0, file'[j] = 0
                    PROVE  FALSE
        OBVIOUS
      <4>1. j # 0 /\ i # 0 /\ file[i] # 0 /\ file[j] = 0
        BY <1>0, <2>1
      <4>2. OnlyGap(i, j)
        BY <3>1, <4>1 DEF FullInv, Gaps
      <4>. QED  BY <3>3, <4>1, <4>2 DEF OnlyGap
    <3>6. Gaps'
      BY <3>5 DEF Gaps
    <3>. QED  BY <3>2, <3>3, <3>4, <3>6 DEF FullInv
  <2>3. DropsWhenFull
    BY <1>6, <2>1 DEF DropsWhenFull, Drops
  <2>. QED  BY <1>4, <2>2, <2>3 DEF RotationInv
<1>. QED  BY <1>5, <1>6

LEMMA WriteRotates ==
  ASSUME TypeInv, RotationInv, NEW p \in Procs, Write(p)
  PROVE  RotationInv' /\ DropsWhenFull
<1>0. /\ BackupCount \in Nat /\ MaxBytes \in Nat /\ 0 \in 0..BackupCount /\ 0 \notin Inodes
      /\ pc \in [Procs -> Phases] /\ file \in [0..BackupCount -> Inodes \cup {0}]
      /\ body \in [Inodes -> Seq(Event)] /\ \A i \in 0..BackupCount : Len(At(i)) \in Nat
  BY Places DEF TypeInv, LogTypeOK
<1>1. PICK e \in Event :
        /\ handle[p] \in Inodes /\ pc[p] = "write"
        /\ body' = [body EXCEPT ![handle[p]] = Append(body[handle[p]], e)]
        /\ pc' = [pc EXCEPT ![p] = "idle"]
        /\ UNCHANGED <<file, at>>
  BY WriteSteps
<1>2. ~racing' => ~racing
  BY Zenon DEF Write
<1>3. /\ pc[p] \notin Rotating /\ pc'[p] \notin Rotating
      /\ pc[p] \notin Vacates /\ pc'[p] \notin Vacates
      /\ \A q \in Procs \ {p} : pc'[q] = pc[q] /\ at'[q] = at[q]
  BY <1>0, <1>1 DEF Vacates, Rotating
<1>4. LastAtCurrent'
  BY <1>1, <1>3 DEF RotationInv, LastAtCurrent, Vacates
<1>5. \A i \in 0..BackupCount : Full(i) => Full(i)'
  <2>. SUFFICES ASSUME NEW i \in 0..BackupCount, Full(i)
                PROVE  Len(At(i)') >= MaxBytes
    BY <1>1 DEF Full
  <2>1. file[i] \in Inodes /\ At(i) = body[file[i]] /\ At(i)' = body'[file[i]]
    BY <1>0, <1>1 DEF Full, At
  <2>2. Len(body'[file[i]]) \in {Len(body[file[i]]), Len(body[file[i]]) + 1}
    <3>1. body[handle[p]] \in Seq(Event)
      BY <1>0, <1>1
    <3>2. Len(Append(body[handle[p]], e)) = Len(body[handle[p]]) + 1
      BY <3>1, AppendAt
    <3>. QED  BY <1>0, <1>1, <2>1, <3>2
  <2>. QED  BY <1>0, <2>1, <2>2 DEF Full
<1>6. ASSUME ~racing' PROVE FullInv'
  <2>1. FullInv
    BY <1>2, <1>6 DEF RotationInv
  <2>2. \A q \in Procs : pc'[q] \in Rotating => Full(0)'
    BY <1>0, <1>3, <1>5, <2>1 DEF FullInv
  <2>3. \A q \in Procs : pc'[q] \in Vacates => file'[at'[q] + 1] = 0
    BY <1>1, <1>3, <2>1 DEF FullInv
  <2>4. \A i \in 1..BackupCount : file'[i] # 0 => Full(i)'
    <3>1. \A i \in 1..BackupCount : i \in 0..BackupCount /\ (file[i] # 0 => Full(i))
      BY <1>0, <2>1 DEF FullInv
    <3>2. file' = file
      BY <1>1
    <3>. QED  BY <1>5, <3>1, <3>2
  <2>5. Gaps'
    BY <1>1, <1>3, <2>1 DEF FullInv, Gaps, OnlyGap
  <2>. QED  BY <2>2, <2>3, <2>4, <2>5 DEF FullInv
<1>7. DropsWhenFull
  BY <1>1 DEF DropsWhenFull, Drops
<1>. QED  BY <1>4, <1>6, <1>7 DEF RotationInv

LEMMA StepRotation ==
  TypeInv /\ RotationInv /\ [Next]_vars => RotationInv' /\ DropsWhenFull
<1>. SUFFICES ASSUME TypeInv, RotationInv, [Next]_vars
              PROVE  RotationInv' /\ DropsWhenFull
  OBVIOUS
<1>1. CASE UNCHANGED vars
  <2>1. LastAtCurrent'
    BY <1>1 DEF vars, RotationInv, LastAtCurrent
  <2>2. FullInv => FullInv'
    BY <1>1 DEF vars, FullInv, Full, At, Gaps, OnlyGap
  <2>3. racing' = racing
    BY <1>1 DEF vars
  <2>4. DropsWhenFull
    BY <1>1 DEF vars, DropsWhenFull, Drops
  <2>. QED  BY <2>1, <2>2, <2>3, <2>4 DEF RotationInv
<1>2. CASE Next
  BY <1>2, AsideRotates, StatRotates, UnlinkRotates, MoveRotates, OpenRotates, WriteRotates
     DEF Next
<1>. QED  BY <1>1, <1>2

LEMMA InitRotation == Init => RotationInv
<1>. SUFFICES ASSUME Init PROVE RotationInv
  OBVIOUS
<1>1. PICK old \in BOOLEAN :
        /\ file = [i \in 0..BackupCount |-> IF old THEN i + 1 ELSE 0]
        /\ body = [i \in Inodes |->
             IF old /\ i <= BackupCount + 1 THEN OldFile(i - 1) ELSE <<>>]
  BY DEF Init
<1>2. /\ \A p \in Procs : pc[p] = "idle"
      /\ BackupCount \in Nat
  BY MetricsAssumption DEF Init
<1>3. \A p \in Procs : pc[p] \notin Rotating /\ pc[p] \notin Vacates
  BY <1>2 DEF Rotating, Vacates
<1>4. \A i \in 1..BackupCount : file[i] # 0 => Full(i)
  <2>. SUFFICES ASSUME NEW i \in 1..BackupCount, old PROVE Full(i)
    BY <1>1, <1>2
  <2>1. i + 1 \in Inodes /\ i + 1 <= BackupCount + 1 /\ (i + 1) - 1 = i /\ i \in 0..BackupCount
    BY <1>2, ProcsAreMany DEF Inodes
  <2>2. file[i] # 0 /\ At(i) = OldFile(i)
    BY <1>1, <1>2, <2>1 DEF At
  <2>3. Len(OldFile(i)) = MaxBytes
    <3>1. OldFile(i) = [j \in 1..MaxBytes |->
            [by |-> None, n |-> (BackupCount - i) * MaxBytes + j, ts |-> 0, key |-> Ok,
             fix |-> FALSE]]
      BY <1>2 DEF OldFile
    <3>2. OldFile(i) \in Seq(Event) /\ MaxBytes \in Nat
      BY <2>1, OldFileTypes, MetricsAssumption
    <3>. QED  BY <3>1, <3>2, LenProperties
  <2>. QED  BY <2>2, <2>3, <1>2, MetricsAssumption DEF Full
<1>5. Gaps
  <2>1. \A i, j \in 0..BackupCount : file[i] # 0 => file[j] # 0
    BY <1>1, <1>2
  <2>. QED  BY <2>1 DEF Gaps
<1>6. LastAtCurrent
  BY <1>2 DEF LastAtCurrent
<1>. QED  BY <1>3, <1>4, <1>5, <1>6 DEF RotationInv, FullInv

LEMMA RotationInvHolds == Spec => []RotationInv
BY InitRotation, StepRotation, TypeInvHolds, PTL DEF Spec

(* Rotation drops the oldest file when backup_count full ones remain, and  *)
(* it drops no other, unless it met another process on the way.            *)
THEOREM RotationKeepsHistory == Spec => HistoryKept
<1>. DEFINE Kept ==
       \A i \in 0..BackupCount :
         ~racing' /\ file[i] # 0 /\ (\A j \in 0..BackupCount : file'[j] # file[i]) =>
           \A j \in 0..BackupCount \ {i} : Len(At(j)) >= MaxBytes
<1>1. DropsWhenFull => Kept
  BY DEF DropsWhenFull, Drops
<1>2. TypeInv /\ RotationInv /\ [Next]_vars => [Kept]_vars
  BY <1>1, StepRotation
<1>3. Spec => [][Kept]_vars
  BY <1>2, TypeInvHolds, RotationInvHolds, PTL DEF Spec
<1>. QED  BY <1>3 DEF HistoryKept
-----------------------------------------------------------------------------
(* What a HINT names. The events in the log are the blocks' own, a block   *)
(* once run stays as it was, and the index of a reader that met no         *)
(* rotation is made from events without gaps.                              *)

(* What the log and its readers have of a block is that block.             *)
Genuine(s) ==
  \A i \in 1..Len(s) :
    /\ s[i].by = None => ~s[i].fix
    /\ \A q \in Procs : s[i].by = q => s[i].n \in 1..Upto(q) /\ s[i] = blocks[q][s[i].n]
GenuineInv == (\A x \in Inodes : Genuine(body[x])) /\ (\A p \in Procs : Genuine(seen[p]))

(* A process that asks for a HINT, or reads for one, has failed.           *)
AskingInv == \A p \in Procs : pc[p] \in {"load"} \cup Reading => Key(p) \in Keys

LEMMA BlocksGrow ==
  ASSUME TypeInv, [Next]_vars, NEW q \in Procs
  PROVE  /\ Len(blocks[q]) <= Len(blocks'[q])
         /\ \A n \in 1..Len(blocks[q]) : blocks'[q][n] = blocks[q][n]
<1>0. blocks \in [Procs -> Seq(Event)] /\ blocks[q] \in Seq(Event) /\ Len(blocks[q]) \in Nat
  BY SeqsAre
<1>1. ASSUME NEW p \in Procs, NEW key \in Keys \cup {NoKey, Ok}, NEW fix \in BOOLEAN, Block(p, key, fix)
      PROVE  \/ blocks'[q] = blocks[q]
             \/ \E e \in Event : blocks'[q] = Append(blocks[q], e)
  <2>. DEFINE e == [by |-> p, n |-> Len(blocks[p]) + 1, ts |-> now', key |-> key, fix |-> fix]
  <2>1. blocks' = [blocks EXCEPT ![p] = Append(blocks[p], e)]
    BY <1>1 DEF Block
  <2>2. e \in Event
    <3>1. Len(blocks[p]) + 1 \in Nat
      BY <1>0, SeqsAre
    <3>2. now' \in Nat
      BY <1>1, ClockTypes DEF TypeInv, Next
    <3>. QED  BY <3>1, <3>2 DEF Event
  <2>. HIDE DEF e
  <2>. QED  BY <1>0, <2>1, <2>2
<1>2. ASSUME NEW p \in Procs,
             \/ Load(p) \/ List(p) \/ Read(p) \/ Index(p)
             \/ Exists(p) \/ Oldest(p) \/ Look(p)
             \/ Stat(p) \/ Unlink(p) \/ Move(p) \/ MoveCurrent(p)
             \/ Open(p) \/ Write(p)
      PROVE  blocks' = blocks
  BY <1>2 DEF Load, List, Read, Index, Exists, Oldest, Look, Stat, Unlink, Move,
              MoveCurrent, Open, Write, Asks
<1>3. \/ blocks'[q] = blocks[q]
      \/ \E e \in Event : blocks'[q] = Append(blocks[q], e)
  <2>1. CASE UNCHANGED vars
    BY <2>1 DEF vars
  <2>. QED  BY <1>1, <1>2, <2>1 DEF Next
<1>4. ASSUME NEW e \in Event, blocks'[q] = Append(blocks[q], e)
      PROVE  /\ Len(blocks[q]) <= Len(blocks'[q])
             /\ \A n \in 1..Len(blocks[q]) : blocks'[q][n] = blocks[q][n]
  BY <1>0, <1>4, AppendAt
<1>. QED  BY <1>0, <1>3, <1>4

GenuineNext(s) ==
  \A i \in 1..Len(s) :
    /\ s[i].by = None => ~s[i].fix
    /\ \A q \in Procs : s[i].by = q => s[i].n \in 1..Upto(q)' /\ s[i] = blocks'[q][s[i].n]

LEMMA GenuineStays ==
  ASSUME TypeInv, TypeInv', [Next]_vars, NEW s \in Seq(Event), Genuine(s)
  PROVE  GenuineNext(s)
<1>. SUFFICES ASSUME NEW i \in 1..Len(s), NEW q \in Procs, s[i].by = q
              PROVE  s[i].n \in 1..Upto(q)' /\ s[i] = blocks'[q][s[i].n]
  BY DEF Genuine, GenuineNext
<1>1. s[i].n \in 1..Upto(q) /\ s[i] = blocks[q][s[i].n]
  BY DEF Genuine
<1>2. Upto(q) <= Upto(q)' /\ Upto(q) \in Int /\ Upto(q) <= Len(blocks[q]) /\ Len(blocks[q]) \in Nat
  BY UptoGrows, SeqsAre DEF Upto
<1>3. Upto(q)' \in Int
  <2>1. blocks'[q] \in Seq(Event)
    BY DEF TypeInv, LogTypeOK
  <2>2. Len(blocks'[q]) \in Nat
    BY <2>1
  <2>. QED  BY <2>2 DEF Upto
<1>4. s[i].n \in 1..Len(blocks[q]) /\ s[i].n \in 1..Upto(q)'
  BY <1>1, <1>2, <1>3
<1>. QED  BY <1>1, <1>4, BlocksGrow

LEMMA GenuineConcat ==
  ASSUME NEW s \in Seq(Event), NEW t \in Seq(Event), GenuineNext(s), GenuineNext(t)
  PROVE  GenuineNext(s \o t)
<1>. SUFFICES ASSUME NEW i \in 1..Len(s \o t)
              PROVE  \/ \E j \in 1..Len(s) : (s \o t)[i] = s[j]
                     \/ \E j \in 1..Len(t) : (s \o t)[i] = t[j]
  BY DEF GenuineNext
<1>. QED  BY ConcatAt

LEMMA GenuineAppend ==
  ASSUME NEW s \in Seq(Event), NEW e \in Event, NEW p \in Procs, GenuineNext(s),
         e.by = p, e.n \in 1..Upto(p)', e = blocks'[p][e.n]
  PROVE  GenuineNext(Append(s, e))
<1>. SUFFICES ASSUME NEW i \in 1..Len(s) + 1
              PROVE  /\ Append(s, e)[i].by = None => ~Append(s, e)[i].fix
                     /\ \A q \in Procs : Append(s, e)[i].by = q =>
                          Append(s, e)[i].n \in 1..Upto(q)'
                          /\ Append(s, e)[i] = blocks'[q][Append(s, e)[i].n]
  BY AppendAt DEF GenuineNext
<1>1. CASE i <= Len(s)
  <2>1. i \in 1..Len(s) /\ Append(s, e)[i] = s[i]
    BY <1>1, AppendAt
  <2>. QED  BY <2>1 DEF GenuineNext
<1>2. CASE ~(i <= Len(s))
  <2>1. Append(s, e)[i] = e
    BY <1>2, AppendAt
  <2>. QED  BY <2>1, MetricsAssumption
<1>. QED  BY <1>1, <1>2

LEMMA GenuineEmpty == GenuineNext(<<>>)
BY DEF GenuineNext

LEMMA StepGenuine == TypeInv /\ TypeInv' /\ GenuineInv /\ [Next]_vars => GenuineInv'
<1>. SUFFICES ASSUME TypeInv, TypeInv', GenuineInv, [Next]_vars PROVE GenuineInv'
  OBVIOUS
<1>1. ASSUME NEW x \in Inodes PROVE GenuineNext(body'[x])
  <2>1. GenuineNext(body[x]) /\ body[x] \in Seq(Event)
    BY GenuineStays, SeqsAre DEF GenuineInv
  <2>2. ASSUME NEW p \in Procs, NEW e \in Event, e.by = p, e.n = Len(blocks[p]),
               e = Last(blocks[p]), Write(p)
        PROVE  GenuineNext(Append(body[x], e))
    <3>1. pc'[p] = "idle" /\ blocks'[p] = blocks[p]
      BY <2>2, WriteSteps, SeqsAre
    <3>2. blocks[p] # <<>> /\ blocks[p] \in Seq(Event)
      BY <2>2, SeqsAre DEF TypeInv, PhaseInv, Phase, Write
    <3>3. e.n \in 1..Upto(p)'
      BY <2>2, <3>1, <3>2 DEF Upto
    <3>4. e = blocks'[p][e.n]
      BY <2>2, <3>1 DEF Last
    <3>. QED  BY <2>1, <2>2, <3>3, <3>4, GenuineAppend
  <2>. QED  BY <2>1, <2>2, BodySteps, GenuineEmpty
<1>2. ASSUME NEW p \in Procs PROVE GenuineNext(seen'[p])
  <2>1. GenuineNext(seen[p]) /\ seen[p] \in Seq(Event)
    BY GenuineStays, SeqsAre DEF GenuineInv
  <2>2. ASSUME NEW i \in 0..BackupCount PROVE GenuineNext(At(i)) /\ At(i) \in Seq(Event)
    <3>1. CASE file[i] = 0
      BY <3>1, GenuineEmpty, SeqsAre DEF At
    <3>2. CASE file[i] # 0
      <4>1. file[i] \in Inodes /\ At(i) = body[file[i]]
        BY <3>2, SeqsAre DEF At
      <4>. QED  BY <4>1, GenuineStays, SeqsAre DEF GenuineInv
    <3>. QED  BY <3>1, <3>2
  <2>. QED  BY <2>1, <2>2, SeenSteps, GenuineEmpty, GenuineConcat
<1>3. Inodes' = Inodes
  BY DEF Inodes
<1>. QED  BY <1>1, <1>2, <1>3 DEF GenuineInv, Genuine, GenuineNext

LEMMA InitGenuine == Init => GenuineInv /\ AskingInv
<1>. SUFFICES ASSUME Init PROVE GenuineInv /\ AskingInv
  OBVIOUS
<1>1. PICK old \in BOOLEAN :
        body = [i \in Inodes |-> IF old /\ i <= BackupCount + 1 THEN OldFile(i - 1) ELSE <<>>]
  BY DEF Init
<1>2. ASSUME NEW x \in Inodes PROVE Genuine(body[x])
  <2>1. CASE body[x] = <<>>
    BY <2>1 DEF Genuine
  <2>2. ASSUME NEW i \in 0..BackupCount, body[x] = OldFile(i) PROVE Genuine(body[x])
    BY <2>2, OldFileAt, MetricsAssumption DEF Genuine
  <2>3. x <= BackupCount + 1 => x - 1 \in 0..BackupCount
    BY MetricsAssumption DEF Inodes
  <2>. QED  BY <1>1, <2>1, <2>2, <2>3
<1>3. ASSUME NEW p \in Procs PROVE Genuine(seen[p])
  BY DEF Init, Genuine
<1>4. AskingInv
  BY DEF Init, AskingInv, Reading
<1>. QED  BY <1>2, <1>3, <1>4 DEF GenuineInv

LEMMA StepAsking == TypeInv /\ AskingInv /\ [Next]_vars => AskingInv'
<1>. SUFFICES ASSUME TypeInv, AskingInv, [Next]_vars PROVE AskingInv'
  OBVIOUS
<1>. DEFINE Asking == {"load"} \cup Reading
<1>0. pc \in [Procs -> Phases] /\ blocks \in [Procs -> Seq(Event)]
  BY SeqsAre
<1>1. CASE UNCHANGED vars
  BY <1>1 DEF vars, AskingInv, Key
<1>2. ASSUME NEW p \in Procs, NEW key \in Keys \cup {NoKey, Ok}, NEW fix \in BOOLEAN, Block(p, key, fix)
      PROVE  AskingInv'
  <2>. DEFINE e == [by |-> p, n |-> Len(blocks[p]) + 1, ts |-> now', key |-> key, fix |-> fix]
  <2>1. /\ blocks' = [blocks EXCEPT ![p] = Append(blocks[p], e)]
        /\ pc' = [pc EXCEPT ![p] = IF key \in Keys \ NoPastFix THEN "load" ELSE "exists"]
    BY <1>2 DEF Block, Go
  <2>2. e \in Event /\ e.key = key
    <3>1. Len(blocks[p]) + 1 \in Nat
      BY SeqsAre
    <3>2. now' \in Nat
      BY <1>2, ClockTypes DEF TypeInv, Next
    <3>. QED  BY <3>1, <3>2 DEF Event
  <2>3. Last(blocks'[p]) = e
    <3>1. blocks'[p] = Append(blocks[p], e)
      BY <1>0, <2>1
    <3>. HIDE DEF e
    <3>. QED  BY <1>0, <2>2, <3>1, AppendAt DEF Last
  <2>. HIDE DEF e
  <2>4. pc'[p] \in Asking => Key(p)' \in Keys
    BY <1>0, <2>1, <2>2, <2>3 DEF Key, Reading
  <2>5. \A q \in Procs \ {p} : pc'[q] = pc[q] /\ Key(q)' = Key(q)
    BY <1>0, <2>1 DEF Key
  <2>. QED  BY <2>4, <2>5 DEF AskingInv
<1>3. ASSUME NEW p \in Procs, blocks' = blocks, pc' = [pc EXCEPT ![p] = pc'[p]],
             pc'[p] \in Asking => pc[p] \in Asking
      PROVE  AskingInv'
  BY <1>0, <1>3 DEF AskingInv, Key
<1>4. ASSUME NEW p \in Procs, Load(p) \/ List(p) \/ Read(p) \/ Index(p)
      PROVE  blocks' = blocks /\ pc' = [pc EXCEPT ![p] = pc'[p]] /\ pc[p] \in Asking
  BY <1>4, StaySteps DEF Load, List, Read, Index, Reading
<1>5. ASSUME NEW p \in Procs, Exists(p) \/ Oldest(p) \/ Look(p)
      PROVE  blocks' = blocks /\ pc' = [pc EXCEPT ![p] = pc'[p]] /\ pc'[p] \notin Asking
  <2>1. ASSUME NEW from, NEW to, Asks(p, from, to)
        PROVE  blocks' = blocks /\ pc' = [pc EXCEPT ![p] = to] /\ pc'[p] = to
    BY <1>0, <2>1 DEF Asks, Go
  <2>. QED  BY <1>5, <2>1 DEF Exists, Oldest, Look, NextBackup, Reading
<1>6. ASSUME NEW p \in Procs, Stat(p) \/ Unlink(p) \/ Move(p) \/ MoveCurrent(p)
      PROVE  blocks' = blocks /\ pc' = [pc EXCEPT ![p] = pc'[p]] /\ pc'[p] \notin Asking
  BY <1>6, RotationSteps DEF Reading
<1>7. ASSUME NEW p \in Procs, Open(p) \/ Write(p)
      PROVE  blocks' = blocks /\ pc' = [pc EXCEPT ![p] = pc'[p]] /\ pc'[p] \notin Asking
  BY <1>0, <1>7 DEF Open, Write, Go, Reading
<1>. QED  BY <1>1, <1>2, <1>3, <1>4, <1>5, <1>6, <1>7 DEF Next

(* Without a rotation on the way nothing is missed: what the log has of a  *)
(* process goes on to its last recorded event, and so does what a reader   *)
(* has read together with what is left for it to read.                     *)
Has(s, q, n) == \E i \in 1..Len(s) : s[i].by = q /\ s[i].n = n
Held(top, q, n) == \E i \in 0..BackupCount : i <= top /\ Has(Log[i], q, n)
Left(p) == BackupCount + 1 - at[p]
ToCome(p, q, n) == Has(seen[p], q, n) \/ Held(Left(p), q, n)
Gapless(s) ==
  \A i, j \in 1..Len(s) : \A q \in Procs :
    s[i].by = q /\ s[j].by = q /\ s[i].n < s[j].n => Has(s, q, s[i].n + 1)

LogGapless ==
  \A q \in Procs, n \in Nat :
    Held(BackupCount, q, n) /\ n < Upto(q) => Held(BackupCount, q, n + 1)
ReadGapless(p) ==
  /\ pc[p] = "read" =>
       \A q \in Procs, n \in Nat : ToCome(p, q, n) /\ n < Upto(q) => ToCome(p, q, n + 1)
  /\ pc[p] = "index" => Gapless(seen[p])
Found(p) ==
  /\ pc[p] \in {"list", "read"} => file[0] # 0
  /\ pc[p] = "list" => \A j \in 0..BackupCount : j > Left(p) /\ file[j] # 0 => j \in found[p]
  /\ pc[p] = "read" => \A j \in 0..BackupCount : file[j] # 0 => j \in found[p]
CompleteInv == LogGapless /\ \A p \in Procs : ReadGapless(p) /\ Found(p)
ReadingInv == ~racing => CompleteInv

(* A step that leaves the files as they are.                               *)
LEMMA CompleteStays ==
  ASSUME CompleteInv, NEW p \in Procs, UNCHANGED <<file, body>>,
         \A q \in Procs : Upto(q)' = Upto(q),
         \A q \in Procs \ {p} : /\ pc'[q] = pc[q] /\ at'[q] = at[q]
                                /\ seen'[q] = seen[q] /\ found'[q] = found[q],
         ReadGapless(p)', Found(p)'
  PROVE  CompleteInv'
<1>1. Log' = Log
  BY DEF Log, At
<1>2. LogGapless'
  BY <1>1 DEF CompleteInv, LogGapless, Held
<1>3. ASSUME NEW q \in Procs, q # p PROVE ReadGapless(q)' /\ Found(q)'
  <2>1. ReadGapless(q) /\ Found(q) /\ Left(q)' = Left(q)
    BY <1>3 DEF CompleteInv, Left
  <2>2. \A r \in Procs, n \in Nat : ToCome(q, r, n)' <=> ToCome(q, r, n)
    BY <1>1, <1>3, <2>1 DEF ToCome, Held
  <2>3. ReadGapless(q)'
    <3>1. \A r \in Procs, n \in Nat : n + 1 \in Nat
      OBVIOUS
    <3>. QED  BY <1>3, <2>1, <2>2, <3>1 DEF ReadGapless
  <2>4. Found(q)'
    BY <1>3, <2>1 DEF Found
  <2>. QED  BY <2>3, <2>4
<1>. QED  BY <1>2, <1>3 DEF CompleteInv

LEMMA UptoStays ==
  ASSUME TypeInv, NEW p \in Procs, NEW q \in Procs,
         \/ \E key \in Keys \cup {NoKey, Ok}, fix \in BOOLEAN : Block(p, key, fix)
         \/ /\ blocks' = blocks /\ pc[p] # "idle" /\ pc'[p] # "idle"
            /\ pc' = [pc EXCEPT ![p] = pc'[p]]
  PROVE  Upto(q)' = Upto(q)
<1>0. /\ pc \in [Procs -> Phases] /\ blocks \in [Procs -> Seq(Event)]
      /\ Len(blocks[q]) \in Nat
  BY SeqsAre
<1>1. ASSUME NEW key \in Keys \cup {NoKey, Ok}, NEW fix \in BOOLEAN, Block(p, key, fix)
      PROVE  Upto(q)' = Upto(q)
  <2>. DEFINE e == [by |-> p, n |-> Len(blocks[p]) + 1, ts |-> now', key |-> key, fix |-> fix]
  <2>1. /\ blocks' = [blocks EXCEPT ![p] = Append(blocks[p], e)] /\ pc[p] = "idle"
        /\ pc'[p] # "idle" /\ \A r \in Procs \ {p} : pc'[r] = pc[r]
    BY <1>0, <1>1 DEF Block, Go
  <2>2. e \in Event
    <3>1. Len(blocks[p]) + 1 \in Nat
      BY SeqsAre
    <3>2. now' \in Nat
      BY <1>1, ClockTypes DEF TypeInv, Next
    <3>. QED  BY <3>1, <3>2 DEF Event
  <2>. HIDE DEF e
  <2>3. CASE q = p
    <3>1. blocks'[q] = Append(blocks[q], e)
      BY <1>0, <2>1, <2>3
    <3>2. Len(blocks'[q]) = Len(blocks[q]) + 1
      BY <1>0, <2>2, <3>1, AppendAt
    <3>. QED  BY <1>0, <2>1, <2>3, <3>2 DEF Upto
  <2>4. CASE q # p
    <3>1. blocks'[q] = blocks[q] /\ pc'[q] = pc[q]
      BY <1>0, <2>1, <2>4
    <3>. QED  BY <3>1 DEF Upto
  <2>. QED  BY <2>3, <2>4
<1>2. CASE /\ blocks' = blocks /\ pc[p] # "idle" /\ pc'[p] # "idle"
           /\ pc' = [pc EXCEPT ![p] = pc'[p]]
  <2>1. pc[q] = "idle" <=> pc'[q] = "idle"
    BY <1>0, <1>2
  <2>. QED  BY <1>2, <2>1 DEF Upto
<1>. QED  BY <1>1, <1>2

LEMMA AsideCompletes ==
  ASSUME TypeInv, CompleteInv,
         NEW p \in Procs, ~racing',
         \/ \E key \in Keys \cup {NoKey, Ok}, fix \in BOOLEAN : Block(p, key, fix)
         \/ Load(p) \/ Index(p) \/ Exists(p) \/ Oldest(p) \/ Look(p) \/ Stat(p)
  PROVE  CompleteInv'
<1>0. /\ pc \in [Procs -> Phases] /\ at \in [Procs -> 0..BackupCount + 1]
      /\ BackupCount \in Nat /\ seen \in [Procs -> Seq(Event)]
      /\ found \in [Procs -> SUBSET (0..BackupCount)]
  BY Places, SeqsAre DEF TypeInv, LogTypeOK
<1>1. /\ UNCHANGED <<file, body>> /\ pc' = [pc EXCEPT ![p] = pc'[p]]
      /\ \A q \in Procs \ {p} : at'[q] = at[q] /\ seen'[q] = seen[q] /\ found'[q] = found[q]
      /\ \/ \E key \in Keys \cup {NoKey, Ok}, fix \in BOOLEAN : Block(p, key, fix)
         \/ blocks' = blocks /\ pc[p] # "idle" /\ pc'[p] # "idle"
      /\ pc'[p] \notin {"read", "index"}
      /\ pc'[p] = "list" => at'[p] = 1 /\ file[0] # 0
  <2>1. ASSUME NEW key, NEW fix, Block(p, key, fix)
        PROVE  /\ UNCHANGED <<file, body, at, seen, found>>
               /\ pc' = [pc EXCEPT ![p] = pc'[p]] /\ pc'[p] \in {"load", "exists"}
    BY <1>0, <2>1 DEF Block, Go
  <2>2. ASSUME Load(p)
        PROVE  /\ UNCHANGED <<file, body, seen, found, blocks>> /\ pc[p] = "load"
               /\ pc' = [pc EXCEPT ![p] = pc'[p]]
               /\ \/ pc'[p] = "exists" /\ at' = at
                  \/ pc'[p] = "list" /\ at' = [at EXCEPT ![p] = 1] /\ file[0] # 0
    <3>1. CASE Sig \in {None, sig[p]}
      BY <1>0, <2>2, <3>1 DEF Load, Go
    <3>2. CASE Sig \notin {None, sig[p]}
      BY <1>0, <2>2, <3>2 DEF Load, Go, Sig
    <3>. QED  BY <3>1, <3>2
  <2>3. ASSUME Index(p)
        PROVE  /\ UNCHANGED <<file, body, at, blocks>> /\ pc[p] = "index"
               /\ pc' = [pc EXCEPT ![p] = "exists"]
               /\ seen' = [seen EXCEPT ![p] = <<>>] /\ found' = [found EXCEPT ![p] = {}]
    BY <2>3 DEF Index, Go
  <2>4. ASSUME Exists(p) \/ Oldest(p) \/ Look(p)
        PROVE  /\ UNCHANGED <<file, body, seen, found, blocks>>
               /\ pc[p] \in {"exists", "oldest", "look"}
               /\ pc' = [pc EXCEPT ![p] = pc'[p]]
               /\ pc'[p] \in {"open", "stat", "unlink", "look", "last", "move"}
               /\ at' = [at EXCEPT ![p] = at'[p]]
    <3>1. ASSUME NEW from, NEW to, Asks(p, from, to)
          PROVE  /\ UNCHANGED <<file, body, seen, found, blocks>>
                 /\ pc[p] = from /\ pc' = [pc EXCEPT ![p] = to] /\ pc'[p] = to
      BY <1>0, <3>1 DEF Asks, Go, index
    <3>2. at' = [at EXCEPT ![p] = at'[p]]
      BY <1>0, <2>4 DEF Exists, Oldest, Look
    <3>. QED  BY <2>4, <3>1, <3>2 DEF Exists, Oldest, Look, NextBackup
  <2>5. ASSUME Stat(p)
        PROVE  /\ UNCHANGED <<file, body, at, seen, found, blocks>> /\ pc[p] = "stat"
               /\ pc' = [pc EXCEPT ![p] = pc'[p]] /\ pc'[p] \in {"open", "oldest"}
    BY <1>0, <2>5 DEF Stat, GivesUp, Go, index
  <2>6. CASE \E key \in Keys \cup {NoKey, Ok}, fix \in BOOLEAN : Block(p, key, fix)
    BY <1>0, <2>1, <2>6
  <2>7. CASE Load(p)
    BY <1>0, <2>2, <2>7
  <2>8. CASE Index(p)
    BY <1>0, <2>3, <2>8
  <2>9. CASE Exists(p) \/ Oldest(p) \/ Look(p)
    BY <1>0, <2>4, <2>9
  <2>10. CASE Stat(p)
    BY <1>0, <2>5, <2>10
  <2>. QED  BY <2>6, <2>7, <2>8, <2>9, <2>10
<1>2. \A q \in Procs : Upto(q)' = Upto(q)
  BY <1>1, UptoStays
<1>3. ReadGapless(p)'
  BY <1>1 DEF ReadGapless
<1>4. Found(p)'
  BY <1>0, <1>1 DEF Found, Left
<1>5. \A q \in Procs \ {p} : pc'[q] = pc[q]
  BY <1>0, <1>1
<1>. QED  BY <1>1, <1>2, <1>3, <1>4, <1>5, CompleteStays

LEMMA ListCompletes ==
  ASSUME TypeInv, CompleteInv, NEW p \in Procs, List(p)
  PROVE  CompleteInv'
<1>. DEFINE c == BackupCount + 1 - at[p]
<1>0. /\ pc \in [Procs -> Phases] /\ at \in [Procs -> 0..BackupCount + 1]
      /\ BackupCount \in Nat /\ seen \in [Procs -> Seq(Event)]
      /\ found \in [Procs -> SUBSET (0..BackupCount)] /\ Phase(p)
  BY Places, SeqsAre DEF TypeInv, LogTypeOK
<1>1. /\ pc[p] = "list" /\ at[p] \in 1..BackupCount + 1 /\ seen[p] = <<>>
      /\ c \in 0..BackupCount /\ Chronological[at[p]] = c
  BY <1>0 DEF List, Phase, Chronological
<1>2. /\ UNCHANGED <<file, body, seen, blocks>>
      /\ found' = [found EXCEPT ![p] = found'[p]]
      /\ found[p] \subseteq found'[p] /\ (file[c] # 0 => c \in found'[p])
      /\ pc' = [pc EXCEPT ![p] = pc'[p]] /\ at' = [at EXCEPT ![p] = at'[p]]
      /\ \/ at[p] <= BackupCount /\ pc'[p] = "list" /\ at'[p] = at[p] + 1
         \/ at[p] = BackupCount + 1 /\ pc'[p] = "read" /\ at'[p] = 1
  <2>1. /\ UNCHANGED <<file, body, seen, blocks>>
        /\ found' = [found EXCEPT ![p] = IF file[c] = 0 THEN @ ELSE @ \cup {c}]
    BY <1>1 DEF List
  <2>2. CASE at[p] <= BackupCount
    BY <1>0, <1>1, <2>1, <2>2 DEF List
  <2>3. CASE ~(at[p] <= BackupCount)
    BY <1>0, <1>1, <2>1, <2>3 DEF List, Go
  <2>. QED  BY <2>2, <2>3
<1>3. Found(p) /\ Left(p) = c /\ LogGapless
  BY DEF CompleteInv, Left
<1>4. Found(p)'
  <2>1. CASE pc'[p] = "list"
    <3>1. at'[p] = at[p] + 1
      BY <1>2, <2>1
    <3>2. Left(p)' = c - 1
      BY <1>0, <3>1 DEF Left
    <3>. QED  BY <1>0, <1>1, <1>2, <1>3, <2>1, <3>2 DEF Found
  <2>2. CASE pc'[p] = "read"
    <3>1. c = 0
      BY <1>0, <1>2, <2>2
    <3>2. \A j \in 0..BackupCount : j = 0 \/ j > c
      BY <3>1
    <3>. QED  BY <1>1, <1>2, <1>3, <2>2, <3>1, <3>2 DEF Found
  <2>. QED  BY <1>2, <2>1, <2>2
<1>5. ReadGapless(p)'
  <2>1. ASSUME pc'[p] = "read"
        PROVE  \A q \in Procs, n \in Nat : ToCome(p, q, n)' <=> Held(BackupCount, q, n)
    <3>1. Left(p)' = BackupCount
      BY <1>0, <1>2, <2>1 DEF Left
    <3>2. \A q \in Procs, n \in Nat : ~Has(seen'[p], q, n)
      BY <1>1, <1>2 DEF Has
    <3>3. Log' = Log
      BY <1>2 DEF Log, At
    <3>. QED  BY <3>1, <3>2, <3>3 DEF ToCome, Held
  <2>2. \A q \in Procs : Upto(q)' = Upto(q)
    BY <1>1, <1>2, UptoStays
  <2>3. \A n \in Nat : n + 1 \in Nat
    OBVIOUS
  <2>. QED  BY <1>2, <1>3, <2>1, <2>2, <2>3 DEF ReadGapless, LogGapless
<1>6. \A q \in Procs : Upto(q)' = Upto(q)
  BY <1>1, <1>2, UptoStays
<1>7. \A q \in Procs \ {p} : /\ pc'[q] = pc[q] /\ at'[q] = at[q]
                             /\ seen'[q] = seen[q] /\ found'[q] = found[q]
  BY <1>0, <1>2
<1>. QED  BY <1>2, <1>4, <1>5, <1>6, <1>7, CompleteStays

LEMMA HasConcat ==
  ASSUME NEW s \in Seq(Event), NEW t \in Seq(Event), NEW q, NEW n
  PROVE  Has(s \o t, q, n) <=> Has(s, q, n) \/ Has(t, q, n)
<1>1. ASSUME NEW i \in 1..Len(s) PROVE i \in 1..Len(s \o t) /\ (s \o t)[i] = s[i]
  OBVIOUS
<1>2. ASSUME NEW i \in 1..Len(t)
      PROVE  Len(s) + i \in 1..Len(s \o t) /\ (s \o t)[Len(s) + i] = t[i]
  OBVIOUS
<1>3. Has(s, q, n) \/ Has(t, q, n) => Has(s \o t, q, n)
  BY <1>1, <1>2 DEF Has
<1>4. ASSUME NEW i \in 1..Len(s \o t), (s \o t)[i].by = q, (s \o t)[i].n = n
      PROVE  Has(s, q, n) \/ Has(t, q, n)
  BY <1>4, ConcatAt DEF Has
<1>. QED  BY <1>3, <1>4 DEF Has

LEMMA ReadCompletes ==
  ASSUME TypeInv, TypeInv', CompleteInv, GenuineInv', NEW p \in Procs, Read(p)
  PROVE  CompleteInv'
<1>. DEFINE c == BackupCount + 1 - at[p]
<1>0. /\ pc \in [Procs -> Phases] /\ at \in [Procs -> 0..BackupCount + 1]
      /\ BackupCount \in Nat /\ seen \in [Procs -> Seq(Event)]
      /\ found \in [Procs -> SUBSET (0..BackupCount)] /\ Phase(p)
  BY Places, SeqsAre DEF TypeInv, LogTypeOK
<1>1. /\ pc[p] = "read" /\ at[p] \in 1..BackupCount + 1
      /\ c \in 0..BackupCount /\ Chronological[at[p]] = c
  BY <1>0 DEF Read, Phase, Chronological
<1>2. /\ UNCHANGED <<file, body, found, blocks>>
      /\ seen' = [seen EXCEPT ![p] = IF c \in found[p] THEN @ \o At(c) ELSE @]
      /\ pc' = [pc EXCEPT ![p] = pc'[p]] /\ at' = [at EXCEPT ![p] = at'[p]]
      /\ \/ at[p] <= BackupCount /\ pc'[p] = "read" /\ at'[p] = at[p] + 1
         \/ at[p] = BackupCount + 1 /\ pc'[p] = "index" /\ at'[p] = 0
  <2>1. /\ UNCHANGED <<file, body, found, blocks>>
        /\ seen' = [seen EXCEPT ![p] = IF c \in found[p] THEN @ \o At(c) ELSE @]
    BY <1>1 DEF Read
  <2>2. CASE at[p] <= BackupCount
    BY <1>0, <1>1, <2>1, <2>2 DEF Read
  <2>3. CASE ~(at[p] <= BackupCount)
    <3>1. /\ pc' = [pc EXCEPT ![p] = "index"] /\ at' = [at EXCEPT ![p] = 0]
          /\ at[p] = BackupCount + 1
      BY <1>0, <1>1, <2>3 DEF Read, Go
    <3>. QED  BY <1>0, <2>1, <3>1
  <2>. QED  BY <2>2, <2>3
<1>3. Found(p) /\ ReadGapless(p) /\ Left(p) = c
  BY DEF CompleteInv, Left
<1>4. Log' = Log /\ \A q \in Procs : Upto(q)' = Upto(q)
  <2>1. Log' = Log
    BY <1>2 DEF Log, At
  <2>. QED  BY <1>1, <1>2, <2>1, UptoStays
<1>5. \A q \in Procs, n \in Nat :
        ToCome(p, q, n) <=> Has(seen'[p], q, n) \/ Held(c - 1, q, n)
  <2>. SUFFICES ASSUME NEW q \in Procs, NEW n \in Nat
                PROVE  ToCome(p, q, n) <=> Has(seen'[p], q, n) \/ Held(c - 1, q, n)
    OBVIOUS
  <2>1. Held(c, q, n) <=> Has(Log[c], q, n) \/ Held(c - 1, q, n)
    <3>1. \A i \in 0..BackupCount : i <= c <=> i = c \/ i <= c - 1
      BY <1>0, <1>1
    <3>. HIDE DEF c
    <3>. QED  BY <1>1, <3>1 DEF Held
  <2>2. Has(seen'[p], q, n) <=> Has(seen[p], q, n) \/ Has(Log[c], q, n)
    <3>1. seen[p] \in Seq(Event) /\ At(c) \in Seq(Event) /\ Log[c] = At(c)
      BY <1>1, SeqsAre
    <3>2. CASE c \in found[p]
      <4>1. seen'[p] = seen[p] \o At(c)
        BY <1>0, <1>2, <3>2
      <4>. QED  BY <3>1, <4>1, HasConcat
    <3>3. CASE c \notin found[p]
      <4>1. file[c] = 0 /\ seen'[p] = seen[p]
        BY <1>0, <1>1, <1>2, <1>3, <3>3 DEF Found
      <4>2. Log[c] = <<>>
        BY <3>1, <4>1 DEF At
      <4>3. ~Has(Log[c], q, n)
        BY <4>2 DEF Has
      <4>. QED  BY <4>1, <4>3
    <3>. QED  BY <3>2, <3>3
  <2>. QED  BY <1>3, <2>1, <2>2 DEF ToCome
<1>. HIDE DEF c
<1>6. ReadGapless(p)'
  <2>1. CASE pc'[p] = "read"
    <3>1. Left(p)' = c - 1
      BY <1>0, <1>2, <2>1 DEF Left, c
    <3>2. \A q \in Procs, n \in Nat : ToCome(p, q, n)' <=> ToCome(p, q, n)
      BY <1>4, <1>5, <3>1 DEF ToCome, Held
    <3>3. \A n \in Nat : n + 1 \in Nat
      OBVIOUS
    <3>. QED  BY <1>1, <1>3, <1>4, <2>1, <3>2, <3>3 DEF ReadGapless
  <2>2. CASE pc'[p] = "index"
    <3>1. c - 1 < 0
      BY <1>0, <1>2, <2>2 DEF c
    <3>2. \A q \in Procs, n \in Nat : ~Held(c - 1, q, n)
      <4>1. \A i \in 0..BackupCount : ~(i <= c - 1)
        BY <1>1, <3>1
      <4>. QED  BY <4>1 DEF Held
    <3>3. ASSUME NEW i \in 1..Len(seen'[p]), NEW j \in 1..Len(seen'[p]), NEW q \in Procs,
                 seen'[p][i].by = q, seen'[p][j].by = q, seen'[p][i].n < seen'[p][j].n
          PROVE  Has(seen'[p], q, seen'[p][i].n + 1)
      <4>1. seen'[p] \in Seq(Event)
        BY DEF TypeInv, LogTypeOK
      <4>2. seen'[p][i] \in Event /\ seen'[p][j] \in Event
        BY <4>1
      <4>3. seen'[p][i].n \in Nat /\ seen'[p][j].n \in Nat
        BY <4>2 DEF Event
      <4>4. seen'[p][j].n <= Upto(q)'
        <5>1. Genuine(seen[p])'
          BY DEF GenuineInv
        <5>. QED  BY <3>3, <5>1 DEF Genuine
      <4>5. Upto(q)' = Upto(q) /\ Upto(q) \in Int
        BY <1>4, SeqsAre
      <4>6. seen'[p][i].n < Upto(q)
        BY <3>3, <4>3, <4>4, <4>5
      <4>7. ToCome(p, q, seen'[p][i].n)
        BY <1>5, <3>3, <4>3 DEF Has
      <4>8. ToCome(p, q, seen'[p][i].n + 1)
        BY <1>1, <1>3, <4>3, <4>6, <4>7 DEF ReadGapless
      <4>. QED  BY <1>5, <3>2, <4>3, <4>8
    <3>. QED  BY <2>2, <3>3 DEF ReadGapless, Gapless
  <2>. QED  BY <1>2, <2>1, <2>2
<1>7. Found(p)'
  BY <1>1, <1>2, <1>3 DEF Found
<1>8. \A q \in Procs \ {p} : /\ pc'[q] = pc[q] /\ at'[q] = at[q]
                             /\ seen'[q] = seen[q] /\ found'[q] = found[q]
  BY <1>0, <1>2
<1>. QED  BY <1>2, <1>4, <1>6, <1>7, <1>8, CompleteStays

(* A rotation step that meets no other process.                            *)
Alone(p) ==
  /\ ~racing /\ UNCHANGED <<body, blocks>>
  /\ \A q \in Procs : pc'[q] \notin Reading
  /\ \A q \in Procs : Upto(q)' = Upto(q)

LEMMA MovesAlone ==
  ASSUME TypeInv, RotationInv, NEW p \in Procs, ~racing', Move(p) \/ MoveCurrent(p)
  PROVE  Alone(p) /\ \E a \in 0..BackupCount - 1 : file' = Renamed(a) /\ file[a + 1] = 0
<1>. DEFINE a == at[p]
<1>0. /\ BackupCount \in Nat /\ BackupCount # 0 /\ pc \in [Procs -> Phases] /\ Phase(p)
  BY Places
<1>1. /\ a \in 0..BackupCount - 1 /\ Moved(p, Renamed(a)) /\ pc[p] \in Vacates
      /\ UNCHANGED <<body, blocks>> /\ pc[p] # "idle"
      /\ pc' = [pc EXCEPT ![p] = pc'[p]] /\ pc'[p] \in {"look", "last", "open"}
  <2>1. CASE Move(p)
    <3>1. a \in 1..BackupCount - 1
      BY <1>0, <2>1 DEF Move, Phase
    <3>2. /\ Moved(p, Renamed(a)) /\ pc[p] = "move" /\ UNCHANGED <<body, blocks>>
          /\ pc' = [pc EXCEPT ![p] = NextBackup(p)]
      BY <2>1 DEF Move, GivesUp, Go
    <3>. QED  BY <1>0, <3>1, <3>2 DEF NextBackup, Vacates
  <2>2. CASE MoveCurrent(p)
    <3>1. /\ Moved(p, Renamed(0)) /\ pc[p] = "last" /\ UNCHANGED <<body, blocks>>
          /\ pc' = [pc EXCEPT ![p] = "open"]
      BY <2>2 DEF MoveCurrent, GivesUp, Go
    <3>2. a = 0
      BY <3>1 DEF RotationInv, LastAtCurrent
    <3>. QED  BY <1>0, <3>1, <3>2 DEF Vacates
  <2>. QED  BY <2>1, <2>2
<1>2. /\ file' = Renamed(a) /\ ~racing
      /\ \A q \in Procs \ {p} : pc[q] \notin Reading
  BY <1>1, MovedAlone
<1>3. file[a + 1] = 0
  BY <1>1, <1>2 DEF RotationInv, FullInv
<1>4. \A q \in Procs : pc'[q] \notin Reading
  BY <1>0, <1>1, <1>2 DEF Reading
<1>5. \A q \in Procs : Upto(q)' = Upto(q)
  BY <1>1, UptoStays
<1>. QED  BY <1>1, <1>2, <1>3, <1>4, <1>5 DEF Alone

LEMMA UnlinksAlone ==
  ASSUME TypeInv, NEW p \in Procs, ~racing', Unlink(p)
  PROVE  Alone(p) /\ file' = [file EXCEPT ![BackupCount] = 0]
<1>. DEFINE to == [file EXCEPT ![BackupCount] = 0]
<1>0. pc \in [Procs -> Phases]
  BY Places
<1>1. /\ Moved(p, to) /\ pc[p] = "unlink" /\ UNCHANGED <<body, blocks>>
      /\ pc' = [pc EXCEPT ![p] = IF BackupCount > 1 THEN "look" ELSE "last"]
  BY DEF Unlink, GivesUp, Go
<1>. HIDE DEF to
<1>2. /\ file' = to /\ ~racing /\ \A q \in Procs \ {p} : pc[q] \notin Reading
  BY <1>1, MovedAlone
<1>3. /\ pc'[p] \in {"look", "last"} /\ pc' = [pc EXCEPT ![p] = pc'[p]]
  BY <1>0, <1>1
<1>4. \A q \in Procs : pc'[q] \notin Reading
  BY <1>0, <1>2, <1>3 DEF Reading
<1>5. \A q \in Procs : Upto(q)' = Upto(q)
  BY <1>1, <1>3, UptoStays
<1>. QED  BY <1>1, <1>2, <1>4, <1>5 DEF Alone, to

LEMMA RotationCompletes ==
  ASSUME TypeInv, RotationInv, OrderInv, CompleteInv,
         NEW p \in Procs, ~racing',
         Unlink(p) \/ Move(p) \/ MoveCurrent(p)
  PROVE  CompleteInv'
<1>0. /\ BackupCount \in Nat /\ BackupCount # 0
      /\ file \in [0..BackupCount -> Inodes \cup {0}]
      /\ \A n \in Nat : n + 1 \in Nat
      /\ \A i \in 0..BackupCount : i <= BackupCount
  BY Places
<1>1. Alone(p)
  BY MovesAlone, UnlinksAlone
<1>2. \A q \in Procs : ReadGapless(q)' /\ Found(q)'
  BY <1>1 DEF Alone, ReadGapless, Found, Reading
<1>3. /\ \A i \in 0..BackupCount : Log[i] = IF file[i] = 0 THEN <<>> ELSE body[file[i]]
      /\ \A i \in 0..BackupCount : Log'[i] = IF file'[i] = 0 THEN <<>> ELSE body[file'[i]]
  BY <1>1 DEF Log, At, Alone
<1>4. \A q, n : ~Has(<<>>, q, n)
  BY DEF Has
<1>5. ASSUME NEW a \in 0..BackupCount - 1, file' = Renamed(a), file[a + 1] = 0
      PROVE  LogGapless'
  <2>0. a \in 0..BackupCount /\ a + 1 \in 0..BackupCount /\ a # a + 1
    BY <1>0
  <2>1. \A j \in 0..BackupCount :
          file'[j] = IF j = a + 1 THEN file[a] ELSE IF j = a THEN 0 ELSE file[j]
    BY <1>0, <1>5, <2>0 DEF Renamed
  <2>2. /\ Log'[a + 1] = Log[a] /\ Log'[a] = <<>> /\ Log[a + 1] = <<>>
        /\ \A j \in 0..BackupCount : j # a /\ j # a + 1 => Log'[j] = Log[j]
    BY <1>3, <1>5, <2>0, <2>1
  <2>3. \A q \in Procs, n \in Nat :
          Held(BackupCount, q, n)' <=> Held(BackupCount, q, n)
    <3>. SUFFICES ASSUME NEW q \in Procs, NEW n \in Nat
                  PROVE  (\E i \in 0..BackupCount : Has(Log'[i], q, n))
                           <=> (\E i \in 0..BackupCount : Has(Log[i], q, n))
      BY <1>0 DEF Held
    <3>1. ASSUME NEW i \in 0..BackupCount, Has(Log'[i], q, n)
          PROVE  \E j \in 0..BackupCount : Has(Log[j], q, n)
      BY <1>4, <2>0, <2>2, <3>1
    <3>2. ASSUME NEW i \in 0..BackupCount, Has(Log[i], q, n)
          PROVE  \E j \in 0..BackupCount : Has(Log'[j], q, n)
      BY <1>4, <2>0, <2>2, <3>2
    <3>. QED  BY <3>1, <3>2
  <2>. QED  BY <1>0, <1>1, <2>3 DEF CompleteInv, LogGapless, Alone
<1>6. ASSUME file' = [file EXCEPT ![BackupCount] = 0]
      PROVE  LogGapless'
  <2>0. BackupCount \in 0..BackupCount
    BY <1>0
  <2>1. \A j \in 0..BackupCount : Log'[j] = IF j = BackupCount THEN <<>> ELSE Log[j]
    BY <1>0, <1>3, <1>6, <2>0
  <2>2. ASSUME NEW q \in Procs, NEW n \in Nat, NEW i \in 0..BackupCount, Has(Log'[i], q, n),
               n < Upto(q)
        PROVE  \E j \in 0..BackupCount : Has(Log'[j], q, n + 1)
    <3>1. i # BackupCount /\ i < BackupCount /\ Has(Log[i], q, n)
      BY <1>0, <1>4, <2>1, <2>2
    <3>2. PICK j \in 0..BackupCount : Has(Log[j], q, n + 1)
      BY <1>0, <2>2, <3>1 DEF CompleteInv, LogGapless, Held
    <3>3. ~Has(Log[BackupCount], q, n + 1)
      <4>1. Precedes(Log[BackupCount], Log[i])
        BY <2>0, <3>1 DEF OrderInv, FilesInOrder
      <4>2. ~(n + 1 < n)
        OBVIOUS
      <4>. QED  BY <3>1, <4>1, <4>2 DEF Has, Precedes
    <3>. QED  BY <2>1, <3>2, <3>3
  <2>. QED  BY <1>0, <1>1, <2>2 DEF LogGapless, Held, Alone
<1>. QED  BY <1>2, <1>5, <1>6, MovesAlone, UnlinksAlone DEF CompleteInv

LEMMA OpenCompletes ==
  ASSUME TypeInv, CompleteInv, NEW p \in Procs, Open(p)
  PROVE  CompleteInv'
<1>0. /\ BackupCount \in Nat /\ 0 \in 0..BackupCount /\ 0 \notin Inodes
      /\ pc \in [Procs -> Phases] /\ file \in [0..BackupCount -> Inodes \cup {0}]
      /\ body \in [Inodes -> Seq(Event)]
  BY Places DEF TypeInv, LogTypeOK
<1>1. PICK x \in Inodes :
        /\ file' = [file EXCEPT ![0] = x]
        /\ file[0] # 0 => x = file[0] /\ body' = body
        /\ file[0] = 0 => /\ \A j \in 0..BackupCount : x # file[j]
                          /\ body' = [body EXCEPT ![x] = <<>>]
  BY OpenSteps DEF TypeInv
<1>2. /\ pc[p] = "open" /\ UNCHANGED <<at, seen, found, blocks>>
      /\ pc' = [pc EXCEPT ![p] = "write"]
  BY DEF Open, Go, index
<1>3. /\ pc'[p] = "write" /\ pc' = [pc EXCEPT ![p] = pc'[p]]
      /\ \A q \in Procs \ {p} : pc'[q] = pc[q]
  BY <1>0, <1>2
<1>4. \A q \in Procs : Upto(q)' = Upto(q)
  BY <1>2, <1>3, UptoStays
<1>5. CASE file[0] # 0
  <2>1. file' = file /\ body' = body
    BY <1>0, <1>1, <1>5
  <2>2. ReadGapless(p)' /\ Found(p)'
    BY <1>3 DEF ReadGapless, Found
  <2>. QED  BY <1>2, <1>3, <1>4, <2>1, <2>2, CompleteStays
<1>6. CASE file[0] = 0
  <2>1. \A i \in 0..BackupCount : Log'[i] = Log[i]
    <3>1. /\ \A i \in 0..BackupCount : Log[i] = IF file[i] = 0 THEN <<>> ELSE body[file[i]]
          /\ \A i \in 0..BackupCount : Log'[i] = IF file'[i] = 0 THEN <<>> ELSE body'[file'[i]]
      BY DEF Log, At
    <3>2. Log'[0] = <<>> /\ Log[0] = <<>>
      BY <1>0, <1>1, <1>6, <3>1
    <3>3. ASSUME NEW i \in 0..BackupCount, i # 0 PROVE Log'[i] = Log[i]
      <4>1. file'[i] = file[i]
        BY <1>0, <1>1, <3>3
      <4>2. file[i] # 0 => file[i] \in Inodes /\ file[i] # x
        BY <1>0, <1>1, <1>6
      <4>3. file[i] # 0 => body'[file[i]] = body[file[i]]
        BY <1>0, <1>1, <1>6, <4>2
      <4>. QED  BY <3>1, <4>1, <4>3
    <3>. QED  BY <3>2, <3>3
  <2>2. \A q \in Procs : pc'[q] \notin {"list", "read"}
    BY <1>3, <1>6 DEF CompleteInv, Found
  <2>3. \A q \in Procs : ReadGapless(q)' /\ Found(q)'
    BY <1>2, <1>3, <2>2 DEF CompleteInv, ReadGapless, Found
  <2>4. LogGapless'
    BY <1>4, <2>1 DEF CompleteInv, LogGapless, Held
  <2>. QED  BY <2>3, <2>4 DEF CompleteInv
<1>. QED  BY <1>5, <1>6

LEMMA HasAppend ==
  ASSUME NEW s \in Seq(Event), NEW e \in Event, NEW q, NEW n
  PROVE  Has(Append(s, e), q, n) <=> Has(s, q, n) \/ (e.by = q /\ e.n = n)
<1>1. Len(s) \in Nat
  OBVIOUS
<1>2. ASSUME NEW i \in 1..Len(s) + 1, Append(s, e)[i].by = q, Append(s, e)[i].n = n
      PROVE  Has(s, q, n) \/ (e.by = q /\ e.n = n)
  <2>1. CASE i <= Len(s)
    BY <1>1, <1>2, <2>1, AppendAt DEF Has
  <2>2. CASE ~(i <= Len(s))
    BY <1>2, <2>2, AppendAt
  <2>. QED  BY <2>1, <2>2
<1>3. ASSUME NEW i \in 1..Len(s), s[i].by = q, s[i].n = n PROVE Has(Append(s, e), q, n)
  <2>1. i \in 1..Len(s) + 1 /\ i <= Len(s)
    BY <1>1
  <2>2. Append(s, e)[i] = s[i] /\ Len(Append(s, e)) = Len(s) + 1
    BY <2>1, AppendAt
  <2>. QED  BY <1>3, <2>1, <2>2 DEF Has
<1>4. ASSUME e.by = q, e.n = n PROVE Has(Append(s, e), q, n)
  <2>1. Len(s) + 1 \in 1..Len(s) + 1 /\ ~(Len(s) + 1 <= Len(s))
    BY <1>1
  <2>2. Append(s, e)[Len(s) + 1] = e /\ Len(Append(s, e)) = Len(s) + 1
    BY <2>1, AppendAt
  <2>. QED  BY <1>4, <2>1, <2>2 DEF Has
<1>5. Has(Append(s, e), q, n) => Has(s, q, n) \/ (e.by = q /\ e.n = n)
  BY <1>2, AppendAt DEF Has
<1>6. Has(s, q, n) => Has(Append(s, e), q, n)
  BY <1>3 DEF Has
<1>. QED  BY <1>4, <1>5, <1>6

LEMMA WriteCompletes ==
  ASSUME TypeInv, CompleteInv, NEW p \in Procs, ~racing', Write(p)
  PROVE  CompleteInv'
<1>0. /\ BackupCount \in Nat /\ 0 \in 0..BackupCount /\ 0 \notin Inodes
      /\ pc \in [Procs -> Phases] /\ file \in [0..BackupCount -> Inodes \cup {0}]
      /\ body \in [Inodes -> Seq(Event)]
      /\ \A i, j \in 0..BackupCount : i # j /\ file[i] # 0 => file[i] # file[j]
  BY Places DEF TypeInv, LogTypeOK
<1>1. PICK e \in Event :
        /\ e.by = p /\ e.n = Len(blocks[p]) /\ handle[p] \in Inodes /\ pc[p] = "write"
        /\ body' = [body EXCEPT ![handle[p]] = Append(body[handle[p]], e)]
        /\ pc' = [pc EXCEPT ![p] = "idle"]
        /\ UNCHANGED <<file, at, found, seen, blocks>>
  BY WriteSteps
<1>2. handle[p] = file[0]
  BY Zenon DEF Write
<1>3. /\ pc'[p] = "idle" /\ \A q \in Procs \ {p} : pc'[q] = pc[q]
  BY <1>0, <1>1
<1>4. /\ Upto(p)' = Upto(p) + 1 /\ Upto(p) \in Int /\ e.n = Upto(p) + 1
      /\ \A q \in Procs \ {p} : Upto(q)' = Upto(q)
  <2>1. Len(blocks[p]) \in Nat
    BY SeqsAre
  <2>. QED  BY <1>1, <1>3, <2>1 DEF Upto
<1>5. ASSUME NEW q \in Procs, NEW n \in Nat, NEW i \in 0..BackupCount
      PROVE  Has(Log'[i], q, n) <=> Has(Log[i], q, n) \/ (i = 0 /\ q = p /\ n = Upto(p) + 1)
  <2>1. /\ Log[i] = IF file[i] = 0 THEN <<>> ELSE body[file[i]]
        /\ Log'[i] = IF file[i] = 0 THEN <<>> ELSE body'[file[i]]
    BY <1>1 DEF Log, At
  <2>2. CASE i = 0
    <3>1. Log[i] = body[file[0]] /\ Log'[i] = Append(body[file[0]], e)
      BY <1>0, <1>1, <1>2, <2>1, <2>2
    <3>2. body[file[0]] \in Seq(Event)
      BY <1>0, <1>1, <1>2
    <3>. QED  BY <1>1, <1>4, <2>2, <3>1, <3>2, HasAppend
  <2>3. CASE i # 0
    <3>1. file[i] # 0 => file[i] # handle[p] /\ file[i] \in Inodes
      BY <1>0, <1>1, <1>2, <2>3
    <3>2. file[i] # 0 => body'[file[i]] = body[file[i]]
      BY <1>0, <1>1, <3>1
    <3>. QED  BY <2>1, <2>3, <3>2
  <2>. QED  BY <2>2, <2>3
<1>6. ASSUME NEW q \in Procs, NEW n \in Nat, NEW top \in Nat
      PROVE  Held(top, q, n)' <=> Held(top, q, n) \/ (q = p /\ n = Upto(p) + 1)
  <2>1. 0 <= top
    OBVIOUS
  <2>. QED  BY <1>0, <1>5, <2>1 DEF Held
<1>7. LogGapless'
  <2>. SUFFICES ASSUME NEW q \in Procs, NEW n \in Nat, Held(BackupCount, q, n)', n < Upto(q)'
                PROVE  Held(BackupCount, q, n + 1)'
    BY DEF LogGapless
  <2>1. n + 1 \in Nat /\ Upto(q) \in Int
    BY SeqsAre
  <2>2. CASE n < Upto(q)
    <3>1. Held(BackupCount, q, n)
      BY <1>0, <1>4, <1>6, <2>1, <2>2
    <3>2. Held(BackupCount, q, n + 1)
      BY <2>2, <3>1 DEF CompleteInv, LogGapless
    <3>. QED  BY <1>0, <1>6, <2>1, <3>2
  <2>3. CASE ~(n < Upto(q))
    <3>1. q = p /\ n + 1 = Upto(p) + 1
      BY <1>4, <2>1, <2>3
    <3>. QED  BY <1>0, <1>6, <2>1, <3>1
  <2>. QED  BY <2>2, <2>3
<1>8. ASSUME NEW r \in Procs PROVE ReadGapless(r)' /\ Found(r)'
  <2>1. CASE r = p
    BY <1>3, <2>1 DEF ReadGapless, Found
  <2>2. CASE r # p
    <3>1. ReadGapless(r) /\ Found(r) /\ pc'[r] = pc[r]
      BY <1>3, <2>2 DEF CompleteInv
    <3>2. Found(r)'
      BY <1>1, <3>1 DEF Found, Left
    <3>3. ASSUME pc[r] = "read", NEW q \in Procs, NEW n \in Nat,
                 ToCome(r, q, n)', n < Upto(q)'
          PROVE  ToCome(r, q, n + 1)'
      <4>0. Left(r) \in Nat /\ Left(r)' = Left(r)
        <5>1. at[r] \in 1..BackupCount + 1
          BY <3>3, Places DEF Phase
        <5>. QED  BY <1>0, <1>1, <5>1 DEF Left
      <4>1. \A m \in Nat : ToCome(r, q, m)' <=> ToCome(r, q, m) \/ (q = p /\ m = Upto(p) + 1)
        <5>1. \A m \in Nat : Held(Left(r), q, m)' <=> Held(Left(r), q, m)
                                                        \/ (q = p /\ m = Upto(p) + 1)
          <6>. DEFINE top == Left(r)
          <6>1. top \in Nat /\ top' = top
            BY <4>0
          <6>2. \A m \in Nat : (\E i \in 0..BackupCount : i <= top /\ Has(Log'[i], q, m))
                  <=> Held(top, q, m) \/ (q = p /\ m = Upto(p) + 1)
            <7>1. 0 <= top
              BY <6>1
            <7>. HIDE DEF top
            <7>. QED  BY <1>0, <1>5, <7>1 DEF Held
          <6>. QED  BY <6>1, <6>2 DEF Held
        <5>. QED  BY <1>1, <5>1 DEF ToCome
      <4>2. n + 1 \in Nat /\ Upto(q) \in Int
        BY SeqsAre
      <4>3. CASE n < Upto(q)
        <5>1. ToCome(r, q, n)
          BY <1>4, <3>3, <4>1, <4>2, <4>3
        <5>2. ToCome(r, q, n + 1)
          BY <3>1, <3>3, <4>3, <5>1 DEF ReadGapless
        <5>. QED  BY <4>1, <4>2, <5>2
      <4>4. CASE ~(n < Upto(q))
        <5>1. q = p /\ n + 1 = Upto(p) + 1
          BY <1>4, <3>3, <4>2, <4>4
        <5>. QED  BY <4>1, <4>2, <5>1
      <4>. QED  BY <4>3, <4>4
    <3>4. pc[r] = "index" => Gapless(seen[r])'
      BY <1>1, <3>1 DEF ReadGapless
    <3>. QED  BY <3>1, <3>2, <3>3, <3>4 DEF ReadGapless
  <2>. QED  BY <2>1, <2>2
<1>. QED  BY <1>7, <1>8 DEF CompleteInv

LEMMA StepReading ==
  TypeInv /\ TypeInv' /\ RotationInv /\ OrderInv /\ GenuineInv' /\ ReadingInv /\ [Next]_vars
    => ReadingInv'
<1>. SUFFICES ASSUME TypeInv, TypeInv', RotationInv, OrderInv, GenuineInv', ReadingInv,
                     [Next]_vars, ~racing'
              PROVE  CompleteInv'
  BY DEF ReadingInv
<1>1. CASE UNCHANGED vars
  <2>1. CompleteInv
    BY <1>1 DEF vars, ReadingInv
  <2>2. /\ UNCHANGED <<file, body, pc, at, seen, found, blocks>>
        /\ \A q \in Procs : Upto(q)' = Upto(q)
    BY <1>1 DEF vars, Upto
  <2>3. Log' = Log
    BY <2>2 DEF Log, At
  <2>. QED  BY <2>1, <2>2, <2>3
            DEF CompleteInv, LogGapless, ReadGapless, Found, ToCome, Held, Left
<1>2. ASSUME NEW p \in Procs,
             \/ \E key \in Keys \cup {NoKey, Ok}, fix \in BOOLEAN : Block(p, key, fix)
             \/ Load(p) \/ Index(p) \/ Exists(p) \/ Oldest(p) \/ Look(p) \/ Stat(p)
      PROVE  CompleteInv'
  <2>1. ~racing
    <3>1. ASSUME NEW key, NEW fix, Block(p, key, fix) PROVE racing' = racing
      BY <3>1 DEF Block
    <3>2. ASSUME Stat(p) PROVE ~racing
      BY <3>2 DEF Stat, GivesUp
    <3>. QED  BY <1>2, <3>1, <3>2 DEF Load, Index, Exists, Oldest, Look, Asks
  <2>. QED  BY <1>2, <2>1, AsideCompletes DEF ReadingInv
<1>3. ASSUME NEW p \in Procs, List(p) PROVE CompleteInv'
  BY <1>3, ListCompletes DEF ReadingInv, List
<1>4. ASSUME NEW p \in Procs, Read(p) PROVE CompleteInv'
  BY <1>4, ReadCompletes DEF ReadingInv, Read
<1>5. ASSUME NEW p \in Procs, Unlink(p) \/ Move(p) \/ MoveCurrent(p) PROVE CompleteInv'
  <2>1. ~racing
    BY <1>5, MovesAlone, UnlinksAlone DEF Alone
  <2>. QED  BY <1>5, <2>1, RotationCompletes DEF ReadingInv
<1>6. ASSUME NEW p \in Procs, Open(p) PROVE CompleteInv'
  BY <1>6, OpenCompletes DEF ReadingInv, Open
<1>7. ASSUME NEW p \in Procs, Write(p) PROVE CompleteInv'
  <2>1. ~racing
    BY <1>7, Zenon DEF Write
  <2>. QED  BY <1>7, <2>1, WriteCompletes DEF ReadingInv
<1>. QED  BY <1>1, <1>2, <1>3, <1>4, <1>5, <1>6, <1>7 DEF Next

LEMMA InitReading == Init => ReadingInv
<1>. SUFFICES ASSUME Init PROVE CompleteInv
  BY DEF ReadingInv
<1>1. PICK old \in BOOLEAN :
        /\ file = [i \in 0..BackupCount |-> IF old THEN i + 1 ELSE 0]
        /\ body = [i \in Inodes |->
             IF old /\ i <= BackupCount + 1 THEN OldFile(i - 1) ELSE <<>>]
  BY DEF Init
<1>2. \A i \in 0..BackupCount : Log[i] = IF old THEN OldFile(i) ELSE <<>>
  <2>. TAKE i \in 0..BackupCount
  <2>1. i + 1 \in Inodes /\ i + 1 # 0 /\ i + 1 <= BackupCount + 1 /\ (i + 1) - 1 = i
    BY MetricsAssumption, ProcsAreMany DEF Inodes
  <2>. QED  BY <1>1, <2>1 DEF Log, At
<1>3. \A i \in 0..BackupCount, q \in Procs, n \in Nat : ~Has(Log[i], q, n)
  BY <1>2, OldFileAt, MetricsAssumption DEF Has
<1>4. LogGapless
  BY <1>3 DEF LogGapless, Held
<1>5. \A p \in Procs : pc[p] = "idle"
  BY DEF Init
<1>. QED  BY <1>4, <1>5 DEF CompleteInv, ReadGapless, Found
-----------------------------------------------------------------------------
(* A fix that an index has of a key: the block f, which succeeded with a   *)
(* fix line, and before it one of its session that failed that way.        *)
Mended(f, k) ==
  /\ f.by \in Procs /\ f.n \in 1..Len(blocks[f.by]) /\ blocks[f.by][f.n].fix
  /\ \E i \in 1..f.n - 1 : blocks[f.by][i].key = k /\ (racing \/ i = f.n - 1)

MendInv ==
  /\ fixes \in [Procs -> [Keys -> Fix \cup {None}]] /\ hint \in [Procs -> Fix \cup {None}]
  /\ \A p \in Procs, k \in Keys : fixes[p][k] # None => Mended(fixes[p][k], k)
  /\ \A p \in Procs : hint[p] # None => blocks[p] # <<>> /\ Mended(hint[p], Key(p))

(* The blocks of a process are stamped in the order in which they ran.     *)
Aged(q) ==
  \A j \in 1..Len(blocks[q]) :
    blocks[q][j].ts <= now /\ \A i \in 1..j : blocks[q][i].ts <= blocks[q][j].ts
AgedInv == \A q \in Procs : Aged(q)

LEMMA StepAged == TypeInv /\ AgedInv /\ [Next]_vars => AgedInv'
<1>. SUFFICES ASSUME TypeInv, AgedInv, [Next]_vars PROVE AgedInv'
  OBVIOUS
<1>0. now \in Nat /\ blocks \in [Procs -> Seq(Event)]
  BY DEF TypeInv, LogTypeOK
<1>1. ASSUME UNCHANGED <<now, blocks>> PROVE AgedInv'
  BY <1>1 DEF AgedInv, Aged
<1>2. CASE UNCHANGED vars
  BY <1>1, <1>2 DEF vars
<1>3. ASSUME NEW p \in Procs, NEW key \in Keys \cup {NoKey, Ok}, NEW fix \in BOOLEAN,
             Block(p, key, fix)
      PROVE  AgedInv'
  <2>. DEFINE e == [by |-> p, n |-> Len(blocks[p]) + 1, ts |-> now', key |-> key, fix |-> fix]
  <2>1. now' \in Nat /\ now <= now' /\ blocks' = [blocks EXCEPT ![p] = Append(blocks[p], e)]
    BY <1>0, <1>3, MetricsAssumption DEF Block
  <2>2. e \in Event /\ e.ts = now'
    <3>1. Len(blocks[p]) + 1 \in Nat
      BY <1>0
    <3>. QED  BY <2>1, <3>1 DEF Event
  <2>. HIDE DEF e
  <2>3. ASSUME NEW q \in Procs PROVE Aged(q)'
    <3>1. blocks[q] \in Seq(Event) /\ Aged(q)
      BY <1>0 DEF AgedInv
    <3>2. \A j \in 1..Len(blocks[q]) : blocks[q][j] \in Event
      BY <3>1
    <3>3. \A j \in 1..Len(blocks[q]) : blocks[q][j].ts \in Nat
      BY <3>2 DEF Event
    <3>4. CASE q = p
      <4>1. blocks'[q] = Append(blocks[q], e)
        BY <1>0, <2>1, <3>4
      <4>2. /\ Len(blocks'[q]) = Len(blocks[q]) + 1 /\ Len(blocks[q]) \in Nat
            /\ \A j \in 1..Len(blocks[q]) + 1 :
                 blocks'[q][j] = IF j <= Len(blocks[q]) THEN blocks[q][j] ELSE e
        BY <2>2, <3>1, <4>1, AppendAt
      <4>. QED  BY <1>0, <2>1, <2>2, <3>1, <3>3, <4>2 DEF Aged
    <3>5. CASE q # p
      <4>1. blocks'[q] = blocks[q]
        BY <1>0, <2>1, <3>5
      <4>. QED  BY <1>0, <2>1, <3>1, <3>3, <4>1 DEF Aged
    <3>. QED  BY <3>4, <3>5
  <2>. QED  BY <2>3 DEF AgedInv
<1>4. ASSUME NEW p \in Procs,
             \/ Load(p) \/ List(p) \/ Read(p) \/ Index(p)
             \/ Exists(p) \/ Oldest(p) \/ Look(p)
             \/ Stat(p) \/ Unlink(p) \/ Move(p) \/ MoveCurrent(p)
             \/ Open(p) \/ Write(p)
      PROVE  UNCHANGED <<now, blocks>>
  BY <1>4 DEF Load, List, Read, Index, Exists, Oldest, Look, Stat, Unlink, Move,
              MoveCurrent, Open, Write, Asks
<1>. QED  BY <1>1, <1>2, <1>3, <1>4 DEF Next

LEMMA InitAged == Init => AgedInv
BY DEF Init, AgedInv, Aged

(* Of the successes that mend a key in a sequence there is a last one.     *)
LEMMA LastMends ==
  ASSUME NEW s \in Seq(Event), NEW k, NEW from, Mends(s, k, from) # {}
  PROVE  \E j \in Mends(s, k, from) : \A m \in Mends(s, k, from) : m <= j
<1>. DEFINE L == Len(s)
            D == {L - j : j \in Mends(s, k, from)}
<1>1. L \in Nat /\ Mends(s, k, from) \subseteq 1..L
  BY DEF Mends
<1>2. D \subseteq Nat /\ D # {}
  BY <1>1
<1>3. PICK d \in D : \A e \in D : ~(<<e, d>> \in OpToRel(<, Nat))
  BY <1>2, NatLessThanWellFounded, WFMin, Zenon
<1>4. \A e \in D : ~(e < d)
  BY <1>2, <1>3 DEF OpToRel
<1>5. PICK j \in Mends(s, k, from) : d = L - j
  OBVIOUS
<1>6. ASSUME NEW m \in Mends(s, k, from) PROVE m <= j
  <2>1. L - m \in D
    OBVIOUS
  <2>2. ~(L - m < L - j)
    BY <1>4, <1>5, <2>1
  <2>3. m \in Nat /\ j \in Nat
    BY <1>1
  <2>. QED  BY <1>1, <2>2, <2>3
<1>. QED  BY <1>6

LEMMA BuildMends ==
  ASSUME TypeInv, OrderInv, GenuineInv, ReadingInv, AgedInv, NEW p \in Procs, pc[p] = "index",
         NEW k \in Keys, Build(seen[p], since[p])[k] # None
  PROVE  Build(seen[p], since[p])[k] \in Fix /\ Mended(Build(seen[p], since[p])[k], k)
<1>. DEFINE s == seen[p]
            from == since[p]
            j == CHOOSE j \in Mends(s, k, from) : \A m \in Mends(s, k, from) : m <= j
            q == s[j].by
<1>0. /\ s \in Seq(Event) /\ Sorted(s) /\ Genuine(s) /\ (racing \/ Gapless(s))
      /\ from \in Int
  <2>1. racing \/ Gapless(s)
    BY DEF ReadingInv, CompleteInv, ReadGapless
  <2>2. from \in Int
    BY DEF TypeInv, LogTypeOK
  <2>. QED  BY <2>1, <2>2, SeqsAre DEF OrderInv, GenuineInv
<1>. HIDE DEF s, from
<1>1. Mends(s, k, from) # {} /\ Build(s, from)[k] = [by |-> s[j].by, n |-> s[j].n]
  <2>1. Build(s, from)[k] = IF Mends(s, k, from) = {} THEN None ELSE [by |-> s[j].by, n |-> s[j].n]
    BY DEF Build
  <2>. QED  BY <2>1 DEF s, from
<1>2. j \in Mends(s, k, from)
  BY <1>0, <1>1, LastMends
<1>. HIDE DEF j
<1>3. j \in 1..Len(s) /\ s[j].fix /\ Pends(s, j, k, from) /\ Counts(s[j], from)
  BY <1>2 DEF Mends
<1>4. q \in Procs
  <2>1. s[j] \in Event
    BY <1>0, <1>3
  <2>2. s[j].by # None
    BY <1>3 DEF Counts
  <2>. QED  BY <2>1, <2>2 DEF Event
<1>5. PICK i \in 1..j - 1 :
        /\ Counts(s[i], from) /\ s[i].by = q /\ s[i].key = k
        /\ \A m \in i + 1..j - 1 : ~(Counts(s[m], from) /\ s[m].by = q)
  BY <1>3 DEF Pends
<1>. HIDE DEF q
<1>6. i \in 1..Len(s) /\ i < j /\ s[j].by = q
  <2>1. Len(s) \in Nat
    BY <1>0
  <2>. QED  BY <1>3, <2>1 DEF q
<1>7. /\ s[j].n \in 1..Upto(q) /\ s[j] = blocks[q][s[j].n]
      /\ s[i].n \in 1..Upto(q) /\ s[i] = blocks[q][s[i].n]
      /\ s[i].n < s[j].n
  BY <1>0, <1>3, <1>4, <1>5, <1>6 DEF Genuine, Sorted
<1>8. ASSUME ~racing PROVE s[i].n = s[j].n - 1
  <2>1. Has(s, q, s[i].n + 1)
    BY <1>0, <1>3, <1>4, <1>5, <1>6, <1>7, <1>8 DEF Gapless
  <2>2. PICK m \in 1..Len(s) : s[m].by = q /\ s[m].n = s[i].n + 1
    BY <2>1 DEF Has
  <2>3. m > i
    <3>1. m # i
      BY <1>7, <2>2
    <3>2. ~(m < i)
      BY <1>0, <1>5, <1>6, <1>7, <2>2 DEF Sorted
    <3>. QED  BY <1>3, <2>2, <3>1, <3>2
  <2>4. ~(m < j)
    <3>1. m < j => m \in i + 1..j - 1
      BY <1>3, <2>3
    <3>2. s[i].ts <= s[m].ts
      <4>1. s[m].n \in 1..Upto(q) /\ s[m] = blocks[q][s[m].n]
        BY <1>0, <1>4, <2>2 DEF Genuine
      <4>2. Upto(q) \in Int /\ Upto(q) <= Len(blocks[q]) /\ Len(blocks[q]) \in Nat
        BY <1>4, SeqsAre DEF Upto
      <4>3. s[i].n \in 1..Len(blocks[q]) /\ s[m].n \in 1..Len(blocks[q])
        BY <1>7, <4>1, <4>2
      <4>4. s[i].n <= s[m].n
        BY <2>2, <4>3
      <4>. QED  BY <1>4, <1>7, <4>1, <4>3, <4>4 DEF AgedInv, Aged
    <3>3. Counts(s[m], from)
      <4>1. s[m] \in Event /\ s[i] \in Event
        BY <1>0, <1>6, <2>2
      <4>2. s[m].ts \in Nat /\ s[i].ts \in Nat
        BY <4>1 DEF Event
      <4>3. s[m].by # None
        BY <1>4, <2>2, MetricsAssumption
      <4>. QED  BY <1>0, <1>5, <3>2, <4>2, <4>3 DEF Counts
    <3>. QED  BY <1>5, <2>2, <3>1, <3>3
  <2>5. m = j
    <3>1. m > j => s[j].n < s[m].n
      BY <1>0, <1>3, <1>6, <2>2 DEF Sorted
    <3>2. ~(s[j].n < s[m].n)
      BY <1>7, <2>2
    <3>. QED  BY <1>3, <2>4, <3>1, <3>2
  <2>. QED  BY <1>7, <2>2, <2>5
<1>9. Upto(q) \in Int /\ Upto(q) <= Len(blocks[q]) /\ Len(blocks[q]) \in Nat
  BY <1>4, SeqsAre DEF Upto
<1>. DEFINE f == [by |-> q, n |-> s[j].n]
<1>10. f \in Fix
  BY <1>4, <1>7, <1>9 DEF Fix
<1>11. f.n \in 1..Len(blocks[q]) /\ blocks[q][f.n].fix
  BY <1>3, <1>7, <1>9
<1>12. \E l \in 1..f.n - 1 : blocks[q][l].key = k /\ (racing \/ l = f.n - 1)
  <2>1. s[i].n \in 1..f.n - 1
    BY <1>7, <1>9
  <2>2. blocks[q][s[i].n].key = k
    BY <1>5, <1>7
  <2>3. racing \/ s[i].n = f.n - 1
    BY <1>8
  <2>. QED  BY <2>1, <2>2, <2>3
<1>13. Mended(f, k)
  BY <1>4, <1>11, <1>12 DEF Mended
<1>14. Build(s, from)[k] = f
  BY <1>1 DEF q
<1>. QED  BY <1>10, <1>13, <1>14 DEF s, from

MendedNext(f, k) ==
  /\ f.by \in Procs /\ f.n \in 1..Len(blocks'[f.by]) /\ blocks'[f.by][f.n].fix
  /\ \E i \in 1..f.n - 1 : blocks'[f.by][i].key = k /\ (racing' \/ i = f.n - 1)

LEMMA RacingStays ==
  ASSUME TypeInv, [Next]_vars, racing
  PROVE  racing'
<1>1. CASE UNCHANGED vars
  BY <1>1, Zenon DEF vars
<1>2. ASSUME NEW p \in Procs, NEW key, NEW fix, Block(p, key, fix) PROVE racing'
  BY <1>2, Zenon DEF Block
<1>3. ASSUME NEW p \in Procs, Load(p) \/ List(p) \/ Read(p) \/ Index(p) \/ Open(p)
      PROVE  racing'
  BY <1>3, Zenon DEF Load, List, Read, Index, Open
<1>4. ASSUME NEW p \in Procs, Exists(p) \/ Oldest(p) \/ Look(p) PROVE racing'
  BY <1>4, Zenon DEF Exists, Oldest, Look, Asks
<1>5. ASSUME NEW p \in Procs, Stat(p) \/ Unlink(p) \/ Move(p) \/ MoveCurrent(p)
      PROVE  racing'
  BY <1>5, Zenon DEF Stat, Unlink, Move, MoveCurrent, GivesUp, Moved
<1>6. ASSUME NEW p \in Procs, Write(p) PROVE racing'
  BY <1>6, Zenon DEF Write
<1>. QED  BY <1>1, <1>2, <1>3, <1>4, <1>5, <1>6 DEF Next

LEMMA MendedStays ==
  ASSUME TypeInv, TypeInv', [Next]_vars, NEW f, NEW k, Mended(f, k), f.n \in Nat
  PROVE  MendedNext(f, k)
<1>1. f.by \in Procs /\ f.n \in 1..Len(blocks[f.by]) /\ blocks[f.by][f.n].fix
  BY DEF Mended
<1>2. PICK i \in 1..f.n - 1 : blocks[f.by][i].key = k /\ (racing \/ i = f.n - 1)
  BY DEF Mended
<1>3. /\ Len(blocks[f.by]) <= Len(blocks'[f.by]) /\ Len(blocks[f.by]) \in Nat
      /\ \A n \in 1..Len(blocks[f.by]) : blocks'[f.by][n] = blocks[f.by][n]
  BY <1>1, BlocksGrow, SeqsAre
<1>4. Len(blocks'[f.by]) \in Nat
  <2>1. blocks'[f.by] \in Seq(Event)
    BY <1>1 DEF TypeInv, LogTypeOK
  <2>. QED  BY <2>1
<1>5. f.n \in 1..Len(blocks'[f.by]) /\ i \in 1..Len(blocks[f.by])
  BY <1>1, <1>3, <1>4
<1>6. blocks'[f.by][f.n].fix /\ blocks'[f.by][i].key = k
  BY <1>1, <1>2, <1>3, <1>5
<1>7. racing' \/ i = f.n - 1
  BY <1>2, RacingStays
<1>. QED  BY <1>1, <1>5, <1>6, <1>7 DEF MendedNext

(* Where a step takes an index and a HINT from.                            *)
Renews(p) ==
  /\ \/ fixes'[p] = fixes[p]
     \/ pc[p] = "index" /\ fixes'[p] = Build(seen[p], since[p])
  /\ \/ hint'[p] = None
     \/ hint'[p] = hint[p] /\ blocks'[p] = blocks[p]
     \/ /\ hint'[p] = fixes'[p][Key(p)] /\ blocks'[p] = blocks[p]
        /\ pc[p] \in {"load", "index"}

LEMMA HintSteps ==
  ASSUME TypeInv, MendInv, AskingInv, [Next]_vars
  PROVE  /\ fixes' = [q \in Procs |-> fixes'[q]] /\ hint' = [q \in Procs |-> hint'[q]]
         /\ \A p \in Procs : Renews(p)
<1>0. /\ fixes \in [Procs -> [Keys -> Fix \cup {None}]] /\ hint \in [Procs -> Fix \cup {None}]
      /\ blocks \in [Procs -> Seq(Event)]
      /\ fixes = [q \in Procs |-> fixes[q]] /\ hint = [q \in Procs |-> hint[q]]
  BY SeqsAre DEF MendInv
<1>1. ASSUME UNCHANGED <<fixes, hint, blocks>>
      PROVE  /\ fixes' = [q \in Procs |-> fixes'[q]] /\ hint' = [q \in Procs |-> hint'[q]]
             /\ \A p \in Procs : Renews(p)
  BY <1>0, <1>1 DEF Renews
<1>2. CASE UNCHANGED vars
  BY <1>1, <1>2 DEF vars
<1>3. ASSUME NEW p \in Procs,
             \/ List(p) \/ Read(p)
             \/ Exists(p) \/ Oldest(p) \/ Look(p)
             \/ Stat(p) \/ Unlink(p) \/ Move(p) \/ MoveCurrent(p)
             \/ Open(p) \/ Write(p)
      PROVE  UNCHANGED <<fixes, hint, blocks>>
  BY <1>3 DEF List, Read, Exists, Oldest, Look, Stat, Unlink, Move, MoveCurrent, Open, Write,
              Asks, index
<1>4. ASSUME NEW p \in Procs, NEW key \in Keys \cup {NoKey, Ok}, NEW fix \in BOOLEAN, Block(p, key, fix)
      PROVE  /\ fixes' = [q \in Procs |-> fixes'[q]] /\ hint' = [q \in Procs |-> hint'[q]]
             /\ \A q \in Procs : Renews(q)
  <2>1. /\ fixes' = fixes /\ hint' = [hint EXCEPT ![p] = None]
        /\ \A q \in Procs \ {p} : blocks'[q] = blocks[q]
    BY <1>0, <1>4 DEF Block
  <2>2. \A q \in Procs : hint'[q] = IF q = p THEN None ELSE hint[q]
    BY <1>0, <2>1
  <2>3. hint' = [q \in Procs |-> hint'[q]]
    BY <1>0, <2>1
  <2>. QED  BY <1>0, <2>1, <2>2, <2>3 DEF Renews
<1>5. ASSUME NEW p \in Procs, NEW known, hint' = [hint EXCEPT ![p] = known[Key(p)]],
             known = NoFixes \/ known = fixes'[p], Key(p) \in Keys,
             blocks' = blocks, pc[p] \in {"load", "index"},
             \A q \in Procs : \/ fixes'[q] = fixes[q]
                              \/ pc[q] = "index" /\ fixes'[q] = Build(seen[q], since[q])
      PROVE  /\ hint' = [q \in Procs |-> hint'[q]] /\ \A q \in Procs : Renews(q)
  <2>1. \A q \in Procs : hint'[q] = IF q = p THEN known[Key(p)] ELSE hint[q]
    BY <1>0, <1>5
  <2>2. known = NoFixes => known[Key(p)] = None
    BY <1>5 DEF NoFixes
  <2>3. hint' = [q \in Procs |-> hint'[q]]
    BY <1>0, <1>5
  <2>. QED  BY <1>5, <2>1, <2>2, <2>3 DEF Renews
<1>6. ASSUME NEW p \in Procs, Load(p)
      PROVE  /\ fixes' = [q \in Procs |-> fixes'[q]] /\ hint' = [q \in Procs |-> hint'[q]]
             /\ \A q \in Procs : Renews(q)
  <2>1. fixes' = fixes /\ blocks' = blocks /\ pc[p] = "load"
    BY <1>6 DEF Load
  <2>2. Key(p) \in Keys
    BY <2>1 DEF AskingInv
  <2>3. CASE Sig \in {None, sig[p]}
    <3>. DEFINE known == IF Sig = None THEN NoFixes ELSE fixes[p]
    <3>1. hint' = [hint EXCEPT ![p] = known[Key(p)]]
      BY <1>6, <2>3 DEF Load, Hinted, Key
    <3>2. known = NoFixes \/ known = fixes'[p]
      BY <2>1
    <3>. HIDE DEF known
    <3>. QED  BY <1>0, <1>5, <2>1, <2>2, <3>1, <3>2
  <2>4. CASE Sig \notin {None, sig[p]}
    <3>1. hint' = hint
      BY <1>6, <2>4 DEF Load
    <3>. QED  BY <1>1, <2>1, <3>1
  <2>. QED  BY <2>3, <2>4
<1>7. ASSUME NEW p \in Procs, Index(p)
      PROVE  /\ fixes' = [q \in Procs |-> fixes'[q]] /\ hint' = [q \in Procs |-> hint'[q]]
             /\ \A q \in Procs : Renews(q)
  <2>1. /\ fixes' = [fixes EXCEPT ![p] = Build(seen[p], since[p])] /\ blocks' = blocks
        /\ pc[p] = "index" /\ hint' = [hint EXCEPT ![p] = fixes'[p][Key(p)]]
    BY <1>7 DEF Index, Hinted, Key
  <2>2. Key(p) \in Keys
    BY <2>1 DEF AskingInv, Reading
  <2>3. /\ fixes' = [q \in Procs |-> fixes'[q]]
        /\ \A q \in Procs : fixes'[q] = IF q = p THEN Build(seen[p], since[p]) ELSE fixes[q]
    BY <1>0, <2>1
  <2>4. \A q \in Procs : \/ fixes'[q] = fixes[q]
                         \/ pc[q] = "index" /\ fixes'[q] = Build(seen[q], since[q])
    BY <2>1, <2>3
  <2>. DEFINE known == fixes'[p]
  <2>5. hint' = [hint EXCEPT ![p] = known[Key(p)]]
    BY <2>1
  <2>6. known = fixes'[p]
    OBVIOUS
  <2>. HIDE DEF known
  <2>. QED  BY <1>5, <2>1, <2>2, <2>3, <2>4, <2>5, <2>6
<1>. QED  BY <1>1, <1>2, <1>3, <1>4, <1>6, <1>7 DEF Next

LEMMA StepMend ==
  TypeInv /\ TypeInv' /\ OrderInv /\ GenuineInv /\ ReadingInv /\ AskingInv /\ AgedInv
    /\ MendInv /\ [Next]_vars => MendInv'
<1>. SUFFICES ASSUME TypeInv, TypeInv', OrderInv, GenuineInv, ReadingInv, AskingInv, AgedInv,
                     MendInv, [Next]_vars
              PROVE  MendInv'
  OBVIOUS
<1>0. /\ fixes \in [Procs -> [Keys -> Fix \cup {None}]] /\ hint \in [Procs -> Fix \cup {None}]
      /\ \A f \in Fix : f.n \in Nat
  BY DEF MendInv, Fix
<1>1. ASSUME NEW p \in Procs, NEW k \in Keys
      PROVE  /\ fixes'[p][k] \in Fix \cup {None}
             /\ fixes'[p][k] # None => MendedNext(fixes'[p][k], k)
  <2>1. CASE fixes'[p] = fixes[p]
    <3>1. /\ fixes[p][k] \in Fix \cup {None}
          /\ fixes[p][k] # None => Mended(fixes[p][k], k)
      BY <1>0 DEF MendInv
    <3>. QED  BY <1>0, <2>1, <3>1, MendedStays
  <2>2. CASE pc[p] = "index" /\ fixes'[p] = Build(seen[p], since[p])
    <3>1. fixes'[p][k] # None => fixes'[p][k] \in Fix /\ Mended(fixes'[p][k], k)
      BY <2>2, BuildMends
    <3>. QED  BY <1>0, <2>2, <3>1, MendedStays
  <2>. QED  BY <2>1, <2>2, HintSteps DEF Renews
<1>2. fixes' \in [Procs -> [Keys -> Fix \cup {None}]]
  <2>1. ASSUME NEW p \in Procs PROVE fixes'[p] \in [Keys -> Fix \cup {None}]
    <3>1. fixes'[p] = [k \in Keys |-> fixes'[p][k]]
      <4>1. fixes[p] = [k \in Keys |-> fixes[p][k]]
        BY <1>0
      <4>2. \A s, from : Build(s, from) = [k \in Keys |-> Build(s, from)[k]]
        BY DEF Build
      <4>. QED  BY <4>1, <4>2, HintSteps DEF Renews
    <3>. QED  BY <1>1, <3>1
  <2>. QED  BY <2>1, HintSteps
<1>3. ASSUME NEW p \in Procs
      PROVE  /\ hint'[p] \in Fix \cup {None}
             /\ hint'[p] # None => blocks'[p] # <<>> /\ MendedNext(hint'[p], Key(p)')
  <2>1. CASE hint'[p] = None
    BY <2>1
  <2>2. CASE hint'[p] = hint[p] /\ blocks'[p] = blocks[p]
    <3>1. /\ hint[p] \in Fix \cup {None}
          /\ hint[p] # None => blocks[p] # <<>> /\ Mended(hint[p], Key(p))
      BY <1>0 DEF MendInv
    <3>2. Key(p)' = Key(p)
      BY <2>2 DEF Key
    <3>. QED  BY <1>0, <2>2, <3>1, <3>2, MendedStays
  <2>3. CASE /\ hint'[p] = fixes'[p][Key(p)] /\ blocks'[p] = blocks[p]
             /\ pc[p] \in {"load", "index"}
    <3>1. Key(p) \in Keys /\ blocks[p] # <<>>
      BY <2>3 DEF AskingInv, Reading, TypeInv, PhaseInv, Phase
    <3>2. Key(p)' = Key(p)
      BY <2>3 DEF Key
    <3>. QED  BY <1>1, <2>3, <3>1, <3>2
  <2>. QED  BY <2>1, <2>2, <2>3, HintSteps DEF Renews
<1>4. hint' \in [Procs -> Fix \cup {None}]
  BY <1>3, HintSteps
<1>. QED  BY <1>1, <1>2, <1>3, <1>4 DEF MendInv, Mended, MendedNext

LEMMA InitMend == Init => MendInv
<1>. SUFFICES ASSUME Init PROVE MendInv
  OBVIOUS
<1>1. /\ \A p \in Procs, k \in Keys : fixes[p][k] = None
      /\ \A p \in Procs : hint[p] = None
  BY DEF Init, NoFixes
<1>2. /\ fixes \in [Procs -> [Keys -> Fix \cup {None}]]
      /\ hint \in [Procs -> Fix \cup {None}]
  BY DEF Init, NoFixes
<1>. QED  BY <1>1, <1>2 DEF MendInv

LEMMA MendInvHolds == Spec => [](TypeInv /\ MendInv)
<1>. DEFINE Inv == /\ TypeInv /\ PastInv /\ OrderInv /\ RotationInv
                   /\ GenuineInv /\ AskingInv /\ ReadingInv /\ AgedInv /\ MendInv
<1>1. Init => Inv
  BY InitTypes, InitOrder, InitRotation, InitGenuine, InitReading, InitAged, InitMend
<1>2. Inv /\ [Next]_vars => Inv'
  BY StepTypes, StepPast, StepOrder, StepRotation, StepGenuine, StepAsking, StepReading,
     StepAged, StepMend
<1>. QED  BY <1>1, <1>2, PTL DEF Spec

(* The types of log, readers and indices.                                  *)
THEOREM TypeCorrect == Spec => []TypeOK
<1>1. TypeInv /\ MendInv => TypeOK
  BY DEF TypeInv, MendInv, TypeOK
<1>. QED  BY <1>1, MendInvHolds, PTL

(* A HINT names a block that succeeded, in a session where the error just  *)
(* met had occurred before; unless a rotation met another process, that    *)
(* error is the block just before the one named.                           *)
THEOREM HintsAreFixes == Spec => []HintIsItsFix
<1>1. TypeInv /\ MendInv => HintIsItsFix
  BY DEF MendInv, Mended, HintIsItsFix
<1>. QED  BY <1>1, MendInvHolds, PTL
-----------------------------------------------------------------------------
(* What FlattenSeq and FoldLeft compute, without an induction: of the      *)
(* numbers up to which a recursive function would go wrong there would be  *)
(* a least one.                                                            *)
LEMMA LeastOf ==
  ASSUME NEW S \in SUBSET Nat, S # {}
  PROVE  \E n \in S : \A m \in S : n <= m
<1>1. PICK n \in S : \A m \in S : ~(<<m, n>> \in OpToRel(<, Nat))
  BY NatLessThanWellFounded, WFMin, Zenon
<1>2. \A m \in S : ~(m < n)
  BY <1>1 DEF OpToRel
<1>. QED  BY <1>2

Flattens(f, ss, n) ==
  f = [i \in 1..n |-> IF i = 1 THEN ss[i] ELSE f[i - 1] \o ss[i]]

LEMMA FlattensExists ==
  ASSUME NEW ss, NEW n \in Nat
  PROVE  \E f : Flattens(f, ss, n)
<1>. DEFINE Bad == {m \in Nat : ~\E f : Flattens(f, ss, m)}
<1>. SUFFICES ASSUME Bad # {} PROVE FALSE
  OBVIOUS
<1>1. PICK m \in Bad : \A k \in Bad : m <= k
  BY LeastOf
<1>2. m # 0
  <2>. DEFINE f == [i \in 1..0 |-> ss]
  <2>1. \A g, h : [i \in 1..0 |-> g[i]] = [i \in 1..0 |-> h[i]]
    OBVIOUS
  <2>2. Flattens(f, ss, 0)
    BY DEF Flattens
  <2>. QED  BY <1>1, <2>2
<1>3. PICK g : Flattens(g, ss, m - 1)
  <2>1. m - 1 \in Nat /\ ~(m <= m - 1)
    BY <1>1, <1>2
  <2>. QED  BY <1>1, <2>1
<1>. DEFINE F(f, i) == IF i = 1 THEN ss[i] ELSE f[i - 1] \o ss[i]
            h == [i \in 1..m |-> IF i < m THEN g[i] ELSE F(g, i)]
<1>4. \A i \in 1..m - 1 : g[i] = F(g, i)
  BY <1>3 DEF Flattens
<1>5. ASSUME NEW i \in 1..m PROVE h[i] = F(h, i)
  <2>1. CASE i = 1
    BY <1>4, <2>1
  <2>2. CASE i # 1
    <3>1. i - 1 \in 1..m /\ i - 1 < m
      BY <2>2
    <3>2. h[i - 1] = g[i - 1]
      BY <3>1
    <3>3. h[i] = F(g, i)
      BY <1>1, <1>4
    <3>. HIDE DEF h
    <3>. QED  BY <2>2, <3>2, <3>3
  <2>. QED  BY <2>1, <2>2
<1>6. h = [i \in 1..m |-> h[i]]
  OBVIOUS
<1>7. Flattens(h, ss, m)
  <2>. HIDE DEF h
  <2>. QED  BY <1>5, <1>6 DEF Flattens
<1>. QED  BY <1>1, <1>7

LEMMA FlattensAlike ==
  ASSUME NEW m \in Nat, NEW ss, NEW tt, \A i \in 1..m : tt[i] = ss[i],
         NEW f, Flattens(f, ss, m + 1), NEW g, Flattens(g, tt, m)
  PROVE  \A i \in 1..m : f[i] = g[i]
<1>. DEFINE Bad == {j \in 1..m : f[j] # g[j]}
<1>. SUFFICES ASSUME Bad # {} PROVE FALSE
  OBVIOUS
<1>1. PICK j \in Bad : \A k \in Bad : j <= k
  <2>1. Bad \in SUBSET Nat
    OBVIOUS
  <2>. QED  BY <2>1, LeastOf
<1>2. /\ f[j] = IF j = 1 THEN ss[j] ELSE f[j - 1] \o ss[j]
      /\ g[j] = IF j = 1 THEN tt[j] ELSE g[j - 1] \o tt[j]
  <2>1. j \in 1..m /\ j \in 1..m + 1
    BY <1>1
  <2>. QED  BY <2>1 DEF Flattens
<1>3. j # 1 => f[j - 1] = g[j - 1]
  <2>1. j # 1 => j - 1 \in 1..m /\ ~(j <= j - 1)
    BY <1>1
  <2>. QED  BY <1>1, <2>1
<1>. QED  BY <1>1, <1>2, <1>3

LEMMA FlattenIs ==
  ASSUME NEW ss, NEW n \in Nat, Len(ss) = n, n # 0
  PROVE  \E f : Flattens(f, ss, n) /\ FlattenSeq(ss) = f[n]
<1>. DEFINE f == CHOOSE f : Flattens(f, ss, n)
<1>1. Flattens(f, ss, n)
  BY FlattensExists
<1>2. FlattenSeq(ss) = f[n]
  BY Zenon DEF FlattenSeq, Flattens
<1>. QED  BY <1>1, <1>2

LEMMA FlattenMore ==
  ASSUME NEW n \in Nat, n # 0, NEW ss, Len(ss) = n + 1,
         NEW tt, Len(tt) = n, \A i \in 1..n : tt[i] = ss[i]
  PROVE  FlattenSeq(ss) = FlattenSeq(tt) \o ss[n + 1]
<1>1. PICK f : Flattens(f, ss, n + 1) /\ FlattenSeq(ss) = f[n + 1]
  BY FlattenIs
<1>2. PICK g : Flattens(g, tt, n) /\ FlattenSeq(tt) = g[n]
  BY FlattenIs
<1>3. \A i \in 1..n : f[i] = g[i]
  BY <1>1, <1>2, FlattensAlike
<1>4. f[n + 1] = f[n] \o ss[n + 1]
  <2>1. n + 1 \in 1..n + 1 /\ (n + 1) - 1 = n /\ n + 1 # 1
    OBVIOUS
  <2>2. \A i \in 1..n + 1 : f[i] = IF i = 1 THEN ss[i] ELSE f[i - 1] \o ss[i]
    BY <1>1 DEF Flattens
  <2>. QED  BY <2>1, <2>2
<1>5. n \in 1..n
  OBVIOUS
<1>. QED  BY <1>1, <1>2, <1>3, <1>4, <1>5

LEMMA FlattenNext ==
  ASSUME NEW S, NEW n \in Nat, NEW ss \in [1..n + 1 -> Seq(S)]
  PROVE  FlattenSeq(ss) = FlattenSeq([i \in 1..n |-> ss[i]]) \o ss[n + 1]
<1>. DEFINE tt == [i \in 1..n |-> ss[i]]
<1>1. /\ ss \in Seq(Seq(S)) /\ Len(ss) = n + 1
      /\ tt \in Seq(Seq(S)) /\ Len(tt) = n /\ \A i \in 1..n : tt[i] = ss[i]
  OBVIOUS
<1>2. CASE n = 0
  <2>1. PICK f : Flattens(f, ss, n + 1) /\ FlattenSeq(ss) = f[n + 1]
    BY <1>1, FlattenIs
  <2>2. f[n + 1] = ss[n + 1]
    BY <1>2, <2>1 DEF Flattens
  <2>3. FlattenSeq(tt) = <<>>
    <3>1. tt = <<>>
      BY <1>1, <1>2
    <3>. QED  BY <3>1 DEF FlattenSeq
  <2>4. ss[n + 1] \in Seq(S)
    OBVIOUS
  <2>5. <<>> \o ss[n + 1] = ss[n + 1]
    BY <2>4
  <2>. QED  BY <2>1, <2>2, <2>3, <2>5
<1>3. CASE n # 0
  <2>. HIDE DEF tt
  <2>1. FlattenSeq(ss) = FlattenSeq(tt) \o ss[n + 1]
    BY <1>1, <1>3, FlattenMore
  <2>. QED  BY <2>1 DEF tt
<1>. QED  BY <1>2, <1>3

-----------------------------------------------------------------------------
Loops(f, s, n, base) ==
  f = [t \in SUBSET (1..n) |->
         IF t = {} THEN base ELSE Paired(f[t \ {Max(t)}], s[Max(t)])]

LEMMA MaxIs ==
  ASSUME NEW n \in Nat, NEW t \in SUBSET (1..n), t # {}
  PROVE  Max(t) \in t /\ \A m \in t : m <= Max(t)
<1>. DEFINE D == {n - m : m \in t}
<1>1. D \in SUBSET Nat /\ D # {}
  <2>1. \A m \in t : n - m \in Nat
    OBVIOUS
  <2>. QED  BY <2>1
<1>2. PICK d \in D : \A e \in D : d <= e
  BY <1>1, LeastOf
<1>3. PICK x \in t : d = n - x
  OBVIOUS
<1>4. \A m \in t : x >= m
  <2>1. \A m \in t : n - x <= n - m
    BY <1>2, <1>3
  <2>. QED  BY <2>1
<1>5. Max(t) \in t /\ \A m \in t : Max(t) >= m
  BY <1>4, Zenon DEF Max
<1>. QED  BY <1>5

LEMMA LoopsExist ==
  ASSUME NEW s, NEW n \in Nat, NEW base
  PROVE  \E f : Loops(f, s, n, base)
<1>. DEFINE Bad == {m \in Nat : ~\E f : Loops(f, s, m, base)}
<1>. SUFFICES ASSUME Bad # {} PROVE FALSE
  OBVIOUS
<1>1. PICK m \in Bad : \A k \in Bad : m <= k
  BY LeastOf
<1>2. m # 0
  <2>. DEFINE f == [t \in SUBSET (1..0) |-> base]
  <2>1. \A t \in SUBSET (1..0) : t = {}
    OBVIOUS
  <2>2. Loops(f, s, 0, base)
    BY <2>1 DEF Loops
  <2>. QED  BY <1>1, <2>2
<1>3. PICK g : Loops(g, s, m - 1, base)
  <2>1. m - 1 \in Nat /\ ~(m <= m - 1)
    BY <1>1, <1>2
  <2>. QED  BY <1>1, <2>1
<1>. DEFINE F(f, t) == IF t = {} THEN base ELSE Paired(f[t \ {Max(t)}], s[Max(t)])
            h == [t \in SUBSET (1..m) |-> IF m \in t THEN Paired(g[t \ {m}], s[m]) ELSE g[t]]
<1>4. \A t \in SUBSET (1..m - 1) : g[t] = F(g, t)
  BY <1>3 DEF Loops
<1>5. ASSUME NEW t \in SUBSET (1..m) PROVE h[t] = F(h, t)
  <2>1. CASE t = {}
    BY <1>4, <2>1
  <2>2. CASE t # {} /\ m \in t
    <3>1. Max(t) = m
      <4>1. Max(t) \in t /\ \A k \in t : k <= Max(t)
        BY <1>1, <2>2, MaxIs
      <4>2. Max(t) \in 1..m /\ m <= Max(t)
        BY <2>2, <4>1
      <4>. QED  BY <1>1, <4>2
    <3>2. t \ {m} \in SUBSET (1..m) /\ m \notin t \ {m}
      OBVIOUS
    <3>3. h[t \ {m}] = g[t \ {m}]
      BY <3>2
    <3>4. h[t] = Paired(g[t \ {m}], s[m])
      BY <2>2
    <3>. HIDE DEF h
    <3>. QED  BY <2>2, <3>1, <3>3, <3>4
  <2>3. CASE t # {} /\ m \notin t
    <3>1. t \in SUBSET (1..m - 1) /\ t \ {Max(t)} \in SUBSET (1..m) /\ m \notin t \ {Max(t)}
      <4>1. m \in Nat /\ \A k \in 1..m : k # m => k \in 1..m - 1
        BY <1>1
      <4>. HIDE DEF Bad
      <4>. QED  BY <2>3, <4>1
    <3>2. h[t \ {Max(t)}] = g[t \ {Max(t)}] /\ h[t] = g[t]
      BY <2>3, <3>1
    <3>. HIDE DEF h
    <3>. QED  BY <1>4, <2>3, <3>1, <3>2
  <2>. QED  BY <2>1, <2>2, <2>3
<1>6. h = [t \in SUBSET (1..m) |-> h[t]]
  OBVIOUS
<1>7. Loops(h, s, m, base)
  <2>. HIDE DEF h
  <2>. QED  BY <1>5, <1>6 DEF Loops
<1>. QED  BY <1>1, <1>7

(* The loop's state after each event.                                      *)
Runs(acc, s, base) ==
  acc[0] = base /\ \A j \in 1..Len(s) : acc[j] = Paired(acc[j - 1], s[j])

LEMMA LoopRuns ==
  ASSUME NEW s \in Seq(Event), NEW base
  PROVE  \E acc : Runs(acc, s, base) /\ FoldLeft(Paired, base, s) = acc[Len(s)]
<1>. DEFINE n == Len(s)
            f == CHOOSE f : Loops(f, s, n, base)
            acc == [j \in 0..n |-> f[1..j]]
<1>0. n \in Nat /\ DOMAIN s = 1..n
  OBVIOUS
<1>1. Loops(f, s, n, base)
  BY <1>0, LoopsExist
<1>2. FoldLeft(Paired, base, s) = f[1..n]
  BY <1>0, Zenon DEF FoldLeft, MapThenFoldSet, Loops
<1>. HIDE DEF f, n
<1>3. acc[0] = base
  <2>1. 1..0 = {} /\ 0 \in 0..n
    BY <1>0
  <2>2. f[{}] = base
    BY <1>1 DEF Loops
  <2>. QED  BY <2>1, <2>2
<1>4. ASSUME NEW j \in 1..n PROVE acc[j] = Paired(acc[j - 1], s[j])
  <2>1. /\ j - 1 \in 0..n /\ j \in 0..n /\ j \in Nat
        /\ j \in 1..j /\ \A m \in 1..j : m <= j
    BY <1>0
  <2>4. 1..j \in SUBSET (1..n)
    <3>1. \A m \in 1..j : m \in 1..n
      BY <1>0
    <3>. QED  BY <3>1
  <2>5. (1..j) \ {j} = 1..j - 1
    <3>1. \A m : m \in (1..j) \ {j} <=> m \in 1..j - 1
      BY <2>1
    <3>. QED  BY <3>1
  <2>2. Max(1..j) = j
    <3>1. Max(1..j) \in 1..j /\ \A m \in 1..j : m <= Max(1..j)
      BY <2>1, MaxIs
    <3>. QED  BY <2>1, <3>1
  <2>3. f[1..j] = Paired(f[(1..j) \ {Max(1..j)}], s[Max(1..j)])
    BY <1>1, <2>1, <2>4 DEF Loops
  <2>. QED  BY <2>1, <2>2, <2>3, <2>5
<1>5. acc[n] = f[1..n]
  BY <1>0
<1>6. Runs(acc, s, base)
  <2>. HIDE DEF acc
  <2>. QED  BY <1>3, <1>4 DEF Runs, n
<1>. QED  BY <1>2, <1>5, <1>6 DEF n


(* What it has found after j events.                                       *)
Standing(s, j, b, k, from) ==
  \E i \in 1..j :
    /\ Counts(s[i], from) /\ s[i].by = b /\ s[i].key = k
    /\ \A m \in i + 1..j : ~(Counts(s[m], from) /\ s[m].by = b)

LastMend(x, s, j, k, from) ==
  \/ x = None /\ \A m \in Mends(s, k, from) : m > j
  \/ \E l \in Mends(s, k, from) : /\ l <= j /\ x = [by |-> s[l].by, n |-> s[l].n]
                                  /\ \A m \in Mends(s, k, from) : m <= j => m <= l

Holds(a, s, j, from) ==
  /\ a = [since |-> from, pending |-> a.pending, fixes |-> a.fixes]
  /\ a.pending \in [Procs -> Keys \cup {None}]
  /\ a.fixes = [k \in Keys |-> a.fixes[k]]
  /\ \A b \in Procs, k \in Keys : a.pending[b] = k <=> Standing(s, j, b, k, from)
  /\ \A k \in Keys : LastMend(a.fixes[k], s, j, k, from)

LEMMA StandingStep ==
  ASSUME NEW s \in Seq(Event), NEW j \in 1..Len(s), NEW b, NEW k, NEW from
  PROVE  Standing(s, j, b, k, from) <=>
           IF Counts(s[j], from) /\ s[j].by = b THEN s[j].key = k
           ELSE Standing(s, j - 1, b, k, from)
<1>. DEFINE Of(m) == Counts(s[m], from) /\ s[m].by = b
<1>0. \A n : Standing(s, n, b, k, from) <=>
        \E i \in 1..n : Of(i) /\ s[i].key = k /\ \A m \in i + 1..n : ~Of(m)
  BY Zenon DEF Standing
<1>. HIDE DEF Of
<1>1. CASE Of(j)
  <2>1. ASSUME Standing(s, j, b, k, from) PROVE s[j].key = k
    <3>1. PICK i \in 1..j : Of(i) /\ s[i].key = k /\ \A m \in i + 1..j : ~Of(m)
      BY <1>0, <2>1
    <3>2. i # j => j \in i + 1..j
      OBVIOUS
    <3>. QED  BY <1>1, <3>1, <3>2
  <2>2. ASSUME s[j].key = k PROVE Standing(s, j, b, k, from)
    <3>1. j \in 1..j /\ \A m : m \notin j + 1..j
      OBVIOUS
    <3>. QED  BY <1>0, <1>1, <2>2, <3>1
  <2>. QED  BY <1>1, <2>1, <2>2 DEF Of
<1>2. CASE ~Of(j)
  <2>1. ASSUME Standing(s, j, b, k, from) PROVE Standing(s, j - 1, b, k, from)
    <3>1. PICK i \in 1..j : Of(i) /\ s[i].key = k /\ \A m \in i + 1..j : ~Of(m)
      BY <1>0, <2>1
    <3>2. i # j
      BY <1>2, <3>1
    <3>3. i \in 1..j - 1 /\ \A m \in i + 1..j - 1 : m \in i + 1..j
      BY <3>2
    <3>. QED  BY <1>0, <3>1, <3>3
  <2>2. ASSUME Standing(s, j - 1, b, k, from) PROVE Standing(s, j, b, k, from)
    <3>1. PICK i \in 1..j - 1 : Of(i) /\ s[i].key = k /\ \A m \in i + 1..j - 1 : ~Of(m)
      BY <1>0, <2>2
    <3>2. i \in 1..j /\ \A m \in i + 1..j : m = j \/ m \in i + 1..j - 1
      OBVIOUS
    <3>3. \A m \in i + 1..j : ~Of(m)
      BY <1>2, <3>1, <3>2
    <3>. QED  BY <1>0, <3>1, <3>2, <3>3
  <2>. QED  BY <1>2, <2>1, <2>2 DEF Of
<1>. QED  BY <1>1, <1>2

LEMMA MendsAre ==
  ASSUME NEW s \in Seq(Event), NEW j \in 1..Len(s), NEW k, NEW from
  PROVE  /\ j \in Mends(s, k, from) <=> /\ Counts(s[j], from) /\ s[j].key = Ok /\ s[j].fix
                                        /\ Standing(s, j - 1, s[j].by, k, from)
         /\ Mends(s, k, from) \subseteq 1..Len(s)
BY Zenon DEF Mends, Pends, Standing

LEMMA MendStays ==
  ASSUME NEW s \in Seq(Event), NEW j \in 1..Len(s), NEW k, NEW x, NEW from,
         LastMend(x, s, j - 1, k, from), j \notin Mends(s, k, from)
  PROVE  LastMend(x, s, j, k, from)
<1>1. \A m \in Mends(s, k, from) : m \in 1..Len(s) /\ m # j
  BY MendsAre
<1>2. \A m \in Mends(s, k, from) : m <= j - 1 <=> m <= j
  BY <1>1
<1>3. \A m \in Mends(s, k, from) : m > j - 1 => m > j
  BY <1>1
<1>. QED  BY <1>2, <1>3 DEF LastMend

LEMMA MendNow ==
  ASSUME NEW s \in Seq(Event), NEW j \in 1..Len(s), NEW k, NEW from, j \in Mends(s, k, from)
  PROVE  LastMend([by |-> s[j].by, n |-> s[j].n], s, j, k, from)
BY DEF LastMend

LEMMA PairedHolds ==
  ASSUME NEW s \in Seq(Event), NEW j \in 1..Len(s), NEW from, NEW a, Holds(a, s, j - 1, from)
  PROVE  Holds(Paired(a, s[j]), s, j, from)
<1>. DEFINE e == s[j]
            P == a.pending
            F == a.fixes
<1>0. /\ e.by \in Procs \cup {None} /\ e.key \in Keys \cup {NoKey, Ok}
      /\ P \in [Procs -> Keys \cup {None}] /\ F = [k \in Keys |-> F[k]]
      /\ a = [since |-> from, pending |-> P, fixes |-> F]
      /\ \A b \in Procs, k \in Keys : P[b] = k <=> Standing(s, j - 1, b, k, from)
      /\ \A k \in Keys : LastMend(F[k], s, j - 1, k, from)
  <2>1. e \in Event
    OBVIOUS
  <2>. QED  BY <2>1 DEF Event, Holds
<1>00. Ok \notin Keys /\ None \notin Keys
  BY MetricsAssumption
<1>000. a.since = from
  BY <1>0
<1>1. CASE ~Counts(e, from)
  <2>1. Paired(a, e) = a
    BY <1>000, <1>1 DEF Paired
  <2>2. ASSUME NEW b \in Procs, NEW k \in Keys PROVE P[b] = k <=> Standing(s, j, b, k, from)
    BY <1>0, <1>1, StandingStep
  <2>3. ASSUME NEW k \in Keys PROVE LastMend(F[k], s, j, k, from)
    <3>1. j \notin Mends(s, k, from)
      BY <1>1, MendsAre
    <3>. QED  BY <1>0, <3>1, MendStays
  <2>. QED  BY <1>0, <2>1, <2>2, <2>3 DEF Holds
<1>2. CASE Counts(e, from)
  <2>. DEFINE Q == [P EXCEPT ![e.by] = IF e.key \in Keys THEN e.key ELSE None]
              G == IF e.key = Ok /\ e.fix /\ P[e.by] # None
                   THEN [F EXCEPT ![P[e.by]] = [by |-> e.by, n |-> e.n]] ELSE F
  <2>0. e.by \in Procs
    BY <1>0, <1>2 DEF Counts
  <2>1. Paired(a, e) = [since |-> from, pending |-> Q, fixes |-> G]
    <3>1. Paired(a, e) = [a EXCEPT !.pending = Q, !.fixes = G]
      BY <1>000, <1>2 DEF Paired
    <3>. HIDE DEF Q, G, P, F
    <3>. QED  BY <1>0, <3>1
  <2>2. Q \in [Procs -> Keys \cup {None}]
    BY <1>0
  <2>3. ASSUME NEW b \in Procs, NEW k \in Keys
        PROVE  Q[b] = k <=> Standing(s, j, b, k, from)
    <3>1. Q[b] = IF e.by = b THEN (IF e.key \in Keys THEN e.key ELSE None) ELSE P[b]
      BY <1>0
    <3>. HIDE DEF Q
    <3>2. CASE e.by = b
      <4>1. Q[b] = k <=> e.key = k
        BY <1>00, <3>1, <3>2
      <4>. QED  BY <1>2, <3>2, <4>1, StandingStep
    <3>3. CASE e.by # b
      BY <1>0, <3>1, <3>3, StandingStep
    <3>. QED  BY <3>2, <3>3
  <2>4. G = [k \in Keys |-> G[k]]
    BY <1>0
  <2>5. ASSUME NEW k \in Keys PROVE LastMend(G[k], s, j, k, from)
    <3>1. CASE e.key = Ok /\ e.fix /\ P[e.by] = k
      <4>1. j \in Mends(s, k, from)
        BY <1>0, <1>2, <2>0, <3>1, MendsAre
      <4>2. G[k] = [by |-> e.by, n |-> e.n]
        BY <1>0, <1>00, <3>1
      <4>. QED  BY <4>1, <4>2, MendNow
    <3>2. CASE ~(e.key = Ok /\ e.fix /\ P[e.by] = k)
      <4>1. j \notin Mends(s, k, from)
        BY <1>0, <2>0, <3>2, MendsAre
      <4>2. G[k] = F[k]
        BY <1>0, <3>2
      <4>. QED  BY <1>0, <4>1, <4>2, MendStays
    <3>. QED  BY <3>1, <3>2
  <2>. HIDE DEF Q, G
  <2>. DEFINE r == [since |-> from, pending |-> Q, fixes |-> G]
  <2>6. r.pending = Q /\ r.fixes = G
    OBVIOUS
  <2>. HIDE DEF r
  <2>7. r = [since |-> from, pending |-> r.pending, fixes |-> r.fixes]
    BY <2>6 DEF r
  <2>8. Holds(r, s, j, from)
    BY <2>2, <2>3, <2>4, <2>5, <2>6, <2>7 DEF Holds
  <2>. QED  BY <2>1, <2>8 DEF r
<1>. QED  BY <1>1, <1>2

LEMMA BlankHolds ==
  ASSUME NEW s \in Seq(Event), NEW from
  PROVE  Holds(Blank(from), s, 0, from)
<1>1. \A b, k : ~Standing(s, 0, b, k, from)
  BY DEF Standing
<1>2. \A k : \A m \in Mends(s, k, from) : m > 0
  BY DEF Mends
<1>3. None \notin Keys
  BY MetricsAssumption
<1>. DEFINE a == Blank(from)
<1>4. /\ a.pending = [p \in Procs |-> None] /\ a.fixes = [k \in Keys |-> None]
      /\ a = [since |-> from, pending |-> a.pending, fixes |-> a.fixes]
  BY DEF Blank, NoFixes
<1>. HIDE DEF a
<1>5. \A k \in Keys : LastMend(a.fixes[k], s, 0, k, from)
  BY <1>2, <1>4 DEF LastMend
<1>6. Holds(a, s, 0, from)
  BY <1>1, <1>3, <1>4, <1>5 DEF Holds
<1>. QED  BY <1>6 DEF a

LEMMA HoldsBuild ==
  ASSUME NEW s \in Seq(Event), NEW from, NEW a, Holds(a, s, Len(s), from)
  PROVE  a.fixes = Build(s, from)
<1>1. ASSUME NEW k \in Keys PROVE a.fixes[k] = Build(s, from)[k]
  <2>. DEFINE last == CHOOSE j \in Mends(s, k, from) : \A m \in Mends(s, k, from) : m <= j
  <2>1. Build(s, from)[k] = IF Mends(s, k, from) = {} THEN None ELSE [by |-> s[last].by, n |-> s[last].n]
    BY DEF Build
  <2>2. Len(s) \in Nat /\ Mends(s, k, from) \subseteq 1..Len(s)
    BY DEF Mends
  <2>3. LastMend(a.fixes[k], s, Len(s), k, from)
    BY DEF Holds
  <2>4. CASE Mends(s, k, from) = {}
    BY <2>1, <2>3, <2>4 DEF LastMend
  <2>5. CASE Mends(s, k, from) # {}
    <3>1. PICK l \in Mends(s, k, from) : /\ a.fixes[k] = [by |-> s[l].by, n |-> s[l].n]
                                   /\ \A m \in Mends(s, k, from) : m <= l
      BY <2>2, <2>3, <2>5 DEF LastMend
    <3>2. last \in Mends(s, k, from) /\ \A m \in Mends(s, k, from) : m <= last
      BY <3>1, Zenon
    <3>. HIDE DEF last
    <3>3. last = l
      BY <2>2, <3>1, <3>2
    <3>. QED  BY <2>1, <2>5, <3>1, <3>3
  <2>. QED  BY <2>4, <2>5
<1>2. a.fixes = [k \in Keys |-> a.fixes[k]]
  BY DEF Holds
<1>3. Build(s, from) = [k \in Keys |-> Build(s, from)[k]]
  BY DEF Build
<1>. QED  BY <1>1, <1>2, <1>3

LEMMA LoopBuilds ==
  ASSUME NEW s \in Seq(Event), NEW from
  PROVE  FoldLeft(Paired, Blank(from), s).fixes = Build(s, from)
<1>1. PICK acc : Runs(acc, s, Blank(from)) /\ FoldLeft(Paired, Blank(from), s) = acc[Len(s)]
  BY LoopRuns
<1>. DEFINE Bad == {j \in 0..Len(s) : ~Holds(acc[j], s, j, from)}
<1>2. Bad = {}
  <2>. SUFFICES ASSUME Bad # {} PROVE FALSE
    OBVIOUS
  <2>0. Len(s) \in Nat
    OBVIOUS
  <2>1. PICK j \in Bad : \A k \in Bad : j <= k
    <3>1. Bad \in SUBSET Nat
      BY <2>0
    <3>. QED  BY <3>1, LeastOf
  <2>2. j # 0
    BY <1>1, <2>1, BlankHolds DEF Runs
  <2>3. j \in 1..Len(s) /\ j - 1 \in 0..Len(s) /\ ~(j <= j - 1)
    BY <2>0, <2>1, <2>2
  <2>4. Holds(acc[j - 1], s, j - 1, from)
    BY <2>1, <2>3
  <2>5. acc[j] = Paired(acc[j - 1], s[j])
    BY <1>1, <2>3 DEF Runs
  <2>. QED  BY <2>1, <2>3, <2>4, <2>5, PairedHolds
<1>3. Len(s) \in 0..Len(s)
  OBVIOUS
<1>4. Holds(acc[Len(s)], s, Len(s), from)
  BY <1>2, <1>3
<1>. QED  BY <1>1, <1>4, HoldsBuild

(* Whatever a reader meets, what Build says of the pairs in it is what the *)
(* loop over it finds.                                                     *)
THEOREM LoopFindsThePairs == Spec => []BuildIsTheLoop
<1>1. TypeInv => BuildIsTheLoop
  BY LoopBuilds DEF TypeInv, LogTypeOK, BuildIsTheLoop
<1>. QED  BY <1>1, TypeInvHolds, PTL

-----------------------------------------------------------------------------
(* The cached index is made of what the files held when the current one    *)
(* was as its stat says. That stat does not come back: an event written    *)
(* makes the file newer, and a new file is empty, where the one before it  *)
(* was not.                                                                *)
Mark == [mtime : Nat, size : Nat]
Marks(p) == {stat[p], sig[p]} \ {None}

Earlier(m) ==
  /\ m.mtime <= written
  /\ file[0] = 0 /\ m.size = 0 => m.mtime < written
  /\ file[0] # 0 => /\ m.mtime <= mtime[file[0]]
                    /\ Len(At(0)) > 0 /\ m.size = 0 => m.mtime < mtime[file[0]]

(* The events of the first n files.                                        *)
First(n) == FlattenSeq([i \in 1..n |-> At(Chronological[i])])

SeenFirst(p) ==
  /\ pc[p] = "read" => seen[p] = First(at[p] - 1)
  /\ pc[p] = "index" /\ stat[p] # None /\ stat[p] = Sig => seen[p] = Retained
Cached(p) == NoneRotates /\ sig[p] # None /\ sig[p] = Sig => fixes[p] = Build(Retained, since[p])

CacheOf(p) == (\A m \in Marks(p) : Earlier(m)) /\ SeenFirst(p) /\ Cached(p)
CacheInv == ~racing => \A p \in Procs : CacheOf(p)
StatInv ==
  /\ stat \in [Procs -> Mark \cup {None}] /\ sig \in [Procs -> Mark \cup {None}]
  /\ \A x \in Inodes : mtime[x] <= written

LEMMA FirstSteps ==
  ASSUME TypeInv
  PROVE  /\ First(0) = <<>> /\ First(BackupCount + 1) = Retained
         /\ \A n \in 0..BackupCount : First(n + 1) = First(n) \o At(BackupCount - n)
<1>1. First(0) = <<>>
  <2>. DEFINE ss == [i \in 1..0 |-> At(Chronological[i])]
  <2>1. ss = <<>>
    OBVIOUS
  <2>. HIDE DEF ss
  <2>2. FlattenSeq(ss) = <<>>
    BY <2>1 DEF FlattenSeq
  <2>. QED  BY <2>2 DEF First, ss
<1>2. ASSUME NEW n \in 0..BackupCount
      PROVE  First(n + 1) = First(n) \o At(BackupCount - n)
  <2>. DEFINE ss == [i \in 1..n + 1 |-> At(Chronological[i])]
              tt == [i \in 1..n |-> At(Chronological[i])]
  <2>1. BackupCount \in Nat /\ n \in Nat /\ n + 1 \in 1..n + 1
    BY Places
  <2>2. \A i \in 1..n + 1 : Chronological[i] = BackupCount + 1 - i
                            /\ BackupCount + 1 - i \in 0..BackupCount
    BY <2>1 DEF Chronological
  <2>3. ss \in [1..n + 1 -> Seq(Event)]
    BY <2>2, SeqsAre
  <2>4. [i \in 1..n |-> ss[i]] = tt
    BY <2>1
  <2>5. ss[n + 1] = At(BackupCount - n)
    <3>1. Chronological[n + 1] = BackupCount - n
      BY <2>1, <2>2
    <3>. QED  BY <2>1, <3>1
  <2>. HIDE DEF ss, tt
  <2>6. FlattenSeq(ss) = FlattenSeq(tt) \o At(BackupCount - n)
    BY <2>1, <2>3, <2>4, <2>5, FlattenNext
  <2>. QED  BY <2>6 DEF First, ss, tt
<1>. QED  BY <1>1, <1>2 DEF First, Retained

LEMMA MarksStay ==
  ASSUME UNCHANGED <<file, body, mtime, written>>
  PROVE  /\ Sig' = Sig /\ Retained' = Retained /\ \A n : First(n)' = First(n)
         /\ \A m : Earlier(m)' <=> Earlier(m)
<1>1. \A i : At(i)' = At(i)
  BY DEF At
<1>2. Sig' = Sig
  BY DEF Sig
<1>3. Retained' = Retained
  BY <1>1, Zenon DEF Retained
<1>4. \A n : First(n)' = First(n)
  BY <1>1, Zenon DEF First
<1>5. \A m : Earlier(m)' <=> Earlier(m)
  BY <1>1 DEF Earlier
<1>. QED  BY <1>2, <1>3, <1>4, <1>5

LEMMA BuildPrimed ==
  ASSUME NEW p \in Procs
  PROVE  Build(Retained, since[p])' = Build(Retained', since'[p])
BY Zenon DEF Build, Mends, Pends, Counts

(* A step of p that leaves the files as they are.                          *)
LEMMA CacheStays ==
  ASSUME \A q \in Procs : CacheOf(q), NEW p \in Procs,
         UNCHANGED <<file, body, mtime, written>>,
         \A q \in Procs \ {p} : /\ pc'[q] = pc[q] /\ at'[q] = at[q] /\ seen'[q] = seen[q]
                                /\ stat'[q] = stat[q] /\ sig'[q] = sig[q]
                                /\ fixes'[q] = fixes[q] /\ since'[q] = since[q],
         NoneRotates' => NoneRotates,
         \A m \in Marks(p)' : Earlier(m), SeenFirst(p)',
         \/ sig'[p] # None /\ sig'[p] = Sig => FALSE
         \/ sig'[p] = sig[p] /\ fixes'[p] = fixes[p] /\ since'[p] = since[p]
         \/ since'[p] = since[p]
            /\ (sig'[p] # None /\ sig'[p] = Sig => fixes'[p] = Build(Retained, since[p]))
  PROVE  \A q \in Procs : CacheOf(q)'
<1>0. /\ Sig' = Sig /\ Retained' = Retained /\ \A n : First(n)' = First(n)
      /\ \A m : Earlier(m)' <=> Earlier(m)
  BY MarksStay
<1>1. CacheOf(p)'
  <2>1. \A m \in Marks(p)' : Earlier(m)'
    BY <1>0
  <2>2. Build(Retained, since[p])' = Build(Retained, since'[p])
    BY <1>0, BuildPrimed
  <2>3. Cached(p)'
    BY <1>0, <2>2 DEF Cached, CacheOf
  <2>. QED  BY <2>1, <2>3 DEF CacheOf
<1>2. ASSUME NEW q \in Procs, q # p PROVE CacheOf(q)'
  <2>0. /\ pc'[q] = pc[q] /\ at'[q] = at[q] /\ seen'[q] = seen[q]
        /\ stat'[q] = stat[q] /\ sig'[q] = sig[q] /\ fixes'[q] = fixes[q] /\ CacheOf(q)
        /\ since'[q] = since[q]
    BY <1>2
  <2>1. \A m \in Marks(q)' : Earlier(m)'
    BY <1>0, <2>0 DEF Marks, CacheOf
  <2>2. Build(Retained, since[q])' = Build(Retained, since[q])
    BY <1>0, <2>0, BuildPrimed
  <2>3. Cached(q)'
    BY <1>0, <2>0, <2>2 DEF Cached, CacheOf
  <2>4. SeenFirst(q)'
    BY <1>0, <2>0 DEF SeenFirst, CacheOf
  <2>. QED  BY <2>1, <2>3, <2>4 DEF CacheOf
<1>. QED  BY <1>1, <1>2

LEMMA LookingCaches ==
  ASSUME TypeInv, \A q \in Procs : CacheOf(q), NEW p \in Procs,
         \/ \E key \in Keys \cup {NoKey, Ok}, fix \in BOOLEAN : Block(p, key, fix)
         \/ Exists(p) \/ Oldest(p) \/ Look(p) \/ Stat(p), ~racing'
  PROVE  \A q \in Procs : CacheOf(q)'
<1>0. pc \in [Procs -> Phases] /\ at \in [Procs -> 0..BackupCount + 1]
  BY Places
<1>1. ASSUME NEW key, NEW fix, Block(p, key, fix)
      PROVE  /\ UNCHANGED <<file, body, mtime, written, at, seen, stat, since, sig, fixes>>
             /\ pc' = [pc EXCEPT ![p] = pc'[p]] /\ pc'[p] \in {"load", "exists"}
             /\ pc[p] = "idle"
  BY <1>0, <1>1 DEF Block, Go
<1>2. ASSUME Exists(p) \/ Oldest(p) \/ Look(p)
      PROVE  /\ UNCHANGED <<file, body, mtime, written, seen, stat, since, sig, fixes>>
             /\ at' = [at EXCEPT ![p] = at'[p]] /\ pc' = [pc EXCEPT ![p] = pc'[p]]
             /\ \/ pc[p] = "exists" /\ pc'[p] \in {"open", "stat"}
                \/ pc'[p] \in Rotating
  <2>1. ASSUME NEW from, NEW to, Asks(p, from, to)
        PROVE  /\ UNCHANGED <<file, body, mtime, written, seen, stat, since, sig, fixes>>
               /\ pc[p] = from /\ pc' = [pc EXCEPT ![p] = to] /\ pc'[p] = to
    BY <1>0, <2>1 DEF Asks, Go, index
  <2>2. at' = [at EXCEPT ![p] = at'[p]]
    BY <1>0, <1>2 DEF Exists, Oldest, Look
  <2>. QED  BY <1>2, <2>1, <2>2 DEF Exists, Oldest, Look, NextBackup, Rotating
<1>3. ASSUME Stat(p)
      PROVE  /\ UNCHANGED <<file, body, mtime, written, at, seen, stat, since, sig, fixes>>
             /\ pc' = [pc EXCEPT ![p] = pc'[p]] /\ pc[p] = "stat"
             /\ pc'[p] \in {"open", "oldest"}
  BY <1>0, <1>3 DEF Stat, GivesUp, Go, index
<1>4. /\ UNCHANGED <<file, body, mtime, written, seen, stat, since, sig, fixes>>
      /\ pc' = [pc EXCEPT ![p] = pc'[p]]
      /\ \A q \in Procs \ {p} : at'[q] = at[q]
      /\ pc'[p] \notin Reading
      /\ pc[p] \notin Rotating \/ pc'[p] \in Rotating
  BY <1>0, <1>1, <1>2, <1>3 DEF Reading, Rotating
<1>5. NoneRotates' => NoneRotates
  BY <1>0, <1>4 DEF NoneRotates
<1>6. SeenFirst(p)'
  BY <1>4 DEF SeenFirst, Reading
<1>7. \A m \in Marks(p)' : Earlier(m)
  BY <1>4 DEF Marks, CacheOf
<1>8. \A q \in Procs \ {p} : pc'[q] = pc[q]
  BY <1>0, <1>4
<1>. QED  BY <1>4, <1>5, <1>6, <1>7, <1>8, CacheStays

LEMMA SigIs ==
  ASSUME TypeInv
  PROVE  /\ Sig \in Mark \cup {None}
         /\ file[0] = 0 => Sig = None
         /\ file[0] # 0 => /\ file[0] \in Inodes /\ At(0) = body[file[0]]
                           /\ mtime[file[0]] \in Nat /\ Len(At(0)) \in Nat
                           /\ Sig = [mtime |-> mtime[file[0]], size |-> Len(At(0))]
<1>1. file[0] \in Inodes \cup {0}
  <2>1. 0 \in 0..BackupCount
    BY Places
  <2>. QED  BY <2>1, Places
<1>2. file[0] # 0 => mtime[file[0]] \in Nat /\ Len(body[file[0]]) \in Nat
  BY <1>1, SeqsAre DEF TypeInv, LogTypeOK
<1>. QED  BY <1>1, <1>2 DEF Sig, At, Mark

LEMMA LoadCaches ==
  ASSUME TypeInv, StatInv, \A q \in Procs : CacheOf(q), NEW p \in Procs, Load(p)
  PROVE  \A q \in Procs : CacheOf(q)'
<1>0. /\ pc \in [Procs -> Phases] /\ at \in [Procs -> 0..BackupCount + 1]
      /\ stat \in [Procs -> Mark \cup {None}] /\ since \in [Procs -> Int]
  BY Places DEF StatInv, TypeInv, LogTypeOK
<1>1. /\ UNCHANGED <<file, body, mtime, written, seen, sig, fixes>> /\ pc[p] = "load"
      /\ \/ pc' = [pc EXCEPT ![p] = "exists"] /\ UNCHANGED <<at, stat, since>>
         \/ /\ pc' = [pc EXCEPT ![p] = "list"] /\ at' = [at EXCEPT ![p] = 1]
            /\ stat' = [stat EXCEPT ![p] = Sig] /\ Sig # None
            /\ since' = [since EXCEPT ![p] = now - Window] /\ Sig # sig[p]
  <2>1. CASE Sig \in {None, sig[p]}
    BY <2>1 DEF Load, Go
  <2>2. CASE Sig \notin {None, sig[p]}
    BY <2>2 DEF Load, Go
  <2>. QED  BY <2>1, <2>2
<1>2. /\ pc'[p] \in {"exists", "list"} /\ stat'[p] \in {stat[p], Sig}
      /\ stat'[p] # stat[p] => Sig # None
      /\ \A q \in Procs \ {p} : /\ pc'[q] = pc[q] /\ at'[q] = at[q] /\ stat'[q] = stat[q]
                                 /\ since'[q] = since[q]
      /\ since'[p] = since[p] \/ Sig # sig[p]
  BY <1>0, <1>1
<1>3. SeenFirst(p)'
  BY <1>2 DEF SeenFirst
<1>4. \A m \in Marks(p)' : Earlier(m)
  <2>1. Sig # None => Earlier(Sig)
    <3>1. ASSUME file[0] # 0
          PROVE  /\ Sig.mtime = mtime[file[0]] /\ Sig.size = Len(At(0))
                 /\ mtime[file[0]] \in Nat /\ mtime[file[0]] <= written
      BY <3>1, SigIs DEF StatInv
    <3>. QED  BY <3>1, SigIs DEF Earlier
  <2>2. \A m \in Marks(p)' : m \in Marks(p) \/ (m = Sig /\ Sig # None)
    BY <1>1, <1>2 DEF Marks
  <2>. QED  BY <2>1, <2>2 DEF CacheOf
<1>5. NoneRotates' => NoneRotates
  BY <1>0, <1>1, <1>2 DEF NoneRotates, Rotating
<1>. QED  BY <1>1, <1>2, <1>3, <1>4, <1>5, CacheStays

LEMMA ListCaches ==
  ASSUME TypeInv, \A q \in Procs : CacheOf(q), NEW p \in Procs, List(p)
  PROVE  \A q \in Procs : CacheOf(q)'
<1>0. /\ pc \in [Procs -> Phases] /\ at \in [Procs -> 0..BackupCount + 1] /\ Phase(p)
  BY Places
<1>1. /\ UNCHANGED <<file, body, mtime, written, seen, stat, since, sig, fixes>> /\ pc[p] = "list"
      /\ pc' = [pc EXCEPT ![p] = pc'[p]] /\ at' = [at EXCEPT ![p] = at'[p]]
      /\ pc'[p] = "list" \/ (pc'[p] = "read" /\ at'[p] = 1)
  BY <1>0 DEF List, Go
<1>2. seen[p] = <<>>
  BY <1>0, <1>1 DEF Phase
<1>3. SeenFirst(p)'
  <2>1. First(0)' = First(0)
    BY <1>1, MarksStay
  <2>2. First(0)' = <<>>
    BY <2>1, FirstSteps
  <2>3. CASE pc'[p] = "read" /\ at'[p] = 1
    <3>1. First(at[p] - 1)' = First(0)'
      BY <2>3
    <3>. QED  BY <1>1, <1>2, <2>2, <2>3, <3>1 DEF SeenFirst
  <2>4. CASE pc'[p] = "list"
    BY <2>4 DEF SeenFirst
  <2>. QED  BY <1>1, <2>3, <2>4
<1>4. NoneRotates' => NoneRotates
  BY <1>0, <1>1 DEF NoneRotates, Rotating
<1>5. \A m \in Marks(p)' : Earlier(m)
  BY <1>1 DEF Marks, CacheOf
<1>6. \A q \in Procs \ {p} : pc'[q] = pc[q] /\ at'[q] = at[q]
  BY <1>0, <1>1
<1>. QED  BY <1>1, <1>3, <1>4, <1>5, <1>6, CacheStays

LEMMA ReadCaches ==
  ASSUME TypeInv, ReadingInv, ~racing, \A q \in Procs : CacheOf(q), NEW p \in Procs, Read(p)
  PROVE  \A q \in Procs : CacheOf(q)'
<1>0. /\ pc \in [Procs -> Phases] /\ at \in [Procs -> 0..BackupCount + 1] /\ Phase(p)
      /\ BackupCount \in Nat /\ seen \in [Procs -> Seq(Event)]
  BY Places, SeqsAre
<1>. DEFINE c == BackupCount + 1 - at[p]
            n == at[p] - 1
<1>1. /\ pc[p] = "read" /\ at[p] \in 1..BackupCount + 1 /\ c \in 0..BackupCount
      /\ Chronological[at[p]] = c /\ n \in 0..BackupCount /\ BackupCount - n = c
      /\ n + 1 = at[p]
  BY <1>0 DEF Read, Phase, Chronological
<1>2. seen[p] = First(n)
  BY <1>1 DEF CacheOf, SeenFirst
<1>3. seen'[p] = First(n + 1)
  <2>1. First(n + 1) = First(n) \o At(c)
    BY <1>1, FirstSteps
  <2>2. c \notin found[p] => At(c) = <<>>
    BY <1>1 DEF ReadingInv, CompleteInv, Found, At
  <2>3. seen[p] \o <<>> = seen[p]
    <3>1. seen[p] \in Seq(Event)
      BY <1>0
    <3>. QED  BY <3>1
  <2>4. seen'[p] = IF c \in found[p] THEN seen[p] \o At(c) ELSE seen[p]
    <3>1. seen' = [seen EXCEPT ![p] = IF c \in found[p] THEN seen[p] \o At(c) ELSE seen[p]]
      BY <1>1 DEF Read
    <3>. QED  BY <1>0, <3>1
  <2>. QED  BY <1>2, <2>1, <2>2, <2>3, <2>4
<1>4. /\ UNCHANGED <<file, body, mtime, written, stat, since, sig, fixes>>
      /\ \/ /\ at[p] <= BackupCount /\ at' = [at EXCEPT ![p] = at[p] + 1] /\ pc' = pc
         \/ /\ at[p] = BackupCount + 1 /\ pc' = [pc EXCEPT ![p] = "index"]
            /\ at' = [at EXCEPT ![p] = 0]
  BY <1>0, <1>1 DEF Read, Go
<1>5. /\ \A q \in Procs \ {p} : pc'[q] = pc[q] /\ at'[q] = at[q] /\ seen'[q] = seen[q]
      /\ \/ pc'[p] = "read" /\ at'[p] = n + 2
         \/ pc'[p] = "index" /\ n + 1 = BackupCount + 1
  <2>1. \A q \in Procs \ {p} : seen'[q] = seen[q]
    <3>1. seen' = [seen EXCEPT ![p] = IF Chronological[at[p]] \in found[p]
                                       THEN @ \o At(Chronological[at[p]]) ELSE @]
      BY DEF Read
    <3>. QED  BY <1>0, <3>1
  <2>. QED  BY <1>0, <1>1, <1>4, <2>1
<1>6. SeenFirst(p)'
  <2>1. Retained' = Retained
    BY <1>4, MarksStay
  <2>2. CASE pc'[p] = "read" /\ at'[p] = n + 2
    <3>1. at'[p] - 1 = n + 1
      BY <1>1, <2>2
    <3>2. \A k : First(k)' = First(k)
      BY <1>4, MarksStay
    <3>3. First(at[p] - 1)' = First(n + 1)
      BY <3>1, <3>2
    <3>. QED  BY <1>3, <2>2, <3>3 DEF SeenFirst
  <2>3. CASE pc'[p] = "index" /\ n + 1 = BackupCount + 1
    BY <1>3, <2>1, <2>3, FirstSteps DEF SeenFirst
  <2>. QED  BY <1>5, <2>2, <2>3
<1>7. NoneRotates' => NoneRotates
  BY <1>0, <1>1, <1>5 DEF NoneRotates, Rotating
<1>8. \A m \in Marks(p)' : Earlier(m)
  BY <1>4 DEF Marks, CacheOf
<1>. QED  BY <1>4, <1>5, <1>6, <1>7, <1>8, CacheStays

LEMMA IndexCaches ==
  ASSUME TypeInv, StatInv, MendInv, \A q \in Procs : CacheOf(q), NEW p \in Procs, Index(p)
  PROVE  \A q \in Procs : CacheOf(q)'
<1>0. /\ pc \in [Procs -> Phases] /\ seen \in [Procs -> Seq(Event)]
      /\ stat \in [Procs -> Mark \cup {None}] /\ sig \in [Procs -> Mark \cup {None}]
      /\ fixes \in [Procs -> [Keys -> Fix \cup {None}]]
  BY Places, SeqsAre DEF StatInv, MendInv
<1>1. /\ UNCHANGED <<file, body, mtime, written, at, since>> /\ pc[p] = "index"
      /\ pc' = [pc EXCEPT ![p] = "exists"] /\ seen' = [seen EXCEPT ![p] = <<>>]
      /\ stat' = [stat EXCEPT ![p] = None] /\ sig' = [sig EXCEPT ![p] = stat[p]]
      /\ fixes' = [fixes EXCEPT ![p] = Build(seen[p], since[p])]
  BY DEF Index, Indexed, Go
<1>2. /\ pc'[p] = "exists" /\ stat'[p] = None /\ sig'[p] = stat[p]
      /\ fixes'[p] = Build(seen[p], since[p])
      /\ \A q \in Procs \ {p} : /\ pc'[q] = pc[q] /\ seen'[q] = seen[q] /\ stat'[q] = stat[q]
                                 /\ sig'[q] = sig[q] /\ fixes'[q] = fixes[q]
  BY <1>0, <1>1
<1>3. SeenFirst(p)'
  BY <1>2 DEF SeenFirst
<1>4. sig'[p] # None /\ sig'[p] = Sig => fixes'[p] = Build(Retained, since[p])
  BY <1>1, <1>2 DEF CacheOf, SeenFirst
<1>5. NoneRotates' => NoneRotates
  BY <1>0, <1>1, <1>2 DEF NoneRotates, Rotating
<1>6. \A m \in Marks(p)' : Earlier(m)
  BY <1>2 DEF Marks, CacheOf
<1>. QED  BY <1>1, <1>2, <1>3, <1>4, <1>5, <1>6, CacheStays

LEMMA EarlierMoves ==
  ASSUME TypeInv, StatInv, Full(0), UNCHANGED <<body, mtime, written>>,
         file'[0] = file[0] \/ file'[0] = 0,
         NEW m \in Mark, Earlier(m)
  PROVE  Earlier(m)'
<1>1. m.mtime \in Nat /\ m.size \in Nat /\ written \in Nat
  BY DEF Mark, TypeInv, LogTypeOK
<1>2. CASE file'[0] = file[0]
  <2>1. At(0)' = At(0)
    BY <1>2 DEF At
  <2>. QED  BY <1>2, <2>1 DEF Earlier
<1>3. CASE file'[0] = 0
  <2>1. Len(At(0)) > 0 /\ file[0] # 0
    BY SigIs, Places DEF Full
  <2>2. mtime[file[0]] \in Nat /\ mtime[file[0]] <= written
    BY <2>1, SigIs DEF StatInv
  <2>. QED  BY <1>1, <1>3, <2>1, <2>2 DEF Earlier
<1>. QED  BY <1>2, <1>3

LEMMA RotationCaches ==
  ASSUME TypeInv, TypeInv', StatInv, RotationInv, \A q \in Procs : CacheOf(q),
         NEW p \in Procs, ~racing',
         Unlink(p) \/ Move(p) \/ MoveCurrent(p)
  PROVE  \A q \in Procs : CacheOf(q)'
<1>0. /\ pc \in [Procs -> Phases] /\ BackupCount \in Nat /\ BackupCount # 0
      /\ file \in [0..BackupCount -> Inodes \cup {0}]
      /\ stat \in [Procs -> Mark \cup {None}] /\ sig \in [Procs -> Mark \cup {None}]
  BY Places DEF StatInv
<1>1. Alone(p) /\ UNCHANGED <<mtime, written, stat, sig, fixes, seen>>
  <2>1. UNCHANGED <<mtime, written, stat, sig, fixes, seen>>
    BY DEF Unlink, Move, MoveCurrent, index
  <2>. QED  BY <2>1, MovesAlone, UnlinksAlone
<1>2. pc[p] \in Rotating /\ Full(0)
  <2>1. pc[p] \in Rotating
    BY DEF Unlink, Move, MoveCurrent, Rotating
  <2>. QED  BY <1>1, <2>1 DEF Alone, RotationInv, FullInv
<1>3. file'[0] = file[0] \/ file'[0] = 0
  <2>1. CASE file' = [file EXCEPT ![BackupCount] = 0]
    BY <1>0, <2>1
  <2>2. ASSUME NEW a \in 0..BackupCount - 1, file' = Renamed(a)
        PROVE  file'[0] = file[0] \/ file'[0] = 0
    BY <1>0, <2>2 DEF Renamed
  <2>. QED  BY <2>1, <2>2, MovesAlone, UnlinksAlone
<1>4. pc'[p] \in Rotating \/ file'[0] = 0
  <2>1. CASE Unlink(p)
    BY <1>0, <1>1, <2>1 DEF Unlink, GivesUp, Go, Alone, Rotating
  <2>2. CASE Move(p)
    BY <1>0, <1>1, <2>2 DEF Move, GivesUp, Go, Alone, NextBackup, Rotating
  <2>3. CASE MoveCurrent(p)
    <3>1. file' = Renamed(0)
      BY <2>3, Zenon DEF MoveCurrent, GivesUp, Moved
    <3>. QED  BY <1>0, <3>1 DEF Renamed
  <2>. QED  BY <2>1, <2>2, <2>3
<1>5. ASSUME NEW q \in Procs PROVE CacheOf(q)'
  <2>1. \A m \in Marks(q)' : Earlier(m)'
    <3>1. \A m \in Marks(q) : m \in Mark /\ Earlier(m)
      BY <1>0 DEF Marks, CacheOf
    <3>2. Marks(q)' = Marks(q)
      BY <1>1 DEF Marks
    <3>. QED  BY <1>1, <1>2, <1>3, <3>1, <3>2, EarlierMoves DEF Alone
  <2>2. SeenFirst(q)'
    BY <1>1 DEF Alone, SeenFirst, Reading
  <2>3. Cached(q)'
    <3>1. CASE pc'[p] \in Rotating
      BY <3>1 DEF Cached, NoneRotates
    <3>2. CASE file'[0] = 0
      <4>1. Sig' = None
        BY <3>2 DEF Sig
      <4>. QED  BY <4>1 DEF Cached
    <3>. QED  BY <1>4, <3>1, <3>2
  <2>. QED  BY <2>1, <2>2, <2>3 DEF CacheOf
<1>. QED  BY <1>5

LEMMA OpenCaches ==
  ASSUME TypeInv, TypeInv', StatInv, ReadingInv, ~racing, \A q \in Procs : CacheOf(q),
         NEW p \in Procs, Open(p)
  PROVE  \A q \in Procs : CacheOf(q)'
<1>0. /\ BackupCount \in Nat /\ 0 \in 0..BackupCount /\ 0 \notin Inodes
      /\ pc \in [Procs -> Phases] /\ file \in [0..BackupCount -> Inodes \cup {0}]
      /\ body \in [Inodes -> Seq(Event)] /\ mtime \in [Inodes -> Nat]
      /\ stat \in [Procs -> Mark \cup {None}] /\ sig \in [Procs -> Mark \cup {None}]
      /\ written \in Nat
  <2>1. /\ BackupCount \in Nat /\ 0 \in 0..BackupCount /\ 0 \notin Inodes
        /\ pc \in [Procs -> Phases] /\ file \in [0..BackupCount -> Inodes \cup {0}]
    BY Places DEF Inodes
  <2>2. /\ body \in [Inodes -> Seq(Event)] /\ mtime \in [Inodes -> Nat]
        /\ written \in Nat
    BY DEF TypeInv, LogTypeOK
  <2>3. stat \in [Procs -> Mark \cup {None}] /\ sig \in [Procs -> Mark \cup {None}]
    BY DEF StatInv
  <2>. QED  BY <2>1, <2>2, <2>3
<1>1. PICK x \in Inodes :
        /\ file' = [file EXCEPT ![0] = x]
        /\ file[0] # 0 => x = file[0] /\ body' = body /\ mtime' = mtime
        /\ file[0] = 0 => /\ body' = [body EXCEPT ![x] = <<>>]
                          /\ mtime' = [mtime EXCEPT ![x] = written]
  BY OpenSteps DEF TypeInv
<1>2. /\ UNCHANGED <<at, written, seen, stat, since, sig, fixes>> /\ pc[p] = "open"
      /\ pc'[p] = "write" /\ \A q \in Procs \ {p} : pc'[q] = pc[q]
  BY <1>0 DEF Open, Go, index
<1>3. CASE file[0] # 0
  <2>1. UNCHANGED <<file, body, mtime, written>>
    BY <1>0, <1>1, <1>2, <1>3
  <2>2. NoneRotates' => NoneRotates
    BY <1>2 DEF NoneRotates, Rotating
  <2>3. SeenFirst(p)' /\ \A m \in Marks(p)' : Earlier(m)
    BY <1>2 DEF SeenFirst, Marks, CacheOf
  <2>. QED  BY <1>2, <2>1, <2>2, <2>3, CacheStays
<1>4. CASE file[0] = 0
  <2>1. /\ file'[0] = x /\ x # 0 /\ mtime'[x] = written /\ body'[x] = <<>>
        /\ At(0)' = <<>> /\ Sig' = [mtime |-> written, size |-> 0]
    <3>1. file'[0] = x /\ x # 0 /\ mtime'[x] = written /\ body'[x] = <<>>
      BY <1>0, <1>1, <1>4
    <3>. QED  BY <3>1 DEF At, Sig
  <2>2. ASSUME NEW q \in Procs PROVE CacheOf(q)'
    <3>1. ASSUME NEW m \in Marks(q)' PROVE Earlier(m)' /\ m # Sig'
      <4>1. m \in Mark /\ Earlier(m)
        BY <1>0, <1>2 DEF Marks, CacheOf
      <4>2. m.mtime \in Nat /\ m.size \in Nat /\ m.mtime <= written
            /\ (m.size = 0 => m.mtime < written)
        BY <1>4, <4>1 DEF Earlier, Mark
      <4>3. m # Sig'
        BY <1>0, <2>1, <4>2
      <4>4. Earlier(m)'
        BY <1>0, <1>2, <2>1, <4>2 DEF Earlier
      <4>. QED  BY <4>3, <4>4
    <3>2. pc'[q] # "read"
      BY <1>2, <1>4 DEF ReadingInv, CompleteInv, Found
    <3>3. SeenFirst(q)' /\ Cached(q)'
      BY <3>1, <3>2 DEF SeenFirst, Cached, Marks
    <3>. QED  BY <3>1, <3>3 DEF CacheOf
  <2>. QED  BY <2>2
<1>. QED  BY <1>3, <1>4

LEMMA WriteCaches ==
  ASSUME TypeInv, TypeInv', StatInv, ~racing', \A q \in Procs : CacheOf(q),
         NEW p \in Procs, Write(p)
  PROVE  \A q \in Procs : CacheOf(q)'
<1>0. /\ BackupCount \in Nat /\ 0 \in 0..BackupCount /\ 0 \notin Inodes
      /\ pc \in [Procs -> Phases] /\ file \in [0..BackupCount -> Inodes \cup {0}]
      /\ body \in [Inodes -> Seq(Event)] /\ mtime \in [Inodes -> Nat]
      /\ stat \in [Procs -> Mark \cup {None}] /\ sig \in [Procs -> Mark \cup {None}]
      /\ written \in Nat
      /\ \A i, j \in 0..BackupCount : i # j /\ file[i] # 0 => file[i] # file[j]
  <2>1. /\ BackupCount \in Nat /\ 0 \in 0..BackupCount /\ 0 \notin Inodes
        /\ pc \in [Procs -> Phases] /\ file \in [0..BackupCount -> Inodes \cup {0}]
    BY Places DEF Inodes
  <2>2. /\ body \in [Inodes -> Seq(Event)] /\ mtime \in [Inodes -> Nat]
        /\ written \in Nat
    BY DEF TypeInv, LogTypeOK
  <2>3. stat \in [Procs -> Mark \cup {None}] /\ sig \in [Procs -> Mark \cup {None}]
    BY DEF StatInv
  <2>4. \A i, j \in 0..BackupCount : i # j /\ file[i] # 0 => file[i] # file[j]
    BY DEF TypeInv, LogTypeOK
  <2>. QED  BY <2>1, <2>2, <2>3, <2>4
<1>1. PICK e \in Event :
        /\ handle[p] \in Inodes /\ pc[p] = "write"
        /\ body' = [body EXCEPT ![handle[p]] = Append(body[handle[p]], e)]
        /\ pc' = [pc EXCEPT ![p] = "idle"]
        /\ UNCHANGED <<file, at, found, seen, blocks>>
  BY WriteSteps
<1>2. /\ handle[p] = file[0]
      /\ mtime' = [mtime EXCEPT ![handle[p]] = written + 1] /\ written' = written + 1
      /\ UNCHANGED <<stat, since, sig, fixes>>
  BY Zenon DEF Write, index
<1>3. /\ pc'[p] = "idle" /\ \A q \in Procs \ {p} : pc'[q] = pc[q]
      /\ file'[0] # 0 /\ mtime'[file'[0]] = written + 1
      /\ Sig' = [mtime |-> written + 1, size |-> Len(body'[file[0]])]
  <2>1. /\ pc'[p] = "idle" /\ \A q \in Procs \ {p} : pc'[q] = pc[q]
        /\ file'[0] # 0 /\ file'[0] = file[0] /\ mtime'[file'[0]] = written + 1
    BY <1>0, <1>1, <1>2
  <2>. QED  BY <2>1 DEF Sig
<1>4. ASSUME NEW q \in Procs PROVE CacheOf(q)'
  <2>1. ASSUME NEW m \in Marks(q)' PROVE Earlier(m)' /\ m # Sig'
    <3>1. m \in Mark /\ Earlier(m)
      BY <1>0, <1>2 DEF Marks, CacheOf
    <3>2. m.mtime \in Nat /\ m.size \in Nat /\ m.mtime <= written
      BY <3>1 DEF Earlier, Mark
    <3>3. m # Sig'
      BY <1>0, <1>3, <3>2
    <3>4. Earlier(m)'
      BY <1>0, <1>2, <1>3, <3>2 DEF Earlier
    <3>. QED  BY <3>3, <3>4
  <2>2. SeenFirst(q)'
    <3>1. CASE pc[q] = "read" /\ q # p
      <4>. DEFINE n == at[q] - 1
      <4>1. at[q] \in 1..BackupCount + 1 /\ n \in 0..BackupCount /\ seen[q] = First(n)
        BY <3>1, Places DEF Phase, CacheOf, SeenFirst
      <4>2. \A i \in 1..n : At(Chronological[i])' = At(Chronological[i])
        <5>. TAKE i \in 1..n
        <5>. DEFINE c == BackupCount + 1 - i
        <5>1. c \in 1..BackupCount /\ c \in 0..BackupCount /\ Chronological[i] = c
          BY <1>0, <4>1 DEF Chronological
        <5>2. file[c] # 0 => file[c] \in Inodes /\ file[c] # handle[p]
          <6>1. file[c] # 0 => file[c] # file[0]
            BY <1>0, <5>1
          <6>2. file[c] \in Inodes \cup {0}
            BY <1>0, <5>1
          <6>. QED  BY <1>2, <6>1, <6>2
        <5>3. file[c] # 0 => body'[file[c]] = body[file[c]]
          BY <1>0, <1>1, <5>2
        <5>4. file' = file
          BY <1>1
        <5>. QED  BY <5>1, <5>3, <5>4 DEF At
      <4>3. First(n)' = First(n)
        BY <1>1, <4>2, Zenon DEF First
      <4>. QED  BY <1>1, <1>3, <3>1, <4>1, <4>3 DEF SeenFirst
    <3>2. CASE ~(pc[q] = "read" /\ q # p)
      BY <1>3, <2>1, <3>2 DEF SeenFirst, Marks
    <3>. QED  BY <3>1, <3>2
  <2>3. Cached(q)'
    BY <2>1 DEF Cached, Marks
  <2>. QED  BY <2>1, <2>2, <2>3 DEF CacheOf
<1>. QED  BY <1>4

LEMMA StepCache ==
  TypeInv /\ TypeInv' /\ StatInv /\ RotationInv /\ ReadingInv /\ MendInv /\ CacheInv
    /\ [Next]_vars => CacheInv'
<1>. SUFFICES ASSUME TypeInv, TypeInv', StatInv, RotationInv, ReadingInv, MendInv, CacheInv,
                     [Next]_vars, ~racing'
              PROVE  \A q \in Procs : CacheOf(q)'
  BY DEF CacheInv
<1>0. ~racing /\ \A q \in Procs : CacheOf(q)
  BY RacingStays DEF CacheInv
<1>1. CASE UNCHANGED vars
  <2>1. /\ UNCHANGED <<file, body, mtime, written>>
        /\ UNCHANGED <<pc, at, seen, stat, since, sig, fixes>>
    BY <1>1 DEF vars
  <2>2. NoneRotates' => NoneRotates
    BY <2>1 DEF NoneRotates
  <2>3. ASSUME NEW p \in Procs PROVE (\A m \in Marks(p)' : Earlier(m)) /\ SeenFirst(p)'
    <3>1. Sig' = Sig /\ Retained' = Retained /\ \A n : First(n)' = First(n)
      BY <2>1, MarksStay
    <3>2. SeenFirst(p) /\ \A m \in Marks(p) : Earlier(m)
      BY <1>0 DEF CacheOf
    <3>. QED  BY <2>1, <3>1, <3>2 DEF SeenFirst, Marks
  <2>4. ASSUME NEW p \in Procs PROVE \A q \in Procs : CacheOf(q)'
    BY <1>0, <2>1, <2>2, <2>3, CacheStays
  <2>. QED  BY <2>4
<1>2. ASSUME NEW p \in Procs,
             \/ \E key \in Keys \cup {NoKey, Ok}, fix \in BOOLEAN : Block(p, key, fix)
             \/ Exists(p) \/ Oldest(p) \/ Look(p) \/ Stat(p)
      PROVE  \A q \in Procs : CacheOf(q)'
  BY <1>0, <1>2, LookingCaches
<1>3. ASSUME NEW p \in Procs, Load(p) PROVE \A q \in Procs : CacheOf(q)'
  BY <1>0, <1>3, LoadCaches
<1>4. ASSUME NEW p \in Procs, List(p) PROVE \A q \in Procs : CacheOf(q)'
  BY <1>0, <1>4, ListCaches
<1>5. ASSUME NEW p \in Procs, Read(p) PROVE \A q \in Procs : CacheOf(q)'
  BY <1>0, <1>5, ReadCaches
<1>6. ASSUME NEW p \in Procs, Index(p) PROVE \A q \in Procs : CacheOf(q)'
  BY <1>0, <1>6, IndexCaches
<1>7. ASSUME NEW p \in Procs, Unlink(p) \/ Move(p) \/ MoveCurrent(p)
      PROVE  \A q \in Procs : CacheOf(q)'
  BY <1>0, <1>7, RotationCaches
<1>8. ASSUME NEW p \in Procs, Open(p) PROVE \A q \in Procs : CacheOf(q)'
  BY <1>0, <1>8, OpenCaches
<1>9. ASSUME NEW p \in Procs, Write(p) PROVE \A q \in Procs : CacheOf(q)'
  BY <1>0, <1>9, WriteCaches
<1>. QED  BY <1>1, <1>2, <1>3, <1>4, <1>5, <1>6, <1>7, <1>8, <1>9 DEF Next

LEMMA StepStat == TypeInv /\ TypeInv' /\ StatInv /\ [Next]_vars => StatInv'
<1>. SUFFICES ASSUME TypeInv, TypeInv', StatInv, [Next]_vars PROVE StatInv'
  OBVIOUS
<1>0. /\ stat \in [Procs -> Mark \cup {None}] /\ sig \in [Procs -> Mark \cup {None}]
      /\ written \in Nat /\ \A x \in Inodes : mtime[x] <= written
      /\ mtime \in [Inodes -> Nat]
  BY DEF StatInv, TypeInv, LogTypeOK
<1>1. ASSUME UNCHANGED <<stat, sig, mtime, written>> PROVE StatInv'
  BY <1>0, <1>1 DEF StatInv
<1>2. CASE UNCHANGED vars
  BY <1>1, <1>2 DEF vars
<1>3. ASSUME NEW p \in Procs, NEW key, NEW fix, Block(p, key, fix) PROVE StatInv'
  BY <1>1, <1>3 DEF Block
<1>4. ASSUME NEW p \in Procs, Load(p) PROVE StatInv'
  <2>1. UNCHANGED <<sig, mtime, written>>
        /\ (stat' = stat \/ stat' = [stat EXCEPT ![p] = Sig])
    BY <1>4 DEF Load
  <2>2. stat' \in [Procs -> Mark \cup {None}]
    BY <1>0, <2>1, SigIs
  <2>. QED  BY <1>0, <2>1, <2>2 DEF StatInv
<1>5. ASSUME NEW p \in Procs, List(p) \/ Read(p) PROVE StatInv'
  BY <1>1, <1>5 DEF List, Read
<1>6. ASSUME NEW p \in Procs, Index(p) PROVE StatInv'
  <2>1. /\ UNCHANGED <<mtime, written>>
        /\ sig' = [sig EXCEPT ![p] = stat[p]] /\ stat' = [stat EXCEPT ![p] = None]
    BY <1>6 DEF Index, Indexed
  <2>. QED  BY <1>0, <2>1 DEF StatInv
<1>7. ASSUME NEW p \in Procs, Exists(p) \/ Oldest(p) \/ Look(p) PROVE StatInv'
  BY <1>1, <1>7 DEF Exists, Oldest, Look, Asks, index
<1>8. ASSUME NEW p \in Procs, Stat(p) \/ Unlink(p) \/ Move(p) \/ MoveCurrent(p)
      PROVE  StatInv'
  BY <1>1, <1>8 DEF Stat, Unlink, Move, MoveCurrent, index
<1>9. ASSUME NEW p \in Procs, Open(p) PROVE StatInv'
  <2>1. UNCHANGED <<stat, sig, written>>
    BY <1>9 DEF Open, index
  <2>2. PICK x \in Inodes : mtime' = mtime \/ mtime' = [mtime EXCEPT ![x] = written]
    BY <1>9, OpenSteps DEF TypeInv
  <2>3. \A y \in Inodes : mtime'[y] <= written'
    BY <1>0, <2>1, <2>2
  <2>. QED  BY <1>0, <2>1, <2>3 DEF StatInv
<1>10. ASSUME NEW p \in Procs, Write(p) PROVE StatInv'
  <2>1. UNCHANGED <<stat, sig>> /\ written' = written + 1
        /\ mtime' = [mtime EXCEPT ![handle[p]] = written + 1]
    BY <1>10 DEF Write, index
  <2>2. \A y \in Inodes : mtime'[y] <= written'
    BY <1>0, <2>1
  <2>. QED  BY <1>0, <2>1, <2>2 DEF StatInv
<1>. QED  BY <1>2, <1>3, <1>4, <1>5, <1>6, <1>7, <1>8, <1>9, <1>10 DEF Next

LEMMA InitCache == Init => StatInv /\ CacheInv
<1>. SUFFICES ASSUME Init PROVE StatInv /\ CacheInv
  OBVIOUS
<1>1. /\ \A p \in Procs : stat[p] = None /\ sig[p] = None /\ pc[p] = "idle"
      /\ stat \in [Procs -> Mark \cup {None}] /\ sig \in [Procs -> Mark \cup {None}]
      /\ \A x \in Inodes : mtime[x] = 0
  BY DEF Init
<1>2. written \in Nat
  BY InitTypes DEF TypeInv, LogTypeOK
<1>3. \A p \in Procs : CacheOf(p)
  BY <1>1 DEF CacheOf, Marks, SeenFirst, Cached
<1>. QED  BY <1>1, <1>2, <1>3 DEF StatInv, CacheInv

(* Unless a rotation met another process, and once it is over: an index    *)
(* under whose stat the file still is says what a new reading of all files *)
(* would say that leaves out the events it left out. Only its window stays *)
(* where it was.                                                           *)
THEOREM IndexStaysCurrent == Spec => []IndexIsCurrent
<1>. DEFINE Inv == /\ TypeInv /\ PastInv /\ OrderInv /\ RotationInv
                   /\ GenuineInv /\ AskingInv /\ ReadingInv /\ AgedInv /\ MendInv
                   /\ StatInv /\ CacheInv
<1>1. Init => Inv
  BY InitTypes, InitOrder, InitRotation, InitGenuine, InitReading, InitAged, InitMend,
     InitCache
<1>2. Inv /\ [Next]_vars => Inv'
  BY StepTypes, StepPast, StepOrder, StepRotation, StepGenuine, StepAsking, StepReading,
     StepAged, StepMend, StepStat, StepCache
<1>3. Inv => IndexIsCurrent
  BY DEF CacheInv, CacheOf, Cached, IndexIsCurrent
<1>. QED  BY <1>1, <1>2, <1>3, PTL DEF Spec
=============================================================================
