CONSTANTS
  Procs = {p, q}
  Keys = {k}
  NoPastFix = {}
  NoKey = NoKey
  Ok = Ok
  None = None
  MaxBytes = 2
  BackupCount = 2
  Window = 2
  Pace = {1}
  MaxEvents = 4
SPECIFICATION Spec
SYMMETRY Symmetry
INVARIANTS FilesBounded ReadsInOrder HintIsItsFix BuildIsTheLoop IndexIsCurrent
PROPERTY HistoryKept
\* Every block has run.
CHECK_DEADLOCK FALSE
