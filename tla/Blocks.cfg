\* Two children, or an in-process server and a child; a call of each is
\* enough to lose an update and to demote, two blocks for a timer to outlive one.
CONSTANTS
  p = p
  q = q
  Servers = {p, q}
  Modes <- MCModes
  NoOne = NoOne
  MinUses = 2
  MaxBlocks = 2
  MaxCalls = 1
SPECIFICATION FairSpec
INVARIANTS OutcomesExact EventsAreOutcomes AlarmOfThisBlock
PROPERTY BlocksEnd
\* The servers stop after their blocks.
CHECK_DEADLOCK FALSE
