\* A send and a call that takes the lock or clears the cursor, an asset operation
\* and a read; one of three outpoints in a settled batch; one restart, one
\* initialization at any time, one failing request.
SPECIFICATION FairSpec
CONSTANTS
  c1 = c1  c2 = c2  c3 = c3  a = a  b = b  Boot = boot
  Coins = {c1, c2, c3}
  Calls = {a, b}
  Leaves = {c1}
  Kinds <- SendBeside
  MaxCrashes = 1
  MaxLost = 1
  MaxStarts = 1
INVARIANTS FlagCoversPending Repairable OwnSyncSuffices
PROPERTY CallsEnd
CHECK_DEADLOCK FALSE
