SPECIFICATION FairSpec
CONSTANTS
  a1 = a1
  a2 = a2
  a3 = a3
  p1 = p1
  p2 = p2
  p3 = p3
  Attempts <- TwoAttempts
  Pids <- TwoPids
  ProcessOf <- TwoProcesses
  NoFile = NoFile
  Unsafe = Unsafe
  Corrupt = Corrupt
INVARIANTS TypeOK HolderKeepsItsFile
PROPERTIES OnlyStaleLocksAreReaped ImplementsMutex StaleLockIsReclaimed
