SPECIFICATION Spec
CONSTANTS
  a1 = a1
  a2 = a2
  a3 = a3
  p1 = p1
  p2 = p2
  p3 = p3
  Attempts <- MCAttempts
  Pids <- MCPids
  ProcessOf <- OwnProcesses
  NoFile = NoFile
  Unsafe = Unsafe
  Corrupt = Corrupt
INVARIANT HolderKeepsItsFile
SYMMETRY Swaps
