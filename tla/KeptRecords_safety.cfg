SPECIFICATION KeptSpec
CONSTANTS
  s1 = s1
  p1 = p1
  a1 = a1
  k1 = k1
  k2 = k2
  w1 = w1
  w2 = w2
  A = A
  B = B
  m1 = m1
  m2 = m2
  lo = lo
  hi = hi
  Sessions <- OneSession
  NThreads = 1
  MaxVersion = 1
  MaxHead = 1
  MaxReopens = 1
  MaxRuns = 2
  MaxCrashes = 1
  MaxCycles = 2
  MaxPending = 1
  Procs <- OneProcess
  MaxText = 3
  MaxDeaths = 2
  NoFile = NoFile
  Parents <- TwoProcesses
  MaxChildren = 2
  Cap = 1
  MaxLeaseFaults = 2
  Subagents <- OneSubagent
  Calls <- TwoCalls
  MaxWrites = 3
  Processes <- TwoProcesses
  MaxGenerations = 2
  MaxLines = 2
  MaxTotal = 2
  Retention = 0
  MaxAttempts = 2
  MaxTime = 1
  MaxFaults = 1
  Seats <- TwoSeats
  MaxPanes = 2
  MaxHuman = 1
  MaxMishaps = 1
  Models <- TwoModels
  Efforts <- TwoEfforts
  NoChoice = NoChoice
  MaxEntries = 2
  MaxRuntimes = 2
  MaxOthers = 1
  ShownChildren <- TwoRows
  Talkers = {1}
  Heights = {5}
  MaxBytes = 3
  MaxShown = 2
  MaxTail = 2
  MaxEvents = 3
  MaxResizes = 1
  ToolCalls <- TwoCallsInOrder
  OtherRuns = {3}
  MaxTasks <- TasksPerCall
  MaxTurns = 1
  MaxShutdowns = 1
  Requests <- TwoRequests
  MaxGen = 4
  MaxCuts = 1
INVARIANTS KeptTypeOK NothingIsDoneTwice CorruptStateBlocksMutation RecordsMatchTheirSources
PROPERTIES ResolvesOnlyAnswered NeededIsNeverLost
CHECK_DEADLOCK FALSE
