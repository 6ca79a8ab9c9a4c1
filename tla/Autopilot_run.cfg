SPECIFICATION AutopilotSpec
CONSTANTS
  Modes = {"check", "threads", "drive"}
  MaxHead = 1
  MaxChanges = 3
  DriveCycles = 2
  PollLimit = 1
  MaxRequests = 2
  MaxMoves = 2
INVARIANTS AutopilotTypeOK VerdictsAreTrue
PROPERTIES BranchesSurvive AutopilotRunEnds
CHECK_DEADLOCK FALSE
