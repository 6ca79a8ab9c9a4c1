SPECIFICATION SessionSpec
CONSTANTS
  MaxAsks = 2
  MaxHuman = 1
  MaxStarts = 3
  MaxAgents = 3
  Limit = 2
  Unit = 12
  MaxRetries = 1
  MaxFaults = 1
INVARIANTS SessionTypeOK AnswersItsRequest PanesAreTheHosts StoppedIsGone
PROPERTIES AllReturn
CHECK_DEADLOCK FALSE
