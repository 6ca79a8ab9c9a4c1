\* Three seats, the fewest that can outvote a finding, and one that raises findings:
\* the ledger treats each finding on its own.
SPECIFICATION Spec
CONSTANTS
  Seats = {A, B, C}
  Raisers = {A}
  MaxRounds = 1
  MaxNumber = 2
  MaxEdits = 1
  MaxThrows = 1
  NoPlan = NoPlan
  NoReply = NoReply
PROPERTIES ProgressPersists
CHECK_DEADLOCK FALSE
