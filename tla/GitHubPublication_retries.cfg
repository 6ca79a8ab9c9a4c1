SPECIFICATION FairSpec
CONSTANTS
  N = 2
  Ready = TRUE
  OtherCommits = {"c1", "c2"}
  MaxDrift = 1
  MaxAborts = 1
INVARIANTS TypeOK OutcomeIsHonest
PROPERTIES NoUnseenWorkIsReplaced RetriesConverge
CHECK_DEADLOCK FALSE
