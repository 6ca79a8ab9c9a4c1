\* Two heads and two bases for a PR of its own; stacks of up to three slices to land,
\* two to publish; lines of three changes with two bookmarks, of which an inspection
\* takes two changes; three pull requests whose navigation comments are reconciled
\* twice.
SPECIFICATION StacksSpec
CONSTANTS
  None = None
  Commits = {c1, c2}
  Bases = {b1, b2}
  N = 3
  MaxDrift = 2
  MaxAborts = 1
  ReadyForReview = TRUE
  Width = 2
  MaxEvents = 1
  MaxMoves = 2
  Refs = {"a", "b"}
  MaxLine = 3
  MaxStack = 2
  MaxPr = 3
  MaxOthers = 1
  MaxRounds = 2
INVARIANTS StacksTypeOK OnlyTheReviewedHeadMerges MergesIntoItsTarget ReportsAreTrue PublishedIsTheStack
PROPERTIES StackStaysWhole OthersWorkSurvives AbandonsOnlyAfterMerge
CHECK_DEADLOCK FALSE
