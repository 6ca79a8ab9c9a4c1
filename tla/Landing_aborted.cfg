\* Two heads and two bases for a PR of its own; stacks of up to three slices; two
\* changes by others at any moment.
SPECIFICATION LandSpec
CONSTANTS
  None = None
  Commits = {c1, c2}
  Bases = {b1, b2}
  Width = 2
  N = 3
  MaxDrift = 2
  MaxAborts = 1
INVARIANT AcceptedIsReported
CHECK_DEADLOCK FALSE
