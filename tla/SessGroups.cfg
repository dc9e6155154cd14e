\* The first process of a job is reaped, its slot is a session.
CONSTANTS
  MaxTask = 5
  MaxImage = 6
  MaxUnit = 2
  MaxTerm = 2
  Windows = {w1, w2}
  Starts = 2
  Presses = 1
  Forks = 2
  Jobs = {"pipe"}
  Scene = {}
SPECIFICATION Spec
INVARIANT GroupsApart
SYMMETRY Symmetry
\* All may end.
CHECK_DEADLOCK FALSE
