\* A login starts while the first one boots.
CONSTANTS
  MaxTask = 5
  MaxImage = 6
  MaxUnit = 2
  MaxTerm = 2
  Windows = {w1, w2}
  Starts = 3
  Presses = 0
  Forks = 0
  Jobs = {}
  Scene = {"boot"}
SPECIFICATION Spec
INVARIANTS Exclusive Paired
SYMMETRY Symmetry
\* All may end.
CHECK_DEADLOCK FALSE
