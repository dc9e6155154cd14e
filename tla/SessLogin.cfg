\* Two logins whose shells run jobs, subshells and shells.
CONSTANTS
  MaxTask = 4
  MaxImage = 5
  MaxUnit = 2
  MaxTerm = 2
  Windows = {w1, w2}
  Starts = 2
  Presses = 1
  Forks = 2
  Jobs = {"fore", "back", "shell", "sub"}
  Scene = {}
SPECIFICATION Spec
INVARIANTS TypeOK Exclusive GroupsApart
PROPERTIES OwnForeground RevokesOwn HitOwn
SYMMETRY Symmetry
\* All may end.
CHECK_DEADLOCK FALSE
