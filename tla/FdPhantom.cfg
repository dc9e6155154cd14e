\* fcntl() on descriptors that are not open.
CONSTANTS
  Tasks = {p1, p2}
  Wins = {w1, w2}
  Handles = {0, 1, 2, 3, 4}
  PipeEvent = 0
  NoHandle = nohandle
  Issue <- Lowest
  NoTask = notask
  NoWin = nowin
  OPEN_MAX = 2
  Paths = {f1}
  NoFile = nofile
  Menus = {{"open", "close", "setfl"}}
  RawPipes = FALSE
  SetClosed = TRUE
SPECIFICATION Spec
CONSTRAINT NoLeaks
SYMMETRY Symmetry
INVARIANTS InUse
