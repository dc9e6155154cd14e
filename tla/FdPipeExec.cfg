\* execve() with descriptors that pipe() returned.
CONSTANTS
  Tasks = {p1, p2}
  Wins = {w1, w2}
  Handles = {0, 1, 2, 3, 4, 5, 6}
  PipeEvent = 0
  NoHandle = nohandle
  Issue <- Lowest
  NoTask = notask
  NoWin = nowin
  OPEN_MAX = 2
  Paths = {f1}
  NoFile = nofile
  Menus = {{"pipe", "fork", "exec"}}
  RawPipes = TRUE
  SetClosed = FALSE
SPECIFICATION Spec
CONSTRAINT NoLeaks
SYMMETRY Symmetry
PROPERTIES ImplementsPosix
