\* execve() with a socket.
CONSTANTS
  Tasks = {p1, p2}
  Wins = {w1, w2}
  Handles = {0, 1, 2, 3, 4, 5, 6}
  PipeEvent = 0
  NoHandle = nohandle
  Issue <- Lowest
  NoTask = notask
  NoWin = nowin
  OPEN_MAX = 2
  Paths = {f1}
  NoFile = nofile
  Menus = {{"socket", "close", "exec"}}
  RawPipes = FALSE
  SetClosed = FALSE
SPECIFICATION Spec
SYMMETRY Symmetry
INVARIANTS Usable
