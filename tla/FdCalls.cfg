\* All calls on descriptors, each program with a menu of them: files on disk;
\* pipes; sockets whose events vfs_close() closes (no execve); and /dev/stdin,
\* whose descriptors are copies of another one, handle and all.
CONSTANTS
  Tasks = {p1, p2}
  Wins = {w1, w2, w3}
  Handles = {0, 1, 2, 3, 4, 5, 6, 7, 8, 9}
  PipeEvent = 0
  NoHandle = nohandle
  Issue <- Lowest
  NoTask = notask
  NoWin = nowin
  OPEN_MAX = 2
  Paths = {f1}
  NoFile = nofile
  Menus = {{"open", "dup", "close", "setfd", "fork", "exec"},
           {"open", "dup2", "close", "setfl", "fork"},
           {"pipe", "close", "fork", "exec"},
           {"socket", "dup2", "close", "closefrom", "fork"},
           {"open", "std", "close"},
           {"open", "std", "fork"}}
  RawPipes = FALSE
  SetClosed = FALSE
SPECIFICATION Spec
CONSTRAINT FewLeaks
SYMMETRY Symmetry
INVARIANTS TypeOK Isolated Usable Referenced InUse
PROPERTIES ActsPosix
