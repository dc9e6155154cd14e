\* fork(): the child of a process that has a lock has it too, and unlocks it.
CONSTANTS
  Procs = {p1, p2}
  MaxFd = 0
  MaxObj = 3
  MaxByte = 1
  Word = 3
  Ranges <- McWhole
  Menus = {{"fcntl", "fork", "single"}}
SPECIFICATION Spec
INVARIANT Backed
