\* A process waits for an overlapping lock of its own.
CONSTANTS
  Procs = {p1, p2}
  MaxFd = 0
  MaxObj = 3
  MaxByte = 1
  Word = 3
  Ranges <- McRanges
  Menus = {{"fcntl", "wait"}}
SPECIFICATION FairSpec
PROPERTY Served
