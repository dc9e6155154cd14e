\* Processes lock a file of two bytes as well-behaved programs do.
CONSTANTS
  Procs = {p1, p2}
  MaxFd = 1
  MaxObj = 3
  MaxByte = 1
  Word = 3
  Ranges <- McRanges
  Menus <- McMenus
SPECIFICATION FairSpec
INVARIANTS TypeOK Backed Known GetLkTrue
PROPERTIES ActsPosix Served
