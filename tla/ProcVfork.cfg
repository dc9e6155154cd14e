\* fork(), vfork(), execve() and wait4(WAIT_ANY); slots are claimed one at a time.
CONSTANTS
  CHILD_MAX = 4
  Threads = {t1, t2, t3}
  BootThread = boot
  NoThread = nothread
  Procs = {q1, q2, q3}
  NoProc = noproc
  ExitCodes = {1}
  Launch = FALSE
  Vfork = TRUE
  SerialForks = TRUE
  WaitKinds = {"any"}
  Handlers = FALSE
  PgidArgs = {}
SPECIFICATION Spec
SYMMETRY Symmetry
INVARIANTS TypeOK SlotOwned ReapsNoOthersChild
PROPERTIES ImplementsLife
\* A full table leaves a forking thread waiting for good.
CHECK_DEADLOCK FALSE
