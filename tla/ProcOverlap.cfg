\* Two slots may be claimed at the same time.
CONSTANTS
  CHILD_MAX = 4
  Threads = {t1, t2, t3, t4}
  BootThread = boot
  NoThread = nothread
  Procs = {q1, q2, q3}
  NoProc = noproc
  ExitCodes = {1}
  Launch = FALSE
  Vfork = FALSE
  SerialForks = FALSE
  WaitKinds = {"any"}
  Handlers = FALSE
  PgidArgs = {}
SPECIFICATION Spec
SYMMETRY Symmetry
INVARIANTS SlotOwned
\* A full table leaves a forking thread waiting for good.
CHECK_DEADLOCK FALSE
