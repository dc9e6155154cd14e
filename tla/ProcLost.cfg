\* ExitProcess() and the threads that have not detached.
CONSTANTS
  CHILD_MAX = 4
  Threads = {t1, t2, t3}
  BootThread = boot
  NoThread = nothread
  Procs = {q1, q2, q3}
  NoProc = noproc
  ExitCodes = {1}
  Launch = FALSE
  Vfork = FALSE
  SerialForks = TRUE
  WaitKinds = {"any"}
  Handlers = FALSE
  PgidArgs = {}
SPECIFICATION Spec
SYMMETRY Symmetry
INVARIANTS ExitCompletes
