\* wait4() in a restarting SIGCHLD handler.
CONSTANTS
  CHILD_MAX = 4
  Threads = {t1, t2, t3}
  BootThread = boot
  NoThread = nothread
  Procs = {q1, q2, q3}
  NoProc = noproc
  ExitCodes = {1}
  Launch = TRUE
  Vfork = FALSE
  SerialForks = TRUE
  WaitKinds = {"any"}
  Handlers = TRUE
  PgidArgs = {}
SPECIFICATION Spec
SYMMETRY Symmetry
INVARIANTS ReapsNoOthersChild
