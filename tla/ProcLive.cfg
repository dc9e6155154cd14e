\* Fair scheduling; two slots to give away, three threads, one Win32 process.
CONSTANTS
  CHILD_MAX = 4
  Threads = {t1, t2, t3}
  BootThread = boot
  NoThread = nothread
  Procs = {q1}
  NoProc = noproc
  ExitCodes = {1}
  Launch = FALSE
  Vfork = FALSE
  SerialForks = TRUE
  WaitKinds = {"any"}
  Handlers = FALSE
  PgidArgs = {}
SPECIFICATION FairSpec

PROPERTIES ForkReturns WaitReturns ExitEnds
\* A full table leaves a forking thread waiting for good.
CHECK_DEADLOCK FALSE
