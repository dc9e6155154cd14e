\* Any program: overlapping forks, every form of wait4(), handlers, setpgid().
CONSTANTS
  CHILD_MAX = 3
  Threads = {t1, t2, t3}
  BootThread = boot
  NoThread = nothread
  Procs = {q1, q2, q3}
  NoProc = noproc
  ExitCodes = {1}
  Launch = TRUE
  Vfork = FALSE
  SerialForks = FALSE
  WaitKinds = {"any", "pid", "grp"}
  Handlers = TRUE
  PgidArgs <- SomePgids
SPECIFICATION Spec
SYMMETRY Symmetry
INVARIANTS ForkAnswer
