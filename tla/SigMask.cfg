\* sigsuspend(), stops and handlers, nested; kill() of one, of a group and of all.
CONSTANTS
  Procs = {2, 3}
  Parent <- Shell
  GroupId <- Pipeline
  Admins = {2}
  Sigs = {2, 19, 20}
  Kills = {2, 19}
  Disps = {"catch", "err"}
  Masks <- IntMask
  Handlers = {3}
  Sleepers = {}
  Timers = {}
  Calls = {"kill", "killpg", "killall", "sigaction", "sigprocmask", "sigsuspend", "execve", "exit"}
  MaxSent = 2
SPECIFICATION Spec
INVARIANTS TypeOK MaskRestored
PROPERTIES SignalArrives
\* Every process may wait for a signal that nobody sends.
CHECK_DEADLOCK FALSE
