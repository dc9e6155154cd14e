\* A process blocks a signal.
CONSTANTS
  Procs = {2, 3}
  Parent <- Shell
  GroupId <- Jobs
  Admins = {2}
  Sigs = {2, 20}
  Kills = {2}
  Disps = {"catch"}
  Masks <- IntMask
  Handlers = {3}
  Sleepers = {}
  Timers = {}
  Calls = {"kill", "sigprocmask"}
  MaxSent = 1
SPECIFICATION Spec
PROPERTIES BlockedWaits
\* Every process may wait for a signal that nobody sends.
CHECK_DEADLOCK FALSE
