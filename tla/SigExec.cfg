\* A process ignores a signal and calls execve().
CONSTANTS
  Procs = {2, 3}
  Parent <- Shell
  GroupId <- Jobs
  Admins = {2}
  Sigs = {2, 20}
  Kills = {2}
  Disps = {"ign"}
  Masks <- NoMasks
  Handlers = {3}
  Sleepers = {}
  Timers = {}
  Calls = {"sigaction", "execve"}
  MaxSent = 0
SPECIFICATION Spec
PROPERTIES IgnoredStays
\* Every process may wait for a signal that nobody sends.
CHECK_DEADLOCK FALSE
