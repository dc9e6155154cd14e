\* A signal terminates a process.
CONSTANTS
  Procs = {2, 3}
  Parent <- Shell
  GroupId <- Jobs
  Admins = {2}
  Sigs = {2, 20}
  Kills = {2}
  Disps = {"catch"}
  Masks <- NoMasks
  Handlers = {}
  Sleepers = {}
  Timers = {}
  Calls = {"kill"}
  MaxSent = 1
SPECIFICATION Spec
INVARIANTS StatusNamesSignal
\* Every process may wait for a signal that nobody sends.
CHECK_DEADLOCK FALSE
