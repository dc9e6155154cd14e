\* Two processes sleep.
CONSTANTS
  Procs = {2, 3, 4}
  Parent <- Strangers
  GroupId <- Jobs
  Admins = {2}
  Sigs = {2, 20}
  Kills = {2}
  Disps = {"err"}
  Masks <- NoMasks
  Handlers = {2}
  Sleepers = {2, 3}
  Timers = {}
  Calls = {"kill", "sigaction"}
  MaxSent = 1
SPECIFICATION FairSpec
PROPERTIES SignalWakes
\* Every process may wait for a signal that nobody sends.
CHECK_DEADLOCK FALSE
