\* A shell waits for its job, which stops; nobody else sleeps.
CONSTANTS
  Procs = {2, 3}
  Parent <- Shell
  GroupId <- Jobs
  Admins = {2}
  Sigs = {2, 17, 20}
  Kills = {2, 17}
  Disps = {"restart", "ign"}
  Masks <- NoMasks
  Handlers = {2, 3}
  Sleepers = {2}
  Timers = {}
  Calls = {"kill", "sigaction", "exit"}
  MaxSent = 2
SPECIFICATION FairSpec
PROPERTIES StopIsTold
\* Every process may wait for a signal that nobody sends.
CHECK_DEADLOCK FALSE
