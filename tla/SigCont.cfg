\* A stopped job and SIGCONT.
CONSTANTS
  Procs = {2, 3}
  Parent <- Shell
  GroupId <- Jobs
  Admins = {2}
  Sigs = {2, 17, 19, 20}
  Kills = {17, 19}
  Disps = {"catch"}
  Masks <- NoMasks
  Handlers = {}
  Sleepers = {}
  Timers = {}
  Calls = {"kill"}
  MaxSent = 2
SPECIFICATION FairSpec
PROPERTIES ContResumes
\* Every process may wait for a signal that nobody sends.
CHECK_DEADLOCK FALSE
