\* One process sleeps, which no signal it gets lets go on sleeping.
CONSTANTS
  Procs = {2, 3}
  Parent <- Strangers
  GroupId <- Pipeline
  Admins = {2}
  Sigs = {2, 14, 20}
  Kills = {2}
  Disps = {"catch", "err"}
  Masks <- NoMasks
  Handlers = {2}
  Sleepers = {2}
  Timers = {2}
  Calls = {"kill", "killpg", "sigaction", "exit"}
  MaxSent = 2
SPECIFICATION FairSpec
PROPERTIES SignalWakes
\* Every process may wait for a signal that nobody sends.
CHECK_DEADLOCK FALSE
