\* Both ends of a socketpair are read and written: they share one event.
CONSTANTS
  Procs = {1, 2}
  Mains = {1}
  Ends <- PairEnds
  Kind <- KindOf
  Peer <- PeerOf
  Server <- ServerOf
  EventOf <- Event
  Events <- AllEvents
  Held <- PairHeld
  Cap = 1
  Watches <- WatchAll
  Readers = {1, 2}
  Parts <- OneEach
  Calls <- Both
  Times = {"some"}
  FullWrites = FALSE
  MaxSig = 0
SPECIFICATION FairSpec
PROPERTIES ReadyEnds
\* All processes may exit.
CHECK_DEADLOCK FALSE
