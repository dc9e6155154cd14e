\* Programs write to a full pipe: the write resets the event the reader waits for.
CONSTANTS
  Procs = {1, 2}
  Mains = {1}
  Ends <- PipeEnds
  Kind <- KindOf
  Peer <- PeerOf
  Server <- ServerOf
  EventOf <- Event
  Events <- AllEvents
  Held <- PipeHeld
  Cap = 1
  Watches <- WatchAll
  Readers = {1}
  Parts <- Buffers
  Calls <- Roles
  Times = {"some"}
  FullWrites = TRUE
  MaxSig = 0
SPECIFICATION FairSpec
PROPERTIES ReadyEnds
\* All processes may exit.
CHECK_DEADLOCK FALSE
