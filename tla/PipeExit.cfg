\* The writer is a program of its own, whose exit closes pipes without their event.
CONSTANTS
  Procs = {1, 2}
  Mains = {1, 2}
  Ends <- PipeEnds
  Kind <- KindOf
  Peer <- PeerOf
  Server <- ServerOf
  EventOf <- Event
  Events <- AllEvents
  Held <- PipeHeld
  Cap = 1
  Watches <- WatchAll
  Readers = {1}
  Parts <- Buffers
  Calls <- Roles
  Times = {"some"}
  FullWrites = FALSE
  MaxSig = 0
SPECIFICATION FairSpec
PROPERTIES ReadyEnds
\* All processes may exit.
CHECK_DEADLOCK FALSE
