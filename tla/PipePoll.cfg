\* One process polls a pipe and a socketpair, or a socket with a name.
CONSTANTS
  Procs = {1, 2, 3}
  Mains = {1}
  Ends <- AllEnds
  Kind <- KindOf
  Peer <- PeerOf
  Server <- ServerOf
  EventOf <- Event
  Events <- AllEvents
  Held <- Serves
  Cap = 1
  Watches <- Watch
  Readers = {1}
  Parts <- Buffers
  Calls <- Roles
  Times = {"some"}
  FullWrites = FALSE
  MaxSig = 1
SPECIFICATION FairSpec
INVARIANTS TypeOK PollTrue ReadHonest EndIsFinal
PROPERTIES KeptUntilRead ReadyEnds
\* All processes may exit.
CHECK_DEADLOCK FALSE
