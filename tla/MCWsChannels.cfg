SPECIFICATION Spec
CONSTANTS
  Handlers = {h1, h2, h3}
  Routable = {h1, h2}
  Reconnecting = {h1, h3}
  Contents <- MCContents
  Bursts <- MCBursts
  MaxConns = 2
  MaxChannels = 4
  MaxInFlight = 2
  NoHandler = none
INVARIANTS
  TypeOK
  ChannelsAgree
  OneConnectionPerHandler
PROPERTY
  AbandonedOnlyWhileOpening
CHECK_DEADLOCK FALSE
