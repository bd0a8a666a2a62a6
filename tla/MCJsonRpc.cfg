SPECIFICATION FairSpec
CONSTANTS
  h1 = h1
  h2 = h2
  Handlers = {h1, h2}
  Routable = {h1, h2}
  Reconnecting = {h1, h2}
  MaxConns = 2
  MaxChannels = 4
  MaxInFlight = 2
  NoHandler = none
  Calls = {1, 2, 3, 4}
  Notifications = {2}
  HandlerOf <- MCHandlerOf
  NoConnection = none
INVARIANTS
  PromiseIsCurrent
  NoOrphanedCall
PROPERTIES
  ExecutedInOrder
  ImplementsRemoteCalls
  SentCallsSettle
CHECK_DEADLOCK FALSE
