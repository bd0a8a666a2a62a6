SPECIFICATION FairSpec
CONSTANTS
  Clients = {c1, c2}
  Missing = {c2}
  Unwatchable = {c1, c2}
  MaxSessions = 2
  MaxWatches = 2
  MaxChanges = 1
INVARIANTS
  IdsAgree
  WantedIsWatched
  OrphansExplained
PROPERTY
  ChangesReachClient
CHECK_DEADLOCK FALSE
