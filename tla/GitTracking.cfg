SPECIFICATION TrackingSpec
CONSTANTS
  Repositories = {r1, r2}
  NoRepository = none
  MaxSessions = 2
  MaxSelections = 3
  MaxEvents = 1
INVARIANT SelectedIsFollowed
CHECK_DEADLOCK FALSE
