SPECIFICATION Spec
CONSTANTS
    Files = {f, g}
    KnownIcons = {f}
    MaxResults = 2
    MaxMatches = 2
    MaxSearches = 2
    MaxSockets = 2
INVARIANTS CancelHitsOwnSearch SupersededIsCancelled ShownIsComplete
PROPERTY SearchEnds
CHECK_DEADLOCK FALSE
