SPECIFICATION FairSpec
CONSTANTS
  Edits = {e1, e2}
  Fixes = {f1}
  External = {x1}
  AutoSave = TRUE
  Participants = 2
  MaxSaves = 1
  MaxFailures = 1
INVARIANTS
  TypeOK
  CleanMeansSaved
  UpdatesFit
PROPERTIES
  NoEditLost
  EditsReachFile
CHECK_DEADLOCK FALSE
