SPECIFICATION ReferencesSpec
CONSTANTS
  Acquires = {a1, a2, a3, a4, a5}
  None = none
INVARIANTS
  ReferencesTypeOK
  OneCreation
  EntryIsLive
PROPERTY
  LastReferenceDisposes
CHECK_DEADLOCK FALSE
